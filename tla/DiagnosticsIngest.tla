------------------------- MODULE DiagnosticsIngest -------------------------
(***************************************************************************)
(* The recorder of playback diagnostics (services/playback_diagnostics/):  *)
(* one session with one browser as its source.  The browser keeps events   *)
(* under sequence numbers in a spool of its own and may only forget those  *)
(* below a watermark the server has told it; the server appends a batch to *)
(* an encrypted journal, then commits it to a catalog, and in the end      *)
(* seals the session.                                                      *)
(*                                                                         *)
(* A section under the catalog's mutation guard is one step: every other   *)
(* user of the catalog waits for it.  What it can leave behind when it     *)
(* raises or the process dies in it are the outcomes of WriteFails and     *)
(* Crash.  A sequence number stands for its event.                         *)
(***************************************************************************)
EXTENDS Integers, Sequences

CONSTANTS
    Threads,          \* threads of the server that answer requests
    None,
    MaxSequence,      \* bound: sequence numbers the browser allocates
    MaxObservations,  \* bound: observations of the server itself
    MaxTroubles       \* bound: crashes, failures, timeouts, lost answers

ASSUME DiagnosticsConstants ==
    /\ None \notin Threads
    /\ MaxSequence \in Nat
    /\ MaxObservations \in Nat
    /\ MaxTroubles \in Nat

Seqs == 1..MaxSequence

VARIABLES
    client,           \* the browser: its spool, its ledger of gaps, its state
    req,              \* per thread: the request it answers
    queue,            \* the writer's queue, its head being the batch at work
    written,          \* the head of the queue has its receipt
    unindexed,        \* the source is in _unindexed_sources
    journal,          \* on disk: how often each event is in the journal
    torn,             \* on disk: the journal ends in half a record
    server,           \* on disk: the journal of the server's own events
    catalog,          \* in SQLite: state, final sequence, events, gaps, watermark
    seal,             \* on disk: what the seal files cover
    finalizer,        \* where the finalization task is
    sealing,          \* the session is in _sealing_sessions
    remembered,       \* the session is in _sealed_sessions
    barrier,          \* the session is in _closing_barriers
    observation,      \* an observation on its way through the observer thread
    observed,         \* observations captured so far
    troubles          \* what MaxTroubles bounds, so far

disk == <<journal, torn, server, seal>>
finalization == <<finalizer, sealing, remembered, barrier>>
observer == <<observation, observed>>
vars == <<client, req, queue, written, unindexed, disk, catalog, finalization,
          observer, troubles>>

Clients == [mode : {"open", "closing", "sealed", "rejected"},
            produced : 0..MaxSequence, spool : SUBSET Seqs, bad : SUBSET Seqs,
            ledger : SUBSET Seqs, fetch : Threads \cup {None}]
Requests == [kind : {"none", "batch", "gap", "close"},
             pc : {"idle", "enter", "check", "submit", "wait", "declare",
                   "read", "mark", "drain", "flush", "join", "answered"},
             items : SUBSET Seqs,
             answer : {"none", "ok", "retry", "invalid", "conflict", "closing",
                       "sealed"},
             ack : 0..MaxSequence]
Batches == [source : {"client", "observation", "terminal"},
            events : SUBSET Seqs, waiter : Threads \cup {None}]
Catalogs == [state : {"active", "interrupted", "closing", "sealed"},
             final : 0..MaxSequence, indexed : SUBSET Seqs, gaps : SUBSET Seqs,
             watermark : 0..MaxSequence]
Steps == {"none", "read", "mark", "drain", "flush", "gate", "last", "terminal",
          "writing", "seal", "publish", "remember"}

Idle == [kind |-> "none", pc |-> "idle", items |-> {}, answer |-> "none",
         ack |-> 0]
Unsealed == [journal |-> [s \in Seqs |-> 0], gaps |-> {}, server |-> {}]

TypeOK ==
    /\ client \in Clients
    /\ req \in [Threads -> Requests]
    /\ queue \in Seq(Batches)
    /\ written \in BOOLEAN
    /\ unindexed \in BOOLEAN
    /\ journal \in [Seqs -> Nat]
    /\ torn \in BOOLEAN
    /\ server \subseteq {"observation", "terminal"}
    /\ catalog \in Catalogs
    /\ finalizer \in Steps
    /\ sealing \in BOOLEAN
    /\ remembered \in BOOLEAN
    /\ barrier \in BOOLEAN
    /\ observation \in {"none", "early", "late", "accepted"}
    /\ observed \in 0..MaxObservations
    /\ troubles \in 0..MaxTroubles

Init ==
    /\ client = [mode |-> "open", produced |-> 0, spool |-> {}, bad |-> {},
                 ledger |-> {}, fetch |-> None]
    /\ req = [t \in Threads |-> Idle]
    /\ queue = <<>> /\ written = FALSE /\ unindexed = FALSE
    /\ journal = Unsealed.journal /\ torn = FALSE /\ server = {}
    /\ catalog = [state |-> "active", final |-> 0, indexed |-> {}, gaps |-> {},
                  watermark |-> 0]
    /\ seal = Unsealed
    /\ finalizer = "none" /\ sealing = FALSE /\ remembered = FALSE
    /\ barrier = FALSE
    /\ observation = "none" /\ observed = 0
    /\ troubles = 0

-----------------------------------------------------------------------------
(* Helpers *)

Trouble == troubles < MaxTroubles /\ troubles' = troubles + 1

\* The sequences the catalog accounts for, and the catalog once the contiguous
\* watermark has been recomputed from where it was.
Covered(c) == c.indexed \cup c.gaps

Advanced(c) ==
    {[c EXCEPT !.watermark = w] :
        w \in {v \in c.watermark..MaxSequence :
                  /\ (c.watermark + 1)..v \subseteq Covered(c)
                  /\ v + 1 \notin Covered(c)}}

Journaled == {s \in Seqs : journal[s] > 0}
Evidence == [journal |-> journal, gaps |-> catalog.gaps, server |-> server]

\* What a retry must not submit again, and when the writer is done.
Pending == UNION {queue[i].events : i \in DOMAIN queue}
Flushed == queue = <<>>

InIngest == {t \in Threads : req[t].pc \in {"check", "submit", "wait"}
                             /\ req[t].kind = "batch"}

\* Every source has reached its final sequence and misses nothing below it.
BarriersComplete ==
    /\ catalog.final # 0
    /\ catalog.watermark >= catalog.final
    /\ 1..catalog.final \subseteq Covered(catalog)

At(t, step) == req[t].pc = step
Goes(t, step) == req' = [req EXCEPT ![t].pc = step]
Answered(r, answer, ack) ==
    [kind |-> r.kind, pc |-> "answered", items |-> r.items, answer |-> answer,
     ack |-> ack]
Answers(t, answer, ack) == req' = [req EXCEPT ![t] = Answered(@, answer, ack)]

\* The writer completes the future of the batch at work, if anybody still
\* waits for it.
Completes(answer, ack) ==
    LET t == Head(queue).waiter
    IN  /\ written' = TRUE
        /\ req' = IF t = None THEN req
                  ELSE [req EXCEPT ![t] = Answered(@, answer, ack)]

-----------------------------------------------------------------------------
(* The browser *)

\* An event gets the next sequence and goes to the spool, also one that the
\* server will find invalid; or the spool has no room and the sequence becomes
\* a gap.
Record ==
    /\ client.mode = "open" /\ client.produced < MaxSequence
    /\ LET s == client.produced + 1
       IN  \/ client' = [client EXCEPT !.produced = s, !.spool = @ \cup {s}]
           \/ client' = [client EXCEPT !.produced = s, !.spool = @ \cup {s},
                                       !.bad = @ \cup {s}]
           \/ client' = [client EXCEPT !.produced = s, !.ledger = @ \cup {s}]
    /\ UNCHANGED <<req, queue, written, unindexed, disk, catalog, finalization,
                   observer, troubles>>

\* The last event is recorded: its sequence is the final one.
StartClosing ==
    /\ client.mode = "open" /\ client.produced > 0
    /\ client' = [client EXCEPT !.mode = "closing"]
    /\ UNCHANGED <<req, queue, written, unindexed, disk, catalog, finalization,
                   observer, troubles>>

Arrives(t, kind, step, items) ==
    /\ req[t] = Idle
    /\ req' = [req EXCEPT ![t] = [kind |-> kind, pc |-> step, items |-> items,
                                  answer |-> "none", ack |-> 0]]
    /\ UNCHANGED <<queue, written, unindexed, disk, catalog, finalization,
                   observer>>

Fetches(t) ==
    /\ client.mode \in {"open", "closing"} /\ client.fetch = None
    /\ client' = [client EXCEPT !.fetch = t]
    /\ UNCHANGED troubles

\* flush: the gaps become durable first, then the oldest events are sent.
SendGap(t) ==
    /\ \E s \in client.ledger : Arrives(t, "gap", "read", {s})
    /\ Fetches(t)

SendBatch(t) ==
    /\ client.ledger = {}
    /\ \E last \in client.spool :
           Arrives(t, "batch", "enter", {s \in client.spool : s <= last})
    /\ Fetches(t)

SendClose(t) ==
    /\ client.mode = "closing"
    /\ Arrives(t, "close", "read", {})
    /\ Fetches(t)

\* The page is hidden: what is not acknowledged is sent, and nobody listens.
Beacon(t) ==
    /\ client.mode = "open" /\ client.spool # {}
    /\ Arrives(t, "batch", "enter", client.spool)
    /\ Trouble
    /\ UNCHANGED client

\* The connection breaks: the browser will try again while the server works on.
LoseAnswer ==
    /\ client.fetch # None
    /\ client' = [client EXCEPT !.fetch = None]
    /\ Trouble
    /\ UNCHANGED <<req, queue, written, unindexed, disk, catalog, finalization,
                   observer>>

\* acknowledge: the spool forgets what the watermark covers.
Forgets(c, ack) ==
    [c EXCEPT !.spool = {s \in @ : s > ack}, !.fetch = None]

\* What the browser makes of an answer.
Heard(c, r) ==
    CASE r.answer = "ok" /\ r.kind = "gap" ->
            Forgets([c EXCEPT !.spool = @ \ r.items, !.ledger = @ \ r.items],
                    r.ack)
      [] r.answer = "ok" /\ r.kind # "gap" -> Forgets(c, r.ack)
      [] r.answer = "invalid" ->
            [c EXCEPT !.ledger = @ \cup {r.ack}, !.fetch = None]
      [] r.answer \in {"retry", "closing"} -> Forgets(c, r.ack)
      [] r.answer = "conflict" -> [c EXCEPT !.mode = "rejected", !.fetch = None]
      [] r.answer = "sealed" /\ r.kind = "close" ->
            [Forgets(c, r.ack) EXCEPT !.mode = "sealed"]
      [] OTHER ->
            [c EXCEPT !.mode = IF c.spool \cup c.ledger = {} THEN "sealed"
                               ELSE "rejected", !.fetch = None]

Hear(t) ==
    /\ client.fetch = t /\ At(t, "answered")
    /\ client' = Heard(client, req[t])
    /\ req' = [req EXCEPT ![t] = Idle]
    /\ UNCHANGED <<queue, written, unindexed, disk, catalog, finalization,
                   observer, troubles>>

\* Nobody listens to the answer any more.
Drop(t) ==
    /\ client.fetch # t /\ At(t, "answered")
    /\ req' = [req EXCEPT ![t] = Idle]
    /\ UNCHANGED <<client, queue, written, unindexed, disk, catalog,
                   finalization, observer, troubles>>

-----------------------------------------------------------------------------
(* The requests *)

\* ingest: refused while the session is being sealed, counted otherwise.
Enter(t) ==
    /\ At(t, "enter")
    /\ IF remembered THEN Answers(t, "sealed", 0)
       ELSE IF sealing THEN Answers(t, "closing", 0)
       ELSE Goes(t, "check")
    /\ UNCHANGED <<client, queue, written, unindexed, disk, catalog,
                   finalization, observer, troubles>>

\* _ingest_events validates the events, naming the first that is invalid, and
\* reads the state of the session.
Check(t) ==
    /\ At(t, "check")
    /\ LET bad == req[t].items \cap client.bad
       IN  IF bad # {}
           THEN \E s \in bad : /\ \A u \in bad : s <= u
                              /\ Answers(t, "invalid", s)
           ELSE IF catalog.state = "sealed" THEN Answers(t, "sealed", 0)
           ELSE Goes(t, "submit")
    /\ UNCHANGED <<client, queue, written, unindexed, disk, catalog,
                   finalization, observer, troubles>>

\* Mutant of Submit: a batch that is pending already is acknowledged.
SubmitAcknowledging(t) ==
    /\ At(t, "submit")
    /\ LET fresh == req[t].items \ Pending
       IN  IF fresh = {}
           THEN /\ \E s \in req[t].items : Answers(t, "ok", s)
                /\ UNCHANGED queue
           ELSE /\ Goes(t, "wait")
                /\ queue' = Append(queue, [source |-> "client",
                                           events |-> fresh, waiter |-> t])
    /\ UNCHANGED <<client, written, unindexed, disk, catalog, finalization,
                   observer, troubles>>

\* write_and_wait: events that are pending are left out; with nothing left the
\* answer is the watermark of the moment.
Submit(t) ==
    /\ At(t, "submit")
    /\ LET fresh == req[t].items \ Pending
       IN  IF fresh = {}
           THEN Answers(t, "ok", catalog.watermark) /\ UNCHANGED queue
           ELSE /\ Goes(t, "wait")
                /\ queue' = Append(queue, [source |-> "client",
                                           events |-> fresh, waiter |-> t])
    /\ UNCHANGED <<client, written, unindexed, disk, catalog, finalization,
                   observer, troubles>>

\* The queue, which all sessions share, is full.
SubmitFails(t) ==
    /\ At(t, "submit") /\ ~(req[t].items \subseteq Pending)
    /\ Answers(t, "conflict", 0)
    /\ Trouble
    /\ UNCHANGED <<client, queue, written, unindexed, disk, catalog,
                   finalization, observer>>

\* Ten seconds without a receipt: the batch stays in the queue.
WaitTimesOut(t) ==
    /\ At(t, "wait")
    /\ Answers(t, "retry", 0)
    /\ queue' = [i \in DOMAIN queue |->
                   IF queue[i].waiter = t THEN [queue[i] EXCEPT !.waiter = None]
                   ELSE queue[i]]
    /\ Trouble
    /\ UNCHANGED <<client, written, unindexed, disk, catalog, finalization,
                   observer>>

\* declare_client_gap reads the state of the session ...
ReadForGap(t) ==
    /\ At(t, "read") /\ req[t].kind = "gap"
    /\ IF catalog.state = "sealed" THEN Answers(t, "sealed", 0)
       ELSE Goes(t, "declare")
    /\ UNCHANGED <<client, queue, written, unindexed, disk, catalog,
                   finalization, observer, troubles>>

\* ... and declare_source_gap refuses to overlap a catalogued event.
DeclareGap(t) ==
    /\ At(t, "declare")
    /\ IF req[t].items \cap catalog.indexed # {}
       THEN Answers(t, "conflict", 0) /\ UNCHANGED catalog
       ELSE /\ catalog' \in Advanced([catalog EXCEPT !.gaps = @ \cup req[t].items])
            /\ Answers(t, "ok", catalog'.watermark)
    /\ UNCHANGED <<client, queue, written, unindexed, disk, finalization,
                   observer, troubles>>

\* close: an unsealed session gets its final sequence, the same from every
\* request; _begin_closing sets the barrier in memory and reads the state.
ReadForClose(t) ==
    /\ At(t, "read") /\ req[t].kind = "close"
    /\ IF catalog.state = "sealed"
       THEN Answers(t, "sealed", catalog.watermark) /\ UNCHANGED <<catalog, barrier>>
       ELSE /\ catalog' = [catalog EXCEPT !.final = client.produced]
            /\ barrier' = (barrier \/ ~remembered)
            /\ Goes(t, IF remembered THEN "drain" ELSE "mark")
    /\ UNCHANGED <<client, queue, written, unindexed, disk, finalizer, sealing,
                   remembered, observer, troubles>>

\* _begin_closing writes the state it decided on.
MarkClosing(t) ==
    /\ At(t, "mark")
    /\ catalog' = [catalog EXCEPT !.state = "closing"]
    /\ Goes(t, "drain")
    /\ UNCHANGED <<client, queue, written, unindexed, disk, finalization,
                   observer, troubles>>

DrainObservations(t) ==
    /\ At(t, "drain") /\ observation = "none"
    /\ Goes(t, "flush")
    /\ UNCHANGED <<client, queue, written, unindexed, disk, catalog,
                   finalization, observer, troubles>>

\* The session is complete, or the browser has to bring the rest; then the
\* request starts the finalization task or joins the one that runs.
FlushForClose(t) ==
    /\ At(t, "flush") /\ Flushed
    /\ IF BarriersComplete
       THEN /\ Goes(t, "join")
            /\ finalizer' = IF finalizer = "none" THEN "read" ELSE finalizer
       ELSE Answers(t, "closing", catalog.watermark) /\ UNCHANGED finalizer
    /\ UNCHANGED <<client, queue, written, unindexed, disk, catalog, sealing,
                   remembered, barrier, observer, troubles>>

\* One of the waits of a close request takes five seconds.
CloseTimesOut(t) ==
    /\ req[t].kind = "close" /\ req[t].pc \in {"drain", "flush", "join"}
    /\ Answers(t, "closing", catalog.watermark)
    /\ Trouble
    /\ UNCHANGED <<client, queue, written, unindexed, disk, catalog,
                   finalization, observer>>

-----------------------------------------------------------------------------
(* The writer *)

Working == queue # <<>> /\ ~written

\* A batch whose source is unindexed waits until the catalog has the rows that
\* the journal has; half a record at its end is an error here.
Reindex ==
    /\ Working /\ Head(queue).source = "client" /\ unindexed
    /\ IF torn
       THEN Completes("conflict", 0) /\ UNCHANGED <<catalog, unindexed>>
       ELSE /\ catalog' \in Advanced([catalog EXCEPT !.indexed = @ \cup Journaled])
            /\ unindexed' = FALSE
            /\ UNCHANGED <<req, written>>
    /\ UNCHANGED <<client, queue, disk, finalization, observer, troubles>>

\* What the batch at work adds, and the journal with it.
Fresh == Head(queue).events \ catalog.indexed
Appended(events) == [s \in Seqs |-> IF s \in events THEN journal[s] + 1
                                                    ELSE journal[s]]
\* Mutant of Ready: a source whose commit failed is not indexed first.
ReadyUnindexed == Working /\ Head(queue).source = "client"

Ready == Working /\ Head(queue).source = "client" /\ ~unindexed

\* Duplicates are left out, the rest is appended and then committed.
Write ==
    /\ Ready
    /\ IF Head(queue).events \cap catalog.gaps # {}
       THEN Completes("conflict", 0) /\ UNCHANGED <<catalog, journal>>
       ELSE /\ journal' = Appended(Fresh)
            /\ catalog' \in Advanced([catalog EXCEPT !.indexed = @ \cup Fresh])
            /\ Completes("ok", catalog'.watermark)
    /\ UNCHANGED <<client, queue, unindexed, torn, server, seal, finalization,
                   observer, troubles>>

\* The append fails within the record; or the commit fails after it, without
\* or with its effect.
WriteFails ==
    /\ Ready /\ Fresh # {} /\ Fresh \cap catalog.gaps = {}
    /\ \/ torn' = TRUE /\ UNCHANGED <<journal, catalog>>
       \/ journal' = Appended(Fresh) /\ UNCHANGED <<torn, catalog>>
       \/ /\ journal' = Appended(Fresh)
          /\ catalog' \in Advanced([catalog EXCEPT !.indexed = @ \cup Fresh])
          /\ UNCHANGED torn
    /\ unindexed' = TRUE
    /\ Completes("retry", 0)
    /\ Trouble
    /\ UNCHANGED <<client, queue, server, seal, finalization, observer>>

\* No capacity is left: nothing is written.
WriteRefused ==
    /\ Ready /\ Fresh # {}
    /\ Completes("conflict", 0)
    /\ Trouble
    /\ UNCHANGED <<client, queue, unindexed, disk, catalog, finalization,
                   observer>>

\* Events of the server itself get their sequences here and are always new.
WriteServerEvents ==
    /\ Working /\ Head(queue).source # "client"
    /\ server' = server \cup {Head(queue).source}
    /\ written' = TRUE
    /\ finalizer' = IF finalizer = "writing" /\ Head(queue).source = "terminal"
                    THEN "seal" ELSE finalizer
    /\ UNCHANGED <<client, req, queue, unindexed, journal, torn, seal, catalog,
                   sealing, remembered, barrier, observer, troubles>>

\* The batch gives back its pending keys and its place in the count of its
\* session, after its future was completed.
Release ==
    /\ queue # <<>> /\ written
    /\ queue' = Tail(queue) /\ written' = FALSE
    /\ UNCHANGED <<client, req, unindexed, disk, catalog, finalization,
                   observer, troubles>>

-----------------------------------------------------------------------------
(* The finalization task *)

\* Mutant of Ends: the task that is over does not say so.
EndsSilently(answer) == finalizer' = "none" /\ UNCHANGED req

\* The task is over, and so are the requests that joined it.
Ends(answer) ==
    /\ finalizer' = "none"
    /\ req' = [t \in Threads |->
                 IF req[t].pc = "join"
                 THEN Answered(req[t], answer, catalog.watermark) ELSE req[t]]

\* finalize_session gives up: what waits in _enter_ingest's place goes on.
GivesUp == Ends("closing") /\ sealing' = FALSE /\ UNCHANGED <<remembered, barrier>>

FinalizerGoes(from, to) ==
    /\ finalizer = from /\ finalizer' = to
    /\ UNCHANGED <<sealing, remembered, barrier>>

\* A session that is sealed already needs nothing; otherwise _begin_closing.
FinalizerReads ==
    /\ finalizer = "read"
    /\ IF catalog.state = "sealed"
       THEN Ends("sealed") /\ remembered' = TRUE /\ UNCHANGED barrier
       ELSE /\ finalizer' = IF remembered THEN "drain" ELSE "mark"
            /\ barrier' = (barrier \/ ~remembered)
            /\ UNCHANGED <<req, remembered>>
    /\ UNCHANGED <<client, queue, written, unindexed, disk, catalog, sealing,
                   observer, troubles>>

FinalizerMarks ==
    /\ FinalizerGoes("mark", "drain")
    /\ catalog' = [catalog EXCEPT !.state = "closing"]
    /\ UNCHANGED <<client, req, queue, written, unindexed, disk, observer,
                   troubles>>

FinalizerDrains ==
    /\ FinalizerGoes("drain", "flush") /\ observation = "none"
    /\ UNCHANGED <<client, req, queue, written, unindexed, disk, catalog,
                   observer, troubles>>

\* _begin_sealing closes the gate for requests ...
FinalizerFlushes ==
    /\ finalizer = "flush" /\ Flushed
    /\ IF BarriersComplete
       THEN finalizer' = "gate" /\ sealing' = TRUE
            /\ UNCHANGED <<req, remembered, barrier>>
       ELSE GivesUp
    /\ UNCHANGED <<client, queue, written, unindexed, disk, catalog, observer,
                   troubles>>

\* ... and waits for those that are inside; their batches may still be queued.
FinalizerGates ==
    /\ FinalizerGoes("gate", "last") /\ InIngest = {}
    /\ UNCHANGED <<client, req, queue, written, unindexed, disk, catalog,
                   observer, troubles>>

FinalizerFlushesAgain ==
    /\ finalizer = "last" /\ Flushed
    /\ IF BarriersComplete
       THEN finalizer' = "terminal" /\ UNCHANGED <<req, sealing, remembered, barrier>>
       ELSE GivesUp
    /\ UNCHANGED <<client, queue, written, unindexed, disk, catalog, observer,
                   troubles>>

\* The closing events are written once.
FinalizerWrites ==
    /\ IF "terminal" \in server
       THEN FinalizerGoes("terminal", "seal") /\ UNCHANGED queue
       ELSE /\ FinalizerGoes("terminal", "writing")
            /\ queue' = Append(queue, [source |-> "terminal", events |-> {},
                                       waiter |-> None])
    /\ UNCHANGED <<client, req, written, unindexed, disk, catalog, observer,
                   troubles>>

\* The sources are frozen, the journals verified and the seal files written
\* over them, the manifest last.
FinalizerSeals ==
    /\ FinalizerGoes("seal", "publish") /\ Flushed
    /\ seal' = Evidence
    /\ UNCHANGED <<client, req, queue, written, unindexed, journal, torn, server,
                   catalog, observer, troubles>>

FinalizerPublishes ==
    /\ FinalizerGoes("publish", "remember")
    /\ catalog' = [catalog EXCEPT !.state = "sealed"]
    /\ UNCHANGED <<client, req, queue, written, unindexed, disk, observer,
                   troubles>>

FinalizerRemembers ==
    /\ finalizer = "remember" /\ Ends("sealed")
    /\ sealing' = FALSE /\ remembered' = TRUE /\ barrier' = FALSE
    /\ UNCHANGED <<client, queue, written, unindexed, disk, catalog, observer,
                   troubles>>

\* A wait of the task times out, or its write or one of its files fails.
FinalizerFails ==
    /\ finalizer \in {"drain", "flush", "gate", "last", "writing", "seal"}
    /\ GivesUp
    /\ Trouble
    /\ UNCHANGED <<client, queue, written, unindexed, disk, catalog, observer>>

-----------------------------------------------------------------------------
(* Observations of the server, and the end of the process *)

\* Playback captures an observation, before or after the closing barrier.
Capture ==
    /\ observation = "none" /\ observed < MaxObservations
    /\ observation' = IF barrier THEN "late" ELSE "early"
    /\ observed' = observed + 1
    /\ UNCHANGED <<client, req, queue, written, unindexed, disk, catalog,
                   finalization, troubles>>

\* Mutant of Observe: what came after the closing barrier is written, too.
ObserveLate ==
    /\ observation \in {"early", "late"}
    /\ observation' = IF catalog.state = "sealed" THEN "none" ELSE "accepted"
    /\ UNCHANGED <<client, req, queue, written, unindexed, disk, catalog,
                   finalization, observed, troubles>>

\* _persist_observations drops what came after the barrier or the seal ...
Observe ==
    /\ observation \in {"early", "late"}
    /\ observation' =
           IF \/ catalog.state = "sealed"
              \/ catalog.state = "closing" /\ (~barrier \/ observation = "late")
           THEN "none" ELSE "accepted"
    /\ UNCHANGED <<client, req, queue, written, unindexed, disk, catalog,
                   finalization, observed, troubles>>

\* ... and hands the rest to the writer.
PersistObservation ==
    /\ observation = "accepted" /\ observation' = "none"
    /\ queue' = Append(queue, [source |-> "observation", events |-> {},
                               waiter |-> None])
    /\ UNCHANGED <<client, req, written, unindexed, disk, catalog, finalization,
                   observed, troubles>>

\* The process dies, perhaps between the append of a batch and its commit, or
\* within the append.  The next one repairs the journal, indexes it and marks
\* an unsealed session before it answers requests.
Crash ==
    /\ Trouble
    /\ \/ UNCHANGED journal
       \/ Ready /\ Head(queue).events \cap catalog.gaps = {}
          /\ journal' = Appended(Fresh)
    /\ torn' = FALSE
    /\ catalog' \in IF catalog.state = "sealed" THEN {catalog}
                    ELSE Advanced([catalog EXCEPT
                           !.state = "interrupted",
                           !.indexed = @ \cup {s \in Seqs : journal'[s] > 0}])
    /\ client' = [client EXCEPT !.fetch = None]
    /\ req' = [t \in Threads |-> Idle]
    /\ queue' = <<>> /\ written' = FALSE /\ unindexed' = FALSE
    /\ finalizer' = "none" /\ sealing' = FALSE /\ remembered' = FALSE
    /\ barrier' = FALSE
    /\ observation' = "none"
    /\ UNCHANGED <<server, seal, observed>>

-----------------------------------------------------------------------------
Browser ==
    \/ Record \/ StartClosing \/ LoseAnswer
    \/ \E t \in Threads : SendGap(t) \/ SendBatch(t) \/ SendClose(t)
                          \/ Beacon(t) \/ Hear(t)

Answering(t) ==
    \/ Enter(t) \/ Check(t) \/ Submit(t)
    \/ ReadForGap(t) \/ DeclareGap(t)
    \/ ReadForClose(t) \/ MarkClosing(t) \/ DrainObservations(t)
    \/ FlushForClose(t) \/ Drop(t)

Writing == Reindex \/ Write \/ WriteServerEvents \/ Release

Finalizing ==
    \/ FinalizerReads \/ FinalizerMarks \/ FinalizerDrains \/ FinalizerFlushes
    \/ FinalizerGates \/ FinalizerFlushesAgain \/ FinalizerWrites
    \/ FinalizerSeals \/ FinalizerPublishes \/ FinalizerRemembers

Observing == Observe \/ PersistObservation

Next ==
    \/ Browser
    \/ \E t \in Threads :
           Answering(t) \/ SubmitFails(t) \/ WaitTimesOut(t) \/ CloseTimesOut(t)
    \/ Writing \/ WriteFails \/ WriteRefused
    \/ Finalizing \/ FinalizerFails
    \/ Capture \/ Observing
    \/ Crash

Spec == Init /\ [][Next]_vars

\* The threads of the server go on; the browser hears what arrives and flushes
\* on its timers.  Each close is preceded by flushes, so sending batches and
\* gaps cannot be put off for ever by closes that come back "closing".
FairSpec ==
    /\ Spec
    /\ WF_vars(Writing) /\ WF_vars(Finalizing) /\ WF_vars(Observing)
    /\ \A t \in Threads : WF_vars(Answering(t)) /\ WF_vars(Hear(t))
    /\ SF_vars(\E t \in Threads : SendGap(t))
    /\ SF_vars(\E t \in Threads : SendBatch(t))
    /\ SF_vars(\E t \in Threads : SendClose(t))

-----------------------------------------------------------------------------
(* Properties *)

\* Only what is durable is acknowledged (PLAYBACK_DIAGNOSTIC_RESEARCH_CONTRACT:
\* the watermark after journal fsync and catalog commit permits the browser to
\* delete), whatever failed, was retried or crashed on the way: a sequence the
\* browser allocated is durable, or it still has the event or the gap to send.
NothingIsLost ==
    1..client.produced \subseteq
        client.spool \cup client.ledger \cup Journaled \cup catalog.gaps

\* An event is in the journal once, although batches are sent again while the
\* first attempt is pending, after its commit failed or after a restart, and
\* never in a declared gap.
JournaledOnce ==
    \A s \in Seqs : journal[s] <= 1 /\ (journal[s] = 1 => s \notin catalog.gaps)

\* "A sealed session is immutable": while the catalog calls the session sealed,
\* journals and gaps are what the seal files cover, and they are complete.
SealedEvidenceStands ==
    catalog.state = "sealed" =>
        /\ seal = Evidence
        /\ 1..client.produced \subseteq Journaled \cup catalog.gaps
        /\ "terminal" \in server

\* A browser that closes its session gets it sealed or is rejected for good.
ClosingConcludes ==
    client.mode = "closing" ~> client.mode \in {"sealed", "rejected"}
=============================================================================
