------------------------ MODULE BackgroundWorkProofs ------------------------
(***************************************************************************)
(* Proofs about the threads that work behind the requests, component by    *)
(* component (the three specifications share no variable):                 *)
(*   - Route2Workers: an encoder ends with its epoch, an epoch has one     *)
(*     encoder, the encoders keep to the CPU budget, and the dispatch pass *)
(*     serves the oldest records first;                                    *)
(*   - PosterQueue: a poster is generated once at a time, and nobody who   *)
(*     waits for one is forgotten;                                         *)
(*   - LibraryScan: scans do not overlap, and the running flag is truthful.*)
(***************************************************************************)
EXTENDS Route2Workers, PosterQueue, LibraryScan, TLAPS, FiniteSetTheorems,
        SequenceTheorems, WellFoundedInduction

-----------------------------------------------------------------------------
(* The workers of Route 2: what is invariant *)

\* A thread between its start and its last section.
Live(t) == thread[t].phase \in {"begun", "spawning", "spawned", "watching"}

Served == {"running", "stopping"}

\* A process belongs to a thread that has started it.
Spawned == \A t \in Epochs \X Spawns :
    thread[t].alive => thread[t].phase \in {"spawned", "watching"}

\* While telemetry has not interfered, a thread is the only one of its epoch,
\* and the record of an epoch that has one is not queued again.
OneLive == \A t, u \in Epochs \X Spawns : t[1] = u[1] /\ Live(t) /\ Live(u) => t = u

Busy == \A t \in Epochs \X Spawns : Live(t) =>
    /\ session[t[1][1]].life # "new"
    /\ epoch[t[1]].life # "none"
    /\ epoch[t[1]].life = "named" => epoch[t[1]].worker \in Served

Known == \A t \in Epochs \X Spawns : thread[t].alive /\ thread[t].phase = "watching" =>
    /\ session[t[1][1]].life \in {"open", "closing"}
    /\ epoch[t[1]].life = "named"
    /\ epoch[t[1]].process = t[2]

WInv == /\ TypeOK
        /\ Spawned
        /\ samples = 0 => OneLive /\ Busy /\ Known

-----------------------------------------------------------------------------
(* The order of creation *)

Bounded(f, n) == \E b \in Nat : \A i \in 1..n : f[i] <= b

LEMMA LongerIsBounded ==
    ASSUME NEW n \in Nat \ {0}, \A h \in [1..(n - 1) -> Nat] : Bounded(h, n - 1),
           NEW f \in [1..n -> Nat]
    PROVE  Bounded(f, n)
<1> DEFINE h == [i \in 1..(n - 1) |-> f[i]]
<1>1. h \in [1..(n - 1) -> Nat]
  OBVIOUS
<1>2. PICK b \in Nat : \A i \in 1..(n - 1) : h[i] <= b
  BY <1>1 DEF Bounded
<1>3. \A i \in 1..(n - 1) : f[i] <= b /\ f[i] \in Nat
  BY <1>2
<1>4. f[n] \in Nat
  OBVIOUS
<1>5. \A i \in 1..n : i = n \/ i \in 1..(n - 1)
  OBVIOUS
<1> HIDE DEF h
<1>6. ASSUME NEW i \in 1..n PROVE f[i] <= b + f[n]
  <2>1. CASE i = n
    BY <1>4, <2>1
  <2>2. CASE i \in 1..(n - 1)
    BY <1>3, <1>4, <2>2
  <2> QED
    BY <1>5, <2>1, <2>2
<1>7. b + f[n] \in Nat
  BY <1>4
<1> QED
  BY <1>6, <1>7 DEF Bounded

\* A finite list of numbers has an upper bound.
LEMMA ListsAreBounded ==
    ASSUME NEW n \in Nat, NEW f \in [1..n -> Nat]
    PROVE  Bounded(f, n)
<1> DEFINE Bad == {m \in Nat : \E g \in [1..m -> Nat] : ~Bounded(g, m)}
<1>1. ASSUME Bad # {} PROVE FALSE
  <2>1. PICK m \in Bad : \A k \in Bad : ~(<<k, m>> \in OpToRel(<, Nat))
    BY <1>1, NatLessThanWellFounded, WFMin
  <2>2. m \in Nat /\ \A k \in Bad : ~(k < m)
    <3>1. \A k \in Bad : k \in Nat
      OBVIOUS
    <3> QED
      BY <2>1, <3>1 DEF OpToRel
  <2>3. PICK g \in [1..m -> Nat] : ~Bounded(g, m)
    OBVIOUS
  <2>4. m # 0
    <3>1. ASSUME m = 0 PROVE \A i \in 1..m : g[i] <= 0
      BY <3>1
    <3> QED
      BY <2>3, <3>1 DEF Bounded
  <2>5. m - 1 \in Nat /\ m - 1 < m /\ m \in Nat \ {0}
    BY <2>2, <2>4
  <2>6. \A h \in [1..(m - 1) -> Nat] : Bounded(h, m - 1)
    BY <2>2, <2>5
  <2> QED
    BY <2>3, <2>5, <2>6, LongerIsBounded
<1> QED
  BY <1>1

LEMMA MaximumIsThere ==
    ASSUME NEW S \in SUBSET Nat, IsFiniteSet(S), S # {}
    PROVE  Max(S) \in S /\ \A x \in S : Max(S) >= x
<1>1. PICK n \in Nat : \E f \in [1..n -> S] : \A x \in S : \E i \in 1..n : f[i] = x
  <2>1. PICK n \in Nat : ExistsBijection(1..n, S)
    BY FS_NatBijection
  <2> QED
    BY <2>1 DEF ExistsBijection, Bijection, Surjection, Injection
<1>2. PICK f \in [1..n -> S] : \A x \in S : \E i \in 1..n : f[i] = x
  BY <1>1
<1>3. PICK b \in Nat : \A i \in 1..n : f[i] <= b
  <2>1. f \in [1..n -> Nat]
    OBVIOUS
  <2> QED
    BY <2>1, ListsAreBounded DEF Bounded
<1>4. \A x \in S : x <= b
  BY <1>2, <1>3
<1> DEFINE R == {b - x : x \in S}
<1>5. R \in SUBSET Nat /\ R # {}
  <2>1. \A x \in S : b - x \in Nat
    BY <1>4
  <2> QED
    BY <2>1
<1>6. PICK r \in R : \A k \in R : ~(<<k, r>> \in OpToRel(<, Nat))
  BY <1>5, NatLessThanWellFounded, WFMin
<1>7. \A k \in R : ~(k < r)
  BY <1>5, <1>6 DEF OpToRel
<1>8. PICK m \in S : r = b - m
  OBVIOUS
<1>9. \A x \in S : m >= x
  <2> TAKE x \in S
  <2>1. ~(b - x < b - m)
    BY <1>7, <1>8
  <2> QED
    BY <2>1
<1> QED
  BY <1>8, <1>9 DEF Max

LEMMA EpochsAreFinite == IsFiniteSet(Epochs)
<1>1. 1 \in Int /\ MaxEpochs \in Int /\ IsFiniteSet(Sessions)
  BY WorkerConstants
<1>2. IsFiniteSet(1..MaxEpochs)
  BY <1>1, FS_Interval
<1> QED
  BY <1>1, <1>2, FS_Product DEF Epochs

LEMMA Ages ==
    ASSUME NEW epochs \in [Epochs -> EpochRecords], NEW e \in Epochs
    PROVE  /\ Age(epochs, epochs[e]) \in Nat
           /\ IF epochs[e].worker = "absent"
              THEN \A f \in Epochs : Age(epochs, epochs[e]) > epochs[f].created
              ELSE Age(epochs, epochs[e]) = epochs[e].created
<1> DEFINE S == {epochs[f].created : f \in Epochs}
<1>1. \A f \in Epochs : epochs[f].created \in Nat
  BY DEF EpochRecords
<1>2. S \in SUBSET Nat /\ S # {} /\ IsFiniteSet(S)
  <2> DEFINE created == [f \in Epochs |-> epochs[f].created]
  <2>1. created \in Surjection(Epochs, S)
    BY DEF Surjection
  <2>2. IsFiniteSet(S)
    BY <2>1, EpochsAreFinite, FS_Surjection
  <2> QED
    BY <1>1, <2>2
<1>3. Max(S) \in Nat /\ \A f \in Epochs : Max(S) >= epochs[f].created
  <2>1. Max(S) \in S /\ \A x \in S : Max(S) >= x
    BY <1>2, MaximumIsThere
  <2> QED
    BY <1>2, <2>1
<1>4. PICK m \in Nat : m = Max(S) /\ \A f \in Epochs : m >= epochs[f].created
  BY <1>3
<1>5. CASE epochs[e].worker = "absent"
  <2>1. Age(epochs, epochs[e]) = 1 + m
    BY <1>4, <1>5 DEF Age
  <2> QED
    BY <1>1, <1>4, <1>5, <2>1
<1>6. CASE epochs[e].worker # "absent"
  BY <1>1, <1>6 DEF Age
<1> QED
  BY <1>5, <1>6

-----------------------------------------------------------------------------
(* Records *)

RecordFields(r) ==
    /\ r.life \in Lives /\ r.failed \in BOOLEAN /\ r.completed \in BOOLEAN
    /\ r.stop \in BOOLEAN /\ r.process \in {NoProcess} \cup Spawns
    /\ r.worker \in Workers /\ r.threads \in 0..MaxWorkerThreads /\ r.created \in Nat

LEMMA Fields ==
    ASSUME NEW r \in EpochRecords
    PROVE  RecordFields(r)
BY DEF RecordFields, EpochRecords

LEMMA FreshRecords == NoEpoch \in EpochRecords /\ Discarded \in EpochRecords
<1>1. NoEpoch \in EpochRecords
  BY WorkerConstants DEF NoEpoch, EpochRecords, Lives, Workers
<1>2. Discarded \in EpochRecords
  BY <1>1 DEF Discarded, EpochRecords, Lives
<1> QED
  BY <1>1, <1>2

LEMMA DrainedRecords ==
    ASSUME NEW r \in EpochRecords
    PROVE  /\ Drained(r) \in EpochRecords
           /\ Drained(r).life = "draining"
<1>1. Drained(r) \in EpochRecords
  BY DEF Drained, EpochRecords, Lives, Workers
<1>2. Drained(r).life = "draining"
  BY DEF Drained, EpochRecords
<1> QED
  BY <1>1, <1>2

LEMMA ResumedRecords ==
    ASSUME NEW r \in EpochRecords
    PROVE  /\ Resumed(r) \in EpochRecords
           /\ Resumed(r).life = r.life /\ Resumed(r).process = r.process
           /\ r.worker \in Served => Resumed(r).worker \in Served
<1>1. Resumed(r) \in EpochRecords
  BY DEF Resumed, EpochRecords, Workers
<1>2. Resumed(r).life = r.life /\ Resumed(r).process = r.process
  BY DEF Resumed, EpochRecords
<1>3. r.worker \in Served => Resumed(r).worker \in Served
  BY DEF Resumed, EpochRecords, Served
<1> QED
  BY <1>1, <1>2, <1>3

\* The pass over the workers of a session queues no record that is served.
LEMMA EnsuredRecords ==
    ASSUME NEW s, NEW parked, NEW epochs \in [Epochs -> EpochRecords], NEW threads
    PROVE  LET after == EnsureWorkers(s, parked, epochs, threads)
           IN  /\ after \in [Epochs -> EpochRecords]
               /\ \A e \in Epochs :
                     /\ after[e].life = epochs[e].life
                     /\ after[e].process = epochs[e].process
                     /\ epochs[e].worker \in Served => after[e].worker \in Served
<1> DEFINE after == EnsureWorkers(s, parked, epochs, threads)
           one(e) == IF e[1] # s \/ parked \/ epochs[e].life # "named" THEN epochs[e]
                     ELSE IF Encoding(epochs[e], threads, e)
                     THEN [epochs[e] EXCEPT !.worker = "running"]
                     ELSE IF NeedsWorker(epochs[e])
                     THEN [epochs[e] EXCEPT !.worker = "queued", !.threads = 0,
                                !.stop = FALSE, !.created = Age(epochs, epochs[e])]
                     ELSE epochs[e]
<1>1. after = [e \in Epochs |-> one(e)]
  BY DEF EnsureWorkers
<1>2. ASSUME NEW e \in Epochs
      PROVE  /\ one(e) \in EpochRecords
             /\ one(e).life = epochs[e].life
             /\ one(e).process = epochs[e].process
             /\ epochs[e].worker \in Served => one(e).worker \in Served
  <2>1. epochs[e] \in EpochRecords
    OBVIOUS
  <2>2. PICK age \in Nat : age = Age(epochs, epochs[e])
    BY Ages
  <2>3. 0 \in 0..MaxWorkerThreads
    BY WorkerConstants
  <2> DEFINE r1 == [epochs[e] EXCEPT !.worker = "running"]
             r2 == [epochs[e] EXCEPT !.worker = "queued", !.threads = 0,
                                     !.stop = FALSE, !.created = age]
  <2>4. /\ r1 \in EpochRecords /\ r1.life = epochs[e].life
        /\ r1.process = epochs[e].process /\ r1.worker = "running"
    BY <2>1 DEF EpochRecords, Workers
  <2>5. /\ r2 \in EpochRecords /\ r2.life = epochs[e].life
        /\ r2.process = epochs[e].process
    BY <2>1, <2>3 DEF EpochRecords, Workers
  <2>6. NeedsWorker(epochs[e]) => epochs[e].worker \notin Served
    BY DEF NeedsWorker, Served
  <2>7. one(e) = epochs[e] \/ one(e) = r1 \/ (one(e) = r2 /\ NeedsWorker(epochs[e]))
    BY <2>2
  <2> HIDE DEF one, r1, r2
  <2> QED
    BY <2>1, <2>4, <2>5, <2>6, <2>7 DEF Served
<1> HIDE DEF one
<1>3. after \in [Epochs -> EpochRecords]
  BY <1>1, <1>2
<1> QED
  BY <1>1, <1>2, <1>3

ThreadRecords == [phase : Phases, budget : 0..MaxWorkerThreads, alive : BOOLEAN]

LEMMA WorkersStart == Init => WInv
<1> SUFFICES ASSUME Init PROVE WInv
    OBVIOUS
<1>1. TypeOK
  BY FreshRecords, WorkerConstants DEF Init, TypeOK, Phases
<1>2. Spawned /\ OneLive /\ Busy /\ Known
  BY DEF Init, Spawned, OneLive, Busy, Known, Live
<1> QED
  BY <1>1, <1>2 DEF WInv

\* A step that starts no thread keeps the invariant when each live thread still
\* has its epoch's worker and each registered process is still the known one.
StartsNone ==
    /\ thread' \in [Epochs \X Spawns -> ThreadRecords]
    /\ \A t \in Epochs \X Spawns :
          /\ Live(t)' => Live(t)
          /\ thread'[t].alive => thread'[t].phase \in {"spawned", "watching"}
    /\ samples' = samples

LEMMA NoThreadStarts ==
    ASSUME WInv, TypeOK', StartsNone,
           samples = 0 => Busy' /\ Known'
    PROVE  WInv'
<1>1. Spawned'
  BY DEF StartsNone, Spawned
<1>2. samples' = 0 => OneLive'
  BY DEF WInv, OneLive, StartsNone
<1> QED
  BY <1>1, <1>2 DEF WInv, StartsNone

\* _terminate_route2_epoch_locked ends processes and touches nothing else.
LEMMA EndedThreads ==
    ASSUME TypeOK, Spawned, NEW es
    PROVE  /\ Ended(es) \in [Epochs \X Spawns -> ThreadRecords]
           /\ \A t \in Epochs \X Spawns :
                 /\ Ended(es)[t].phase = thread[t].phase
                 /\ Ended(es)[t].alive => thread[t].alive
                 /\ t[1] \in es /\ epoch[t[1]].process = t[2] => ~Ended(es)[t].alive
<1>1. thread \in [Epochs \X Spawns -> ThreadRecords] /\ DOMAIN thread = Epochs \X Spawns
  BY DEF TypeOK, ThreadRecords
<1> DEFINE one(t) == IF t[1] \in es /\ epoch[t[1]].process = t[2]
                     THEN [thread[t] EXCEPT !.alive = FALSE] ELSE thread[t]
<1>2. ASSUME NEW t \in Epochs \X Spawns
      PROVE  /\ one(t) \in ThreadRecords
             /\ one(t).phase = thread[t].phase
             /\ one(t).alive => thread[t].alive
             /\ t[1] \in es /\ epoch[t[1]].process = t[2] => ~one(t).alive
  <2>1. thread[t] \in ThreadRecords
    BY <1>1
  <2> QED
    BY <2>1 DEF ThreadRecords
<1>3. Ended(es) = [t \in Epochs \X Spawns |-> one(t)]
  BY <1>1 DEF Ended
<1> HIDE DEF one
<1> QED
  BY <1>2, <1>3

-----------------------------------------------------------------------------
(* Handlers of a session *)

\* What a handler leaves before the last pass over the session's workers: each
\* live thread still has its worker, each registered process is the known one.
Prepared(mid) ==
    \A t \in Epochs \X Spawns :
       /\ Live(t)' =>
             /\ session'[t[1][1]].life # "new"
             /\ mid[t[1]].life # "none"
             /\ mid[t[1]].life = "named" => mid[t[1]].worker \in Served
       /\ thread'[t].alive /\ thread'[t].phase = "watching" =>
             /\ session'[t[1][1]].life \in {"open", "closing"}
             /\ mid[t[1]].life = "named"
             /\ mid[t[1]].process = t[2]

SessionRecords == [life : {"new", "open", "closing", "closed"}, parked : BOOLEAN]

LEMMA HandlerHolds ==
    ASSUME WInv, NEW s, NEW parked, NEW threads, NEW mid \in [Epochs -> EpochRecords],
           epoch' = EnsureWorkers(s, parked, mid, threads) \/ epoch' = mid,
           session' \in [Sessions -> SessionRecords],
           parks' \in 0..MaxParks, revivals' \in 0..MaxRevivals,
           StartsNone, samples = 0 => Prepared(mid)
    PROVE  WInv'
<1>1. /\ epoch' \in [Epochs -> EpochRecords]
      /\ \A e \in Epochs : /\ epoch'[e].life = mid[e].life
                           /\ epoch'[e].process = mid[e].process
                           /\ mid[e].worker \in Served => epoch'[e].worker \in Served
  BY EnsuredRecords
<1>2. TypeOK'
  BY <1>1 DEF WInv, TypeOK, StartsNone, SessionRecords, ThreadRecords
<1>3. ASSUME samples = 0 PROVE Busy'
  <2> SUFFICES ASSUME NEW t \in Epochs \X Spawns, Live(t)'
               PROVE  /\ session'[t[1][1]].life # "new"
                      /\ epoch'[t[1]].life # "none"
                      /\ epoch'[t[1]].life = "named" => epoch'[t[1]].worker \in Served
    BY DEF Busy
  <2>1. Live(t) /\ t[1] \in Epochs
    BY DEF StartsNone
  <2> QED
    BY <1>1, <1>3, <2>1 DEF Prepared
<1>4. ASSUME samples = 0 PROVE Known'
  <2> SUFFICES ASSUME NEW t \in Epochs \X Spawns,
                      thread'[t].alive, thread'[t].phase = "watching"
               PROVE  /\ session'[t[1][1]].life \in {"open", "closing"}
                      /\ epoch'[t[1]].life = "named"
                      /\ epoch'[t[1]].process = t[2]
    BY DEF Known
  <2>1. t[1] \in Epochs
    OBVIOUS
  <2> QED
    BY <1>1, <1>4, <2>1 DEF Prepared
<1> QED
  BY <1>2, <1>3, <1>4, NoThreadStarts

\* No thread is touched, so none starts.
LEMMA ThreadsStay ==
    ASSUME WInv, UNCHANGED <<thread, samples>>
    PROVE  StartsNone
BY DEF WInv, TypeOK, Spawned, StartsNone, Live, ThreadRecords

LEMMA OpenSessionHolds ==
    ASSUME WInv, NEW s \in Sessions, OpenSession(s)
    PROVE  WInv'
<1> DEFINE mid == [epoch EXCEPT ![<<s, 1>>].life = "named"]
<1>1. /\ session[s].life = "new"
      /\ session' = [session EXCEPT ![s].life = "open"]
      /\ epoch' = EnsureWorkers(s, FALSE, mid, thread)
      /\ UNCHANGED <<thread, parks, samples, revivals>>
  BY DEF OpenSession
<1>2. TypeOK
  BY DEF WInv
<1>3. mid \in [Epochs -> EpochRecords]
  BY <1>2 DEF TypeOK, EpochRecords, Lives
<1>4. \A e \in Epochs : e[1] # s => mid[e] = epoch[e]
  BY <1>2 DEF TypeOK
<1>5. /\ session' \in [Sessions -> SessionRecords]
      /\ \A r \in Sessions \ {s} : session'[r] = session[r]
  BY <1>1, <1>2 DEF TypeOK, SessionRecords
<1> HIDE DEF mid
<1>6. samples = 0 => Prepared(mid)
  <2> SUFFICES ASSUME samples = 0, NEW t \in Epochs \X Spawns, Live(t)
               PROVE  /\ session'[t[1][1]].life # "new"
                      /\ mid[t[1]].life # "none"
                      /\ mid[t[1]].life = "named" => mid[t[1]].worker \in Served
                      /\ thread[t].alive /\ thread[t].phase = "watching" =>
                            /\ session'[t[1][1]].life \in {"open", "closing"}
                            /\ mid[t[1]].life = "named"
                            /\ mid[t[1]].process = t[2]
    BY <1>1 DEF Prepared, Live
  <2>1. t[1] \in Epochs /\ t[1][1] \in Sessions /\ session[t[1][1]].life # "new"
    BY DEF WInv, Busy, Epochs
  <2>2. t[1][1] # s
    BY <1>1, <2>1
  <2> QED
    BY <1>4, <1>5, <2>1, <2>2 DEF WInv, Busy, Known
<1> QED
  BY <1>1, <1>2, <1>3, <1>5, <1>6, HandlerHolds, ThreadsStay DEF TypeOK

LEMMA CreateReplacementHolds ==
    ASSUME WInv, NEW s \in Sessions, CreateReplacement(s)
    PROVE  WInv'
<1>1. PICK n \in 2..MaxEpochs :
          /\ epoch[<<s, n>>].life = "none"
          /\ epoch' = Ensured(s, [epoch EXCEPT ![<<s, n>>].life = "named"])
  BY DEF CreateReplacement
<1> DEFINE new == <<s, n>>
           mid == [epoch EXCEPT ![new].life = "named"]
<1>2. /\ TypeOK /\ new \in Epochs
      /\ epoch' = EnsureWorkers(s, session[s].parked, mid, thread)
      /\ UNCHANGED <<session, thread, parks, samples, revivals>>
  BY <1>1, WorkerConstants DEF WInv, Ensured, CreateReplacement, Epochs
<1>3. mid \in [Epochs -> EpochRecords]
  BY <1>2 DEF TypeOK, EpochRecords, Lives
<1>4. \A e \in Epochs \ {new} : mid[e] = epoch[e]
  BY <1>2 DEF TypeOK
<1> HIDE DEF mid, new
<1>5. samples = 0 => Prepared(mid)
  <2> SUFFICES ASSUME samples = 0, NEW t \in Epochs \X Spawns, Live(t)
               PROVE  /\ session'[t[1][1]].life # "new"
                      /\ mid[t[1]].life # "none"
                      /\ mid[t[1]].life = "named" => mid[t[1]].worker \in Served
                      /\ thread[t].alive /\ thread[t].phase = "watching" =>
                            /\ session'[t[1][1]].life \in {"open", "closing"}
                            /\ mid[t[1]].life = "named"
                            /\ mid[t[1]].process = t[2]
    BY <1>2 DEF Prepared, Live
  <2>1. t[1] \in Epochs /\ t[1] # new
    BY <1>1 DEF WInv, Busy, new
  <2> QED
    BY <1>2, <1>4, <2>1 DEF WInv, Busy, Known
<1> QED
  BY <1>2, <1>3, <1>5, HandlerHolds, ThreadsStay DEF WInv, TypeOK, SessionRecords

\* Ending the processes of epochs starts no thread.
LEMMA EndingStartsNone ==
    ASSUME WInv, NEW es, thread' = Ended(es), samples' = samples
    PROVE  StartsNone
<1>1. /\ thread' \in [Epochs \X Spawns -> ThreadRecords]
      /\ \A t \in Epochs \X Spawns :
            /\ thread'[t].phase = thread[t].phase
            /\ thread'[t].alive => thread[t].alive
  BY EndedThreads DEF WInv
<1> QED
  BY <1>1 DEF WInv, Spawned, StartsNone, Live

\* An epoch that is given up: its process ends, its record is one that no
\* session names.
GivenUp(e, mid) ==
    /\ mid \in [Epochs -> EpochRecords]
    /\ \A f \in Epochs \ {e} : mid[f] = epoch[f]
    /\ e \in Epochs => mid[e].life \in {"draining", "gone"}

LEMMA GivingUpHolds ==
    ASSUME WInv, NEW s \in Sessions, NEW e, NEW mid, GivenUp(e, mid),
           thread' = Ended({e}),
           epoch' = EnsureWorkers(s, session[s].parked, mid, Ended({e})) \/ epoch' = mid,
           UNCHANGED <<session, parks, samples, revivals>>
    PROVE  WInv'
<1>1. TypeOK
  BY DEF WInv
<1>2. samples = 0 => Prepared(mid)
  <2> SUFFICES ASSUME samples = 0, NEW t \in Epochs \X Spawns
               PROVE  /\ Live(t)' =>
                            /\ session'[t[1][1]].life # "new"
                            /\ mid[t[1]].life # "none"
                            /\ mid[t[1]].life = "named" => mid[t[1]].worker \in Served
                      /\ thread'[t].alive /\ thread'[t].phase = "watching" =>
                            /\ session'[t[1][1]].life \in {"open", "closing"}
                            /\ mid[t[1]].life = "named"
                            /\ mid[t[1]].process = t[2]
    BY DEF Prepared
  <2>1. t[1] \in Epochs
    OBVIOUS
  <2>2. /\ thread'[t].phase = thread[t].phase
        /\ thread'[t].alive => thread[t].alive
        /\ t[1] = e /\ epoch[t[1]].process = t[2] => ~thread'[t].alive
    BY <1>1, EndedThreads DEF WInv
  <2>3. CASE t[1] = e
    BY <2>1, <2>2, <2>3 DEF WInv, Busy, Known, Live, GivenUp
  <2>4. CASE t[1] # e
    BY <2>1, <2>2, <2>4 DEF WInv, Busy, Known, Live, GivenUp
  <2> QED
    BY <2>3, <2>4
<1>3. StartsNone
  BY EndingStartsNone
<1>4. session' \in [Sessions -> SessionRecords] /\ parks' \in 0..MaxParks
      /\ revivals' \in 0..MaxRevivals
  BY <1>1 DEF TypeOK, SessionRecords
<1> QED
  BY <1>2, <1>3, <1>4, HandlerHolds DEF GivenUp

LEMMA PromoteHolds ==
    ASSUME WInv, NEW s \in Sessions, Promote(s)
    PROVE  WInv'
<1> DEFINE e == Oldest(Named(s))
           mid == [epoch EXCEPT ![e] = Drained(epoch[e])]
<1>1. /\ thread' = Ended({e})
      /\ epoch' = EnsureWorkers(s, session[s].parked, mid, Ended({e})) \/ epoch' = mid
      /\ UNCHANGED <<session, parks, samples, revivals>>
  BY DEF Promote
<1> HIDE DEF e
<1>2. GivenUp(e, mid)
  <2>1. epoch \in [Epochs -> EpochRecords]
    BY DEF WInv, TypeOK
  <2>2. CASE e \in Epochs
    <3>1. Drained(epoch[e]) \in EpochRecords /\ Drained(epoch[e]).life = "draining"
      BY <2>1, <2>2, DrainedRecords
    <3> QED
      BY <2>1, <2>2, <3>1 DEF GivenUp
  <2>3. CASE e \notin Epochs
    BY <2>1, <2>3 DEF GivenUp
  <2> QED
    BY <2>2, <2>3
<1> HIDE DEF mid
<1> QED
  BY <1>1, <1>2, GivingUpHolds

LEMMA DiscardHolds ==
    ASSUME WInv, NEW s \in Sessions, Discard(s)
    PROVE  WInv'
<1>1. PICK e \in Of(s) :
          /\ thread' = Ended({e})
          /\ epoch' = EnsureWorkers(s, session[s].parked,
                                    [epoch EXCEPT ![e] = Discarded], Ended({e}))
  BY DEF Discard
<1> DEFINE mid == [epoch EXCEPT ![e] = Discarded]
<1>2. e \in Epochs
  BY DEF Of
<1>3. GivenUp(e, mid)
  <2>1. Discarded.life = "gone"
    BY DEF Discarded, NoEpoch
  <2> QED
    BY <1>2, <2>1, FreshRecords DEF WInv, TypeOK, GivenUp
<1>4. UNCHANGED <<session, parks, samples, revivals>>
  BY DEF Discard
<1> HIDE DEF mid
<1> QED
  BY <1>1, <1>3, <1>4, GivingUpHolds DEF mid

\* Handlers that change neither a thread nor the life or the process of an epoch.
LEMMA QuietHandlerHolds ==
    ASSUME WInv, NEW s \in Sessions, NEW parked, NEW mid \in [Epochs -> EpochRecords],
           \A e \in Epochs : /\ mid[e].life = epoch[e].life
                             /\ mid[e].process = epoch[e].process
                             /\ epoch[e].worker \in Served => mid[e].worker \in Served,
           epoch' = EnsureWorkers(s, parked, mid, thread) \/ epoch' = mid,
           session' \in [Sessions -> SessionRecords],
           \A r \in Sessions : /\ session[r].life # "new" => session'[r].life # "new"
                               /\ session[r].life \in {"open", "closing"} =>
                                     session'[r].life \in {"open", "closing"},
           parks' \in 0..MaxParks, revivals' \in 0..MaxRevivals,
           UNCHANGED <<thread, samples>>
    PROVE  WInv'
<1>1. samples = 0 => Prepared(mid)
  <2> SUFFICES ASSUME samples = 0, NEW t \in Epochs \X Spawns, Live(t)
               PROVE  /\ session'[t[1][1]].life # "new"
                      /\ mid[t[1]].life # "none"
                      /\ mid[t[1]].life = "named" => mid[t[1]].worker \in Served
                      /\ thread[t].alive /\ thread[t].phase = "watching" =>
                            /\ session'[t[1][1]].life \in {"open", "closing"}
                            /\ mid[t[1]].life = "named"
                            /\ mid[t[1]].process = t[2]
    BY DEF Prepared, Live
  <2>1. t[1] \in Epochs /\ t[1][1] \in Sessions
    BY DEF Epochs
  <2> QED
    BY <2>1 DEF WInv, Busy, Known
<1>2. StartsNone
  BY ONLY WInv, UNCHANGED <<thread, samples>>, ThreadsStay
<1>3. CASE epoch' = EnsureWorkers(s, parked, mid, thread)
  BY <1>1, <1>2, <1>3, HandlerHolds
<1>4. CASE epoch' = mid
  BY <1>1, <1>2, <1>4, HandlerHolds
<1> QED
  BY <1>3, <1>4

LEMMA PollHolds ==
    ASSUME WInv, NEW s \in Sessions, Poll(s)
    PROVE  WInv'
<1>1. /\ epoch' = EnsureWorkers(s, session[s].parked, epoch, thread)
      /\ UNCHANGED <<session, thread, parks, samples, revivals>>
      /\ TypeOK
  BY DEF Poll, Ensured, WInv
<1>2. epoch \in [Epochs -> EpochRecords] /\ session' \in [Sessions -> SessionRecords]
      /\ parks' \in 0..MaxParks /\ revivals' \in 0..MaxRevivals
  BY <1>1 DEF TypeOK, SessionRecords
<1> QED
  BY <1>1, <1>2, QuietHandlerHolds

LEMMA ReviveHolds ==
    ASSUME WInv, NEW s \in Sessions, Revive(s)
    PROVE  WInv'
<1> DEFINE e == Oldest(Named(s))
           mid == [epoch EXCEPT ![e].failed = FALSE]
<1>1. /\ epoch' = EnsureWorkers(s, session[s].parked, mid, thread)
      /\ revivals < MaxRevivals /\ revivals' = revivals + 1
      /\ UNCHANGED <<session, thread, parks, samples>>
      /\ TypeOK
  BY DEF Revive, Ensured, WInv
<1> HIDE DEF e
<1>2. epoch \in [Epochs -> EpochRecords]
  BY <1>1 DEF TypeOK
<1>3. /\ mid \in [Epochs -> EpochRecords]
      /\ \A f \in Epochs : /\ mid[f].life = epoch[f].life
                           /\ mid[f].process = epoch[f].process
                           /\ mid[f].worker = epoch[f].worker
  <2>1. CASE e \in Epochs
    BY <1>2, <2>1 DEF EpochRecords
  <2>2. CASE e \notin Epochs
    BY <1>2, <2>2
  <2> QED
    BY <2>1, <2>2
<1> HIDE DEF mid
<1>4. session' \in [Sessions -> SessionRecords] /\ session' = session
      /\ parks' \in 0..MaxParks /\ revivals' \in 0..MaxRevivals
  BY <1>1, WorkerConstants DEF TypeOK, SessionRecords
<1> QED
  BY <1>1, <1>3, <1>4, QuietHandlerHolds

LEMMA LeaveHolds ==
    ASSUME WInv, NEW s \in Sessions, Leave(s)
    PROVE  WInv'
<1>1. /\ session[s].life = "open"
      /\ session' = [session EXCEPT ![s].life = "closing"]
      /\ UNCHANGED <<epoch, thread, parks, samples, revivals>>
      /\ TypeOK
  BY DEF Leave, WInv
<1>2. /\ session' \in [Sessions -> SessionRecords]
      /\ \A r \in Sessions : /\ session[r].life # "new" => session'[r].life # "new"
                             /\ session[r].life \in {"open", "closing"} =>
                                   session'[r].life \in {"open", "closing"}
  BY <1>1 DEF TypeOK, SessionRecords
<1>3. epoch \in [Epochs -> EpochRecords] /\ epoch' = epoch
      /\ parks' \in 0..MaxParks /\ revivals' \in 0..MaxRevivals
  BY <1>1 DEF TypeOK
<1> QED
  BY <1>1, <1>2, <1>3, QuietHandlerHolds

LEMMA TerminateHolds ==
    ASSUME WInv, NEW s \in Sessions, Terminate(s)
    PROVE  WInv'
<1> DEFINE mid == [e \in Epochs |-> IF e \in Named(s) THEN Discarded ELSE epoch[e]]
<1>1. /\ session' = [session EXCEPT ![s].life = "closed"]
      /\ epoch' = mid
      /\ thread' = Ended(Of(s))
      /\ UNCHANGED <<parks, samples, revivals>>
      /\ TypeOK /\ Spawned
  BY DEF Terminate, WInv
<1>2. /\ mid \in [Epochs -> EpochRecords]
      /\ \A e \in Epochs : mid[e] = epoch[e] \/ mid[e].life = "gone"
      /\ \A e \in Epochs : e[1] # s => mid[e] = epoch[e]
      /\ \A e \in Epochs : mid[e].life # "named" \/ mid[e] = epoch[e]
  <2>1. Discarded.life = "gone" /\ Discarded \in EpochRecords
    BY FreshRecords DEF Discarded, NoEpoch
  <2>2. \A e \in Named(s) : e[1] = s
    BY DEF Named, Of
  <2> QED
    BY <1>1, <2>1, <2>2 DEF TypeOK
<1>3. /\ session' \in [Sessions -> SessionRecords]
      /\ session'[s].life = "closed"
      /\ \A r \in Sessions \ {s} : session'[r] = session[r]
  BY <1>1 DEF TypeOK, SessionRecords
<1> HIDE DEF mid
<1>4. samples = 0 => Prepared(mid)
  <2> SUFFICES ASSUME samples = 0, NEW t \in Epochs \X Spawns
               PROVE  /\ Live(t)' =>
                            /\ session'[t[1][1]].life # "new"
                            /\ mid[t[1]].life # "none"
                            /\ mid[t[1]].life = "named" => mid[t[1]].worker \in Served
                      /\ thread'[t].alive /\ thread'[t].phase = "watching" =>
                            /\ session'[t[1][1]].life \in {"open", "closing"}
                            /\ mid[t[1]].life = "named"
                            /\ mid[t[1]].process = t[2]
    BY DEF Prepared
  <2>1. t[1] \in Epochs /\ t[1][1] \in Sessions
    BY DEF Epochs
  <2>2. /\ thread'[t].phase = thread[t].phase
        /\ thread'[t].alive => thread[t].alive
        /\ t[1] \in Of(s) /\ epoch[t[1]].process = t[2] => ~thread'[t].alive
    BY <1>1, EndedThreads
  <2>3. CASE t[1][1] = s
    <3>1. t[1] \in Of(s)
      BY <2>1, <2>3 DEF Of
    <3> QED
      BY <1>2, <1>3, <2>1, <2>2, <2>3, <3>1 DEF WInv, Busy, Known, Live
  <2>4. CASE t[1][1] # s
    BY <1>2, <1>3, <2>1, <2>2, <2>4 DEF WInv, Busy, Known, Live
  <2> QED
    BY <2>3, <2>4
<1>5. StartsNone
  BY <1>1, EndingStartsNone
<1>6. parks' \in 0..MaxParks /\ revivals' \in 0..MaxRevivals
  BY <1>1 DEF TypeOK
<1> QED
  BY <1>1, <1>2, <1>3, <1>4, <1>5, <1>6, HandlerHolds

LEMMA ParkHolds ==
    ASSUME WInv, NEW s \in Sessions, Park(s)
    PROVE  WInv'
<1> DEFINE parkedRecord(r) ==
               [r EXCEPT !.stop = TRUE,
                         !.worker = CASE @ = "queued" -> "paused"
                                      [] @ = "running" -> "stopping"
                                      [] OTHER -> @]
           mid == [e \in Epochs |-> IF e[1] # s \/ epoch[e].worker = "absent"
                                    THEN epoch[e] ELSE parkedRecord(epoch[e])]
<1>1. /\ session' = [session EXCEPT ![s].parked = TRUE]
      /\ epoch' = mid
      /\ parks < MaxParks /\ parks' = parks + 1
      /\ UNCHANGED <<thread, samples, revivals>>
      /\ TypeOK
  BY DEF Park, WInv
<1>2. ASSUME NEW r \in EpochRecords
      PROVE  /\ parkedRecord(r) \in EpochRecords
             /\ parkedRecord(r).life = r.life /\ parkedRecord(r).process = r.process
             /\ r.worker \in Served => parkedRecord(r).worker \in Served
  <2>1. parkedRecord(r) \in EpochRecords
    BY DEF EpochRecords, Workers
  <2>2. parkedRecord(r).life = r.life /\ parkedRecord(r).process = r.process
    BY DEF EpochRecords
  <2>3. r.worker \in Served => parkedRecord(r).worker \in Served
    BY DEF EpochRecords, Served
  <2> QED
    BY <2>1, <2>2, <2>3
<1> HIDE DEF parkedRecord
<1>3. /\ mid \in [Epochs -> EpochRecords]
      /\ \A e \in Epochs : /\ mid[e].life = epoch[e].life
                           /\ mid[e].process = epoch[e].process
                           /\ epoch[e].worker \in Served => mid[e].worker \in Served
  <2>1. \A e \in Epochs : epoch[e] \in EpochRecords
    BY <1>1 DEF TypeOK
  <2> QED
    BY <1>2, <2>1
<1> HIDE DEF mid
<1>4. /\ session' \in [Sessions -> SessionRecords]
      /\ \A r \in Sessions : session'[r].life = session[r].life
  BY <1>1 DEF TypeOK, SessionRecords
<1>5. parks' \in 0..MaxParks /\ revivals' \in 0..MaxRevivals
  BY <1>1, WorkerConstants DEF TypeOK
<1> QED
  BY <1>1, <1>3, <1>4, <1>5, QuietHandlerHolds

LEMMA ClientParksHolds ==
    ASSUME WInv, NEW s \in Sessions, ClientParks(s)
    PROVE  WInv'
<1>1. /\ session' = [session EXCEPT ![s].parked = TRUE]
      /\ parks < MaxParks /\ parks' = parks + 1
      /\ UNCHANGED <<epoch, thread, samples, revivals>>
      /\ TypeOK
  BY DEF ClientParks, WInv
<1>2. /\ session' \in [Sessions -> SessionRecords]
      /\ \A r \in Sessions : session'[r].life = session[r].life
  BY <1>1 DEF TypeOK, SessionRecords
<1>3. /\ parks' \in 0..MaxParks /\ revivals' \in 0..MaxRevivals
      /\ epoch \in [Epochs -> EpochRecords] /\ epoch' = epoch
  BY <1>1, WorkerConstants DEF TypeOK
<1> QED
  BY <1>1, <1>2, <1>3, QuietHandlerHolds

LEMMA ResumeHolds ==
    ASSUME WInv, NEW s \in Sessions, Resume(s)
    PROVE  WInv'
<1> DEFINE mid == [e \in Epochs |-> IF e[1] = s /\ epoch[e].worker # "absent"
                                    THEN Resumed(epoch[e]) ELSE epoch[e]]
<1>1. /\ session' = [session EXCEPT ![s].parked = FALSE]
      /\ epoch' = EnsureWorkers(s, FALSE, mid, thread)
      /\ UNCHANGED <<thread, parks, samples, revivals>>
      /\ TypeOK
  BY DEF Resume, WInv
<1>2. /\ mid \in [Epochs -> EpochRecords]
      /\ \A e \in Epochs : /\ mid[e].life = epoch[e].life
                           /\ mid[e].process = epoch[e].process
                           /\ epoch[e].worker \in Served => mid[e].worker \in Served
  <2>1. \A e \in Epochs : epoch[e] \in EpochRecords
    BY <1>1 DEF TypeOK
  <2> QED
    BY <2>1, ResumedRecords
<1> HIDE DEF mid
<1>3. /\ session' \in [Sessions -> SessionRecords]
      /\ \A r \in Sessions : session'[r].life = session[r].life
  BY <1>1 DEF TypeOK, SessionRecords
<1>4. parks' \in 0..MaxParks /\ revivals' \in 0..MaxRevivals
  BY <1>1 DEF TypeOK
<1> QED
  BY <1>1, <1>2, <1>3, <1>4, QuietHandlerHolds

-----------------------------------------------------------------------------
(* The dispatch pass *)

LEMMA DispatchHolds ==
    ASSUME WInv, Dispatch
    PROVE  WInv'
<1> DEFINE ready == {e \in Waiting : ~session[e[1]].parked}
<1>1. PICK g \in [ready -> 0..MaxWorkerThreads], k \in [ready -> Spawns] :
          /\ \A e \in ready : g[e] > 0 => thread[<<e, k[e]>>].phase = "unused"
          /\ epoch' = [e \in Epochs |->
                          IF e \in ready /\ g[e] > 0
                          THEN [epoch[e] EXCEPT !.worker = "running", !.threads = g[e]]
                          ELSE epoch[e]]
          /\ thread' = [t \in DOMAIN thread |->
                          IF t[1] \in ready /\ g[t[1]] > 0 /\ k[t[1]] = t[2]
                          THEN [thread[t] EXCEPT !.phase = "begun"]
                          ELSE thread[t]]
  BY DEF Dispatch
<1>2. /\ TypeOK /\ Spawned /\ UNCHANGED <<session, parks, samples, revivals>>
      /\ thread \in [Epochs \X Spawns -> ThreadRecords] /\ DOMAIN thread = Epochs \X Spawns
      /\ epoch \in [Epochs -> EpochRecords]
  BY DEF Dispatch, WInv, TypeOK, ThreadRecords
<1>3. \A e \in ready : /\ e \in Epochs /\ epoch[e].worker = "queued"
                       /\ session[e[1]].life = "open" /\ epoch[e].life = "named"
  BY DEF Waiting, Open
<1> DEFINE Granted(e) == e \in ready /\ g[e] > 0
           Started(t) == Granted(t[1]) /\ k[t[1]] = t[2]
<1> HIDE DEF ready
<1>4. ASSUME NEW e \in Epochs
      PROVE  /\ epoch'[e] \in EpochRecords
             /\ epoch'[e].life = epoch[e].life /\ epoch'[e].process = epoch[e].process
             /\ IF Granted(e) THEN epoch'[e].worker = "running"
                              ELSE epoch'[e].worker = epoch[e].worker
  <2>1. epoch[e] \in EpochRecords
    BY <1>2
  <2>2. CASE Granted(e)
    <3>1. epoch'[e] = [epoch[e] EXCEPT !.worker = "running", !.threads = g[e]]
      BY <1>1, <2>2
    <3>2. g[e] \in 0..MaxWorkerThreads
      BY <1>1, <2>2
    <3> QED
      BY <2>1, <2>2, <3>1, <3>2 DEF EpochRecords, Workers
  <2>3. CASE ~Granted(e)
    BY <1>1, <2>1, <2>3
  <2> QED
    BY <2>2, <2>3
<1>5. ASSUME NEW t \in Epochs \X Spawns
      PROVE  /\ thread'[t] \in ThreadRecords
             /\ thread'[t].alive = thread[t].alive
             /\ IF Started(t) THEN /\ thread[t].phase = "unused"
                                   /\ thread'[t].phase = "begun"
                              ELSE thread'[t].phase = thread[t].phase
  <2>1. thread[t] \in ThreadRecords /\ t = <<t[1], t[2]>>
    BY <1>2
  <2>2. CASE Started(t)
    <3>1. thread'[t] = [thread[t] EXCEPT !.phase = "begun"]
      BY <1>1, <1>2, <2>2
    <3>2. thread[t].phase = "unused"
      BY <1>1, <2>1, <2>2
    <3> QED
      BY <2>1, <2>2, <3>1, <3>2 DEF ThreadRecords, Phases
  <2>3. CASE ~Started(t)
    BY <1>1, <1>2, <2>1, <2>3
  <2> QED
    BY <2>2, <2>3
<1>6. TypeOK'
  <2>1. epoch' \in [Epochs -> EpochRecords]
    BY <1>1, <1>4
  <2>2. thread' \in [Epochs \X Spawns -> ThreadRecords]
    BY <1>1, <1>2, <1>5
  <2> QED
    BY <1>2, <2>1, <2>2 DEF TypeOK, ThreadRecords
<1>7. Spawned'
  BY <1>2, <1>5 DEF Spawned
<1>8. ASSUME samples = 0, NEW t \in Epochs \X Spawns, Granted(t[1]) PROVE ~Live(t)
  BY <1>3, <1>8 DEF WInv, Busy, Served
<1>9. \A t \in Epochs \X Spawns : Live(t)' => Live(t) \/ Started(t)
  BY <1>5 DEF Live
<1>10. ASSUME samples = 0 PROVE OneLive'
  <2> SUFFICES ASSUME NEW t \in Epochs \X Spawns, NEW u \in Epochs \X Spawns,
                      t[1] = u[1], Live(t)', Live(u)'
               PROVE  t = u
    BY DEF OneLive
  <2>1. t = <<t[1], t[2]>> /\ u = <<u[1], u[2]>>
    OBVIOUS
  <2>2. CASE Granted(t[1])
    <3>1. Started(t) /\ Started(u)
      BY <1>8, <1>9, <1>10, <2>2
    <3> QED
      BY <2>1, <3>1
  <2>3. CASE ~Granted(t[1])
    <3>1. Live(t) /\ Live(u)
      BY <1>9, <2>3
    <3> QED
      BY <1>10, <3>1 DEF WInv, OneLive
  <2> QED
    BY <2>2, <2>3
<1>11. ASSUME samples = 0 PROVE Busy'
  <2> SUFFICES ASSUME NEW t \in Epochs \X Spawns, Live(t)'
               PROVE  /\ session[t[1][1]].life # "new"
                      /\ epoch'[t[1]].life # "none"
                      /\ epoch'[t[1]].life = "named" => epoch'[t[1]].worker \in Served
    BY <1>2 DEF Busy
  <2>1. t[1] \in Epochs
    OBVIOUS
  <2>2. CASE Started(t)
    BY <1>3, <1>4, <2>1, <2>2 DEF Served
  <2>3. CASE Live(t)
    BY <1>4, <1>11, <2>1, <2>3 DEF WInv, Busy, Served
  <2> QED
    BY <1>9, <2>2, <2>3
<1>12. ASSUME samples = 0 PROVE Known'
  <2> SUFFICES ASSUME NEW t \in Epochs \X Spawns,
                      thread'[t].alive, thread'[t].phase = "watching"
               PROVE  /\ session[t[1][1]].life \in {"open", "closing"}
                      /\ epoch'[t[1]].life = "named"
                      /\ epoch'[t[1]].process = t[2]
    BY <1>2 DEF Known
  <2>1. t[1] \in Epochs /\ thread[t].alive /\ thread[t].phase = "watching"
    BY <1>5
  <2> QED
    BY <1>4, <1>12, <2>1 DEF WInv, Known
<1> QED
  BY <1>2, <1>6, <1>7, <1>10, <1>11, <1>12 DEF WInv

-----------------------------------------------------------------------------
(* The worker threads *)

\* A thread ends and leaves its mark on its own epoch only; no other thread is
\* live there.
LEMMA ThreadEnds ==
    ASSUME WInv, NEW t \in Epochs \X Spawns, Live(t),
           thread' = [thread EXCEPT ![t] = Done],
           NEW mid \in [Epochs -> EpochRecords],
           \A e \in Epochs \ {t[1]} : mid[e] = epoch[e],
           NEW s, NEW parked, NEW threads,
           epoch' = EnsureWorkers(s, parked, mid, threads) \/ epoch' = mid,
           UNCHANGED <<session, parks, samples, revivals>>
    PROVE  WInv'
<1>1. TypeOK /\ thread \in [Epochs \X Spawns -> ThreadRecords]
  BY DEF WInv, TypeOK, ThreadRecords
<1>2. Done \in ThreadRecords /\ Done.phase = "done" /\ ~Done.alive
  BY WorkerConstants DEF Done, ThreadRecords, Phases
<1>3. /\ thread' \in [Epochs \X Spawns -> ThreadRecords]
      /\ thread'[t] = Done
      /\ \A u \in (Epochs \X Spawns) \ {t} : thread'[u] = thread[u]
  BY <1>1, <1>2
<1>4. StartsNone
  BY <1>2, <1>3 DEF WInv, Spawned, StartsNone, Live
<1>5. samples = 0 => Prepared(mid)
  <2> SUFFICES ASSUME samples = 0 PROVE Busy /\ Known /\ OneLive => Prepared(mid)
    BY DEF WInv
  <2> SUFFICES ASSUME Busy, Known, OneLive PROVE Prepared(mid)
    OBVIOUS
  <2>1. ASSUME NEW u \in Epochs \X Spawns, Live(u), u # t
        PROVE  u[1] \in Epochs \ {t[1]}
    BY <2>1 DEF OneLive
  <2>2. ASSUME NEW u \in Epochs \X Spawns, u # t
        PROVE  /\ Live(u)' =>
                     /\ session'[u[1][1]].life # "new"
                     /\ mid[u[1]].life # "none"
                     /\ mid[u[1]].life = "named" => mid[u[1]].worker \in Served
               /\ thread'[u].alive /\ thread'[u].phase = "watching" =>
                     /\ session'[u[1][1]].life \in {"open", "closing"}
                     /\ mid[u[1]].life = "named"
                     /\ mid[u[1]].process = u[2]
    <3>1. Live(u) => mid[u[1]] = epoch[u[1]]
      BY <2>1, <2>2
    <3>2. thread'[u] = thread[u]
      BY <1>3, <2>2
    <3> QED
      BY <3>1, <3>2 DEF Busy, Known, Live
  <2> QED
    BY <1>2, <1>3, <2>2 DEF Prepared, Live
<1> QED
  BY <1>1, <1>4, <1>5, HandlerHolds DEF TypeOK, SessionRecords

LEMMA GiveUpHolds ==
    ASSUME WInv, NEW t \in Epochs \X Spawns, Live(t), GiveUp(t),
           UNCHANGED <<session, parks, samples, revivals>>
    PROVE  WInv'
<1> DEFINE mid == [epoch EXCEPT ![t[1]].worker = "absent"]
<1>1. /\ thread' = [thread EXCEPT ![t] = Done] /\ epoch' = mid
      /\ epoch \in [Epochs -> EpochRecords] /\ t[1] \in Epochs
  BY DEF GiveUp, WInv, TypeOK
<1>2. mid \in [Epochs -> EpochRecords] /\ \A e \in Epochs \ {t[1]} : mid[e] = epoch[e]
  BY <1>1 DEF EpochRecords, Workers
<1> HIDE DEF mid
<1> QED
  BY <1>1, <1>2, ThreadEnds

LEMMA FailHolds ==
    ASSUME WInv, NEW t \in Epochs \X Spawns, Live(t),
           NEW process \in {NoProcess} \cup Spawns, Fail(t, process),
           UNCHANGED <<session, parks, samples, revivals>>
    PROVE  WInv'
<1> DEFINE e == t[1]
           over == IF epoch[e].life = "named" THEN "over" ELSE epoch[e].worker
           mid == [epoch EXCEPT ![e].failed = TRUE, ![e].worker = over,
                                ![e].process = process]
<1>1. /\ thread' = [thread EXCEPT ![t] = Done]
      /\ epoch' = EnsureWorkers(e[1], session[e[1]].parked, mid,
                                [thread EXCEPT ![t] = Done])
      /\ epoch \in [Epochs -> EpochRecords] /\ e \in Epochs
  BY DEF Fail, WInv, TypeOK
<1>2. over \in Workers
  BY <1>1 DEF Workers, EpochRecords
<1> HIDE DEF over, e
<1>3. mid \in [Epochs -> EpochRecords] /\ \A f \in Epochs \ {e} : mid[f] = epoch[f]
  <2> DEFINE record == [epoch[e] EXCEPT !.failed = TRUE, !.worker = over,
                                        !.process = process]
  <2>1. record \in EpochRecords
    BY <1>1, <1>2 DEF EpochRecords
  <2>2. mid = [epoch EXCEPT ![e] = record]
    BY <1>1
  <2> HIDE DEF record, mid
  <2> QED
    BY <1>1, <2>1, <2>2
<1> HIDE DEF mid
<1>4. PICK s, parked, threads : epoch' = EnsureWorkers(s, parked, mid, threads)
  BY <1>1
<1>5. thread' = [thread EXCEPT ![t] = Done] /\ \A f \in Epochs \ {t[1]} : mid[f] = epoch[f]
  BY <1>1, <1>3 DEF e
<1> QED
  BY <1>3, <1>4, <1>5, ThreadEnds

\* A thread goes on from one section to the next.
LEMMA ThreadGoesOn ==
    ASSUME WInv, NEW t \in Epochs \X Spawns, Live(t),
           NEW r \in ThreadRecords, thread' = [thread EXCEPT ![t] = r],
           r.phase \in {"spawning", "spawned", "watching"},
           r.alive => r.phase \in {"spawned", "watching"},
           r.alive /\ r.phase = "watching" =>
              thread[t].alive /\ thread[t].phase = "watching",
           UNCHANGED <<session, epoch, parks, samples, revivals>>
    PROVE  WInv'
<1>1. thread \in [Epochs \X Spawns -> ThreadRecords]
  BY DEF WInv, TypeOK, ThreadRecords
<1>2. /\ thread' \in [Epochs \X Spawns -> ThreadRecords]
      /\ thread'[t] = r
      /\ \A u \in (Epochs \X Spawns) \ {t} : thread'[u] = thread[u]
  BY <1>1
<1>3. TypeOK'
  BY <1>2 DEF WInv, TypeOK, ThreadRecords
<1>4. StartsNone
  BY <1>2 DEF WInv, Spawned, StartsNone, Live
<1>5. samples = 0 => Busy'
  BY <1>2 DEF WInv, Busy, Live
<1>6. samples = 0 => Known'
  BY <1>2 DEF WInv, Known
<1> QED
  BY <1>3, <1>4, <1>5, <1>6, NoThreadStarts

LEMMA BeginHolds ==
    ASSUME WInv, NEW t \in Epochs \X Spawns, Begin(t)
    PROVE  WInv'
<1>1. /\ Live(t) /\ UNCHANGED <<session, parks, samples, revivals>> /\ TypeOK
      /\ thread[t] \in ThreadRecords /\ epoch[t[1]] \in EpochRecords
      /\ thread[t].phase = "begun"
  BY DEF Begin, Live, WInv, TypeOK, ThreadRecords
<1>2. CASE GiveUp(t)
  BY <1>1, <1>2, GiveUpHolds
<1>3. CASE Fail(t, epoch[t[1]].process)
  <2>1. epoch[t[1]].process \in {NoProcess} \cup Spawns
    BY <1>1 DEF EpochRecords
  <2> QED
    BY <1>1, <1>3, <2>1, FailHolds
<1>4. CASE /\ thread' = [thread EXCEPT
                 ![t].phase = "spawning",
                 ![t].budget = Larger(MinWorkerThreads, epoch[t[1]].threads)]
           /\ UNCHANGED epoch
  <2> DEFINE budget == Larger(MinWorkerThreads, epoch[t[1]].threads)
             r == [thread[t] EXCEPT !.phase = "spawning", !.budget = budget]
  <2>1. budget \in 0..MaxWorkerThreads
    BY <1>1, WorkerConstants DEF Larger, EpochRecords
  <2>2. thread' = [thread EXCEPT ![t] = r]
    BY <1>1, <1>4 DEF TypeOK
  <2> HIDE DEF budget
  <2>3. ~thread[t].alive
    BY <1>1 DEF WInv, Spawned
  <2>4. r \in ThreadRecords /\ r.phase = "spawning" /\ ~r.alive
    BY <1>1, <2>1, <2>3 DEF ThreadRecords, Phases
  <2> HIDE DEF r
  <2> QED
    BY <1>1, <1>4, <2>2, <2>4, ThreadGoesOn
<1> QED
  BY <1>2, <1>3, <1>4 DEF Begin

LEMMA SpawnHolds ==
    ASSUME WInv, NEW t \in Epochs \X Spawns, Spawn(t)
    PROVE  WInv'
<1> DEFINE r == [thread[t] EXCEPT !.phase = "spawned", !.alive = TRUE]
<1>1. /\ Live(t) /\ UNCHANGED <<session, epoch, parks, samples, revivals>>
      /\ thread \in [Epochs \X Spawns -> ThreadRecords]
      /\ thread' = [thread EXCEPT ![t].phase = "spawned", ![t].alive = TRUE]
  BY DEF Spawn, Live, WInv, TypeOK, ThreadRecords
<1>2. thread' = [thread EXCEPT ![t] = r]
  BY <1>1
<1>3. r \in ThreadRecords /\ r.phase = "spawned"
  BY <1>1 DEF ThreadRecords, Phases
<1> HIDE DEF r
<1> QED
  BY <1>1, <1>2, <1>3, ThreadGoesOn

LEMMA SpawnFailsHolds ==
    ASSUME WInv, NEW t \in Epochs \X Spawns, SpawnFails(t)
    PROVE  WInv'
<1>1. /\ Live(t) /\ UNCHANGED <<session, parks, samples, revivals>>
      /\ epoch[t[1]] \in EpochRecords
  BY DEF SpawnFails, Live, WInv, TypeOK
<1>2. CASE GiveUp(t)
  BY <1>1, <1>2, GiveUpHolds
<1>3. CASE Fail(t, epoch[t[1]].process)
  <2>1. epoch[t[1]].process \in {NoProcess} \cup Spawns
    BY <1>1 DEF EpochRecords
  <2> QED
    BY <1>1, <1>3, <2>1, FailHolds
<1> QED
  BY <1>2, <1>3 DEF SpawnFails

\* The process becomes the one the epoch knows: no other thread is registered.
LEMMA RegisterHolds ==
    ASSUME WInv, NEW t \in Epochs \X Spawns, Register(t)
    PROVE  WInv'
<1> DEFINE e == t[1]
<1>1. /\ Live(t) /\ UNCHANGED <<session, parks, samples, revivals>>
      /\ TypeOK /\ e \in Epochs /\ t[2] \in Spawns
      /\ thread \in [Epochs \X Spawns -> ThreadRecords]
      /\ epoch \in [Epochs -> EpochRecords]
      /\ thread[t].phase = "spawned"
  BY DEF Register, Live, WInv, TypeOK, ThreadRecords
<1>2. CASE GiveUp(t)
  BY <1>1, <1>2, GiveUpHolds
<1>3. CASE /\ Mine(e)
           /\ thread' = [thread EXCEPT ![t].phase = "watching"]
           /\ epoch' = [epoch EXCEPT ![e].process = t[2],
                                     ![e].worker = "running",
                                     ![e].threads = thread[t].budget]
  <2>1. thread[t].budget \in 0..MaxWorkerThreads
    BY <1>1 DEF ThreadRecords
  <2>2. PICK b \in 0..MaxWorkerThreads : b = thread[t].budget
    BY <2>1
  <2> DEFINE r == [epoch[e] EXCEPT !.process = t[2], !.worker = "running", !.threads = b]
             h == [thread[t] EXCEPT !.phase = "watching"]
  <2>3. /\ thread' = [thread EXCEPT ![t] = h]
        /\ epoch' = [epoch EXCEPT ![e] = r]
    BY <1>1, <1>3, <2>2
  <2>4. h \in ThreadRecords /\ h.phase = "watching"
    BY <1>1 DEF ThreadRecords, Phases
  <2>5. /\ r \in EpochRecords /\ r.life = epoch[e].life /\ r.process = t[2]
        /\ r.worker = "running"
    BY <1>1 DEF EpochRecords, Workers
  <2>6. Mine(e)
    BY <1>3
  <2> HIDE DEF h, r, e
  <2>7. /\ thread' \in [Epochs \X Spawns -> ThreadRecords]
        /\ thread'[t].phase = "watching"
        /\ \A u \in (Epochs \X Spawns) \ {t} : thread'[u] = thread[u]
    BY <1>1, <2>3, <2>4
  <2>8. /\ epoch' \in [Epochs -> EpochRecords]
        /\ epoch'[e] = r
        /\ \A f \in Epochs \ {e} : epoch'[f] = epoch[f]
    BY <1>1, <2>3, <2>5
  <2>9. TypeOK'
    BY <1>1, <2>7, <2>8 DEF TypeOK, ThreadRecords
  <2>10. StartsNone
    BY <1>1, <2>7 DEF WInv, Spawned, StartsNone, Live
  <2>11. ASSUME samples = 0 PROVE Busy' /\ Known'
    <3>1. session[e[1]].life = "open" /\ epoch[e].life = "named"
      BY <2>6 DEF Mine, Open
    <3>2. ASSUME NEW u \in Epochs \X Spawns, Live(u), u # t
          PROVE  u[1] \in Epochs \ {e}
      BY <1>1, <2>11, <3>2 DEF WInv, OneLive, e
    <3>3. ASSUME NEW u \in Epochs \X Spawns, u # t
          PROVE  /\ Live(u)' =>
                       /\ session'[u[1][1]].life # "new"
                       /\ epoch'[u[1]].life # "none"
                       /\ epoch'[u[1]].life = "named" => epoch'[u[1]].worker \in Served
                 /\ thread'[u].alive /\ thread'[u].phase = "watching" =>
                       /\ session'[u[1][1]].life \in {"open", "closing"}
                       /\ epoch'[u[1]].life = "named"
                       /\ epoch'[u[1]].process = u[2]
      <4>1. thread'[u] = thread[u]
        BY <2>7, <3>3
      <4>2. Live(u) => epoch'[u[1]] = epoch[u[1]]
        BY <2>8, <3>2, <3>3
      <4> QED
        BY <1>1, <2>11, <4>1, <4>2 DEF WInv, Busy, Known, Live
    <3>4. /\ session'[t[1][1]].life = "open"
          /\ epoch'[t[1]].life = "named" /\ epoch'[t[1]].worker = "running"
          /\ epoch'[t[1]].process = t[2]
      BY <1>1, <2>5, <2>8, <3>1 DEF e
    <3> QED
      BY <3>3, <3>4 DEF Busy, Known, Served
  <2> QED
    BY <2>9, <2>10, <2>11, NoThreadStarts
<1> QED
  BY <1>2, <1>3 DEF Register

LEMMA ProcessExitsHolds ==
    ASSUME WInv, NEW t \in Epochs \X Spawns, ProcessExits(t)
    PROVE  WInv'
<1> DEFINE r == [thread[t] EXCEPT !.alive = FALSE]
<1>1. /\ UNCHANGED <<session, epoch, parks, samples, revivals>>
      /\ thread \in [Epochs \X Spawns -> ThreadRecords]
      /\ thread' = [thread EXCEPT ![t] = r]
      /\ thread[t].phase \in {"spawned", "watching"}
  BY DEF ProcessExits, WInv, Spawned, TypeOK, ThreadRecords
<1>2. r \in ThreadRecords /\ ~r.alive /\ r.phase = thread[t].phase
  BY <1>1 DEF ThreadRecords
<1> HIDE DEF r
<1>3. Live(t) /\ r.phase \in {"spawning", "spawned", "watching"}
  BY <1>1, <1>2 DEF Live
<1> QED
  BY <1>1, <1>2, <1>3, ThreadGoesOn

LEMMA FinishHolds ==
    ASSUME WInv, NEW t \in Epochs \X Spawns, Finish(t)
    PROVE  WInv'
<1> DEFINE e == t[1]
           stopped == epoch[e].stop \/ epoch[e].life = "draining" \/ epoch[e].failed
           over == IF epoch[e].life = "named" THEN "over" ELSE epoch[e].worker
           completed == epoch[e].completed \/ ~stopped
           mid == [epoch EXCEPT ![e].process = NoProcess, ![e].worker = over,
                                ![e].stop = FALSE,
                                ![e].completed = @ \/ ~stopped]
<1>1. /\ Live(t) /\ UNCHANGED <<session, parks, samples, revivals>>
      /\ epoch \in [Epochs -> EpochRecords] /\ e \in Epochs
  BY DEF Finish, Live, WInv, TypeOK
<1>2. CASE GiveUp(t)
  BY <1>1, <1>2, GiveUpHolds
<1>3. CASE Fail(t, NoProcess)
  BY <1>1, <1>3, FailHolds
<1>4. CASE /\ thread' = [thread EXCEPT ![t] = Done]
           /\ epoch' = EnsureWorkers(e[1], session[e[1]].parked, mid,
                                     [thread EXCEPT ![t] = Done])
  <2>1. over \in Workers
    BY <1>1 DEF Workers, EpochRecords
  <2>2. epoch[e].completed \in BOOLEAN
    BY <1>1 DEF EpochRecords
  <2>3. completed \in BOOLEAN
    OBVIOUS
  <2>4. \A f \in Epochs \ {e} : mid[f] = epoch[f]
    BY <1>1
  <2>5. mid[e] = [epoch[e] EXCEPT !.process = NoProcess, !.worker = over,
                                  !.stop = FALSE, !.completed = completed]
    BY <1>1
  <2>6. DOMAIN mid = Epochs /\ mid = [f \in Epochs |-> mid[f]]
    BY <1>1
  <2> HIDE DEF over, completed, stopped, mid, e
  <2>7. mid[e] \in EpochRecords
    BY <1>1, <2>1, <2>3, <2>5 DEF EpochRecords
  <2>8. mid \in [Epochs -> EpochRecords]
    BY <1>1, <2>4, <2>6, <2>7
  <2> QED
    BY <1>1, <1>4, <2>4, <2>8, ThreadEnds DEF e
<1> QED
  BY <1>2, <1>3, <1>4 DEF Finish

-----------------------------------------------------------------------------

LEMMA SampleHolds ==
    ASSUME WInv, NEW e \in Epochs, Sample(e)
    PROVE  WInv'
<1>1. /\ samples < MaxSamples /\ samples' = samples + 1
      /\ epoch' = [epoch EXCEPT ![e].worker = "over"]
      /\ UNCHANGED <<session, thread, parks, revivals>>
      /\ TypeOK /\ Spawned
  BY DEF Sample, WInv
<1>2. epoch' \in [Epochs -> EpochRecords]
  BY <1>1 DEF TypeOK, EpochRecords, Workers
<1>3. samples' \in 0..MaxSamples /\ samples' # 0
  BY <1>1, WorkerConstants DEF TypeOK
<1>4. TypeOK' /\ Spawned'
  BY <1>1, <1>2, <1>3 DEF TypeOK, Spawned
<1> QED
  BY <1>3, <1>4 DEF WInv

\* WInv holds after every operation of the manager and every section of a worker
\* thread (_dispatch_waiting_route2_workers_locked, _run_route2_epoch_worker).
THEOREM WorkersInvariant == Spec => []WInv
<1>1. WInv /\ [Next]_vars => WInv'
  <2> SUFFICES ASSUME WInv, [Next]_vars PROVE WInv'
    OBVIOUS
  <2>1. ASSUME NEW s \in Sessions,
               \/ OpenSession(s) \/ CreateReplacement(s) \/ Promote(s) \/ Discard(s)
               \/ Poll(s) \/ Revive(s) \/ Leave(s) \/ Terminate(s)
               \/ Park(s) \/ ClientParks(s) \/ Resume(s)
        PROVE  WInv'
    BY <2>1, OpenSessionHolds, CreateReplacementHolds, PromoteHolds, DiscardHolds,
       PollHolds, ReviveHolds, LeaveHolds, TerminateHolds, ParkHolds,
       ClientParksHolds, ResumeHolds
  <2>2. ASSUME NEW t \in Epochs \X Spawns, ThreadStep(t) PROVE WInv'
    BY <2>2, BeginHolds, SpawnHolds, SpawnFailsHolds, RegisterHolds,
       ProcessExitsHolds, FinishHolds DEF ThreadStep
  <2>3. CASE UNCHANGED vars
    BY <2>3 DEF vars, WInv, TypeOK, Spawned, OneLive, Busy, Known, Live
  <2> QED
    BY <2>1, <2>2, <2>3, DispatchHolds, SampleHolds DEF Next
<1> QED
  BY <1>1, WorkersStart, PTL DEF Spec

\* Sessions, epochs with their worker records, and threads keep their types
\* (PlaybackEpoch, Route2WorkerRecord).
THEOREM WorkersTyping == Spec => []TypeOK
BY WorkersInvariant, PTL DEF WInv

\* Wherever the epoch is discarded, promoted out or its session ended between the
\* sections of _run_route2_epoch_worker, the section that registers the process
\* finds its epoch changed and ends it, and _terminate_route2_epoch_locked ends
\* one that is registered.
THEOREM EncodersEndWithTheirEpoch == Spec => []NoOrphanEncoder
<1>1. WInv => NoOrphanEncoder
  BY DEF WInv, Known, NoOrphanEncoder, Watched, Encoders
<1> QED
  BY <1>1, WorkersInvariant, PTL

\* _ensure_route2_epoch_workers_locked queues no epoch whose record is running or
\* stopping, and the record of an epoch that still has a thread is one of these:
\* no second thread starts for it, so no second ffmpeg writes its directory.
THEOREM OneWritesAnEpoch == Spec => []OneEncoderPerEpoch
<1>1. WInv => OneEncoderPerEpoch
  BY DEF WInv, Spawned, OneLive, Live, OneEncoderPerEpoch, Encoders
<1> QED
  BY <1>1, WorkersInvariant, PTL


-----------------------------------------------------------------------------
(* The budget and the order of creation: what is invariant *)

\* A record has its place in the order of creation, and shares it with no
\* record of another session.
Dated == \A e \in Epochs : epoch[e].worker # "absent" => epoch[e].created > 0

Apart == \A e, f \in Epochs :
    e[1] # f[1] /\ epoch[e].created = epoch[f].created => epoch[e].created = 0

\* While nobody has parked: no record is paused or being stopped, a thread has
\* the cores of its record, and the running records keep to the budget.
Unparked ==
    /\ \A s \in Sessions : ~session[s].parked
    /\ \A e \in Epochs : epoch[e].worker \notin {"paused", "stopping"}

Paid == \A t \in Epochs \X Spawns : Live(t) /\ epoch[t[1]].life = "named" =>
    IF thread[t].phase = "begun" THEN epoch[t[1]].threads >= MinWorkerThreads
    ELSE thread[t].budget = epoch[t[1]].threads

RunningFits == CoresOf(Running) <= TotalBudget

BudgetInv == /\ samples = 0 => Dated /\ Apart
             /\ samples = 0 /\ parks = 0 => Unparked /\ Paid /\ RunningFits

Idle(e) == \A t \in Epochs \X Spawns : t[1] = e => ~Live(t)

\* What a handler makes of the record of e before the last pass over the workers
\* of its session.
Carried(e, r) ==
    /\ r.created \in {0, epoch[e].created}
    /\ r.life = "named" =>
          /\ epoch[e].life = "named" \/ Idle(e)
          /\ r.created = epoch[e].created
          /\ parks' = 0 => r.threads = epoch[e].threads
    /\ r.worker # "absent" => r.created > 0
    /\ r.worker = "running" =>
          /\ epoch[e].worker \in Served
          /\ parks' = 0 => r.threads = epoch[e].threads
    /\ parks' = 0 => r.worker \notin {"paused", "stopping"}

\* What a handler of session s leaves of it: the record may be a new one, younger
\* than those of other sessions, but nothing is served that was not.
Follows(s, e) ==
    /\ \/ epoch'[e].created \in {0, epoch[e].created}
       \/ e[1] = s /\ \A f \in Epochs : f[1] # s => epoch'[e].created > epoch'[f].created
    /\ epoch'[e].life = "named" => epoch[e].life = "named" \/ Idle(e)
    /\ epoch'[e].worker # "absent" => epoch'[e].created > 0
    /\ epoch'[e].worker = "running" =>
          /\ epoch[e].worker \in Served
          /\ parks' = 0 => epoch'[e].threads = epoch[e].threads
    /\ parks' = 0 => epoch'[e].worker \notin {"paused", "stopping"}

\* No thread starts, and the one that takes its cores takes those of its record.
ThreadsFollow == \A t \in Epochs \X Spawns :
    /\ thread'[t].alive => Live(t)
    /\ Live(t)' =>
          /\ Live(t)
          /\ \/ /\ thread'[t].phase = thread[t].phase \/ thread[t].phase # "begun"
                /\ thread'[t].phase = "begun" => thread[t].phase = "begun"
                /\ thread'[t].budget = thread[t].budget
             \/ /\ thread[t].phase = "begun" /\ thread'[t].phase # "begun"
                /\ thread'[t].budget = Larger(MinWorkerThreads, epoch[t[1]].threads)

\* A step in which the dispatch pass has no part.
Kept(s) ==
    /\ \A e \in Epochs : Follows(s, e)
    /\ ThreadsFollow
    /\ samples' = samples
    /\ parks' = 0 => parks = 0 /\ \A r \in Sessions : session'[r].parked => session[r].parked

\* Parking is not undone, so the hypotheses of the budget held before the step.
Settled == samples = 0 /\ (parks' = 0 => parks = 0)

LEMMA EnsuredFollows ==
    ASSUME WInv, BudgetInv, Settled, NEW s, NEW parked,
           NEW mid \in [Epochs -> EpochRecords],
           \A e \in Epochs : Carried(e, mid[e]),
           ThreadsFollow,
           epoch' = EnsureWorkers(s, parked, mid, thread') \/ epoch' = mid
    PROVE  \A e \in Epochs : Follows(s, e)
<1> SUFFICES ASSUME NEW e \in Epochs PROVE Follows(s, e)
    OBVIOUS
<1>1. CASE epoch'[e] = mid[e]
  BY <1>1 DEF Carried, Follows
<1>2. CASE epoch' = EnsureWorkers(s, parked, mid, thread') /\ epoch'[e] # mid[e]
  <2>1. /\ e[1] = s /\ mid[e].life = "named"
        /\ IF Encoding(mid[e], thread', e)
           THEN epoch'[e] = [mid[e] EXCEPT !.worker = "running"]
           ELSE epoch'[e] = [mid[e] EXCEPT !.worker = "queued", !.threads = 0,
                                !.stop = FALSE, !.created = Age(mid, mid[e])]
    BY <1>2 DEF EnsureWorkers
  <2>2. mid[e] \in EpochRecords /\ epoch[e] \in EpochRecords
    BY DEF WInv, TypeOK
  <2>3. CASE Encoding(mid[e], thread', e)
    <3>1. PICK k \in Spawns : k = mid[e].process /\ thread'[<<e, k>>].alive
      BY <2>2, <2>3 DEF Encoding, EpochRecords
    <3>2. <<e, k>> \in Epochs \X Spawns /\ <<e, k>>[1] = e
      OBVIOUS
    <3>3. Live(<<e, k>>)
      BY <3>1, <3>2 DEF ThreadsFollow
    <3>4. epoch[e].life = "named" /\ epoch[e].worker \in Served
      BY <2>1, <3>2, <3>3 DEF Carried, Idle, WInv, Busy, Settled
    <3>5. epoch[e].created > 0
      BY <3>4 DEF BudgetInv, Dated, Settled, Served
    <3>6. /\ epoch'[e].worker = "running" /\ epoch'[e].created = mid[e].created
          /\ epoch'[e].life = "named" /\ epoch'[e].threads = mid[e].threads
      BY <2>1, <2>2, <2>3 DEF EpochRecords
    <3>7. /\ mid[e].created = epoch[e].created
          /\ parks' = 0 => mid[e].threads = epoch[e].threads
      BY <2>1 DEF Carried
    <3> QED
      BY <3>4, <3>5, <3>6, <3>7 DEF Follows
  <2>4. CASE ~Encoding(mid[e], thread', e)
    <3>1. PICK age \in Nat :
             /\ age = Age(mid, mid[e])
             /\ IF mid[e].worker = "absent" THEN \A f \in Epochs : age > mid[f].created
                                            ELSE age = mid[e].created
      BY Ages
    <3>2. /\ epoch'[e].worker = "queued" /\ epoch'[e].created = age
          /\ epoch'[e].life = "named"
      BY <2>1, <2>2, <2>4, <3>1 DEF EpochRecords
    <3>3. \A f \in Epochs : f[1] # s => epoch'[f] = mid[f]
      BY <1>2 DEF EnsureWorkers
    <3>4. mid[e].created \in Nat /\ mid[e].created = epoch[e].created
      BY <2>1, <2>2 DEF Carried, EpochRecords
    <3>5. CASE mid[e].worker = "absent"
      <4>1. age > 0
        BY <3>1, <3>4, <3>5
      <4> QED
        BY <2>1, <3>1, <3>2, <3>3, <3>5, <4>1 DEF Follows, Carried
    <3>6. CASE mid[e].worker # "absent"
      BY <2>1, <3>1, <3>2, <3>4, <3>6 DEF Follows, Carried
    <3> QED
      BY <3>5, <3>6
  <2> QED
    BY <2>3, <2>4
<1> QED
  BY <1>1, <1>2

\* Records that end or stay as they are.
LEMMA CarriedOver ==
    ASSUME WInv, BudgetInv, Settled, NEW e \in Epochs, NEW r,
           r.created = epoch[e].created,
           \/ r.worker = epoch[e].worker
           \/ r.worker = "absent"
           \/ r.worker = "over" /\ epoch[e].worker # "absent",
           r.life = "named" => (epoch[e].life = "named" \/ Idle(e)),
           r.threads = epoch[e].threads
    PROVE  Carried(e, r)
<1>1. epoch[e].worker # "absent" => epoch[e].created > 0
  BY DEF BudgetInv, Dated, Settled
<1>2. parks' = 0 => epoch[e].worker \notin {"paused", "stopping"}
  BY DEF BudgetInv, Unparked, Settled
<1> QED
  BY <1>1, <1>2 DEF Carried, Served

-----------------------------------------------------------------------------
(* Counting cores *)

LEMMA CoresAreFinite ==
    ASSUME NEW es, IsFiniteSet(es), NEW amount
    PROVE  IsFiniteSet(Cores(amount, es)) /\ Cardinality(Cores(amount, es)) \in Nat
<1>1. IsFiniteSet(1..MaxWorkerThreads)
  BY WorkerConstants, FS_Interval
<1>2. IsFiniteSet(es \X (1..MaxWorkerThreads))
  BY <1>1, FS_Product
<1>3. IsFiniteSet(Cores(amount, es))
  BY <1>2, FS_Subset DEF Cores
<1> QED
  BY <1>3, FS_CardinalityType

LEMMA FewerCores ==
    ASSUME NEW es, IsFiniteSet(es), NEW amount, NEW ds, NEW other,
           Cores(other, ds) \subseteq Cores(amount, es)
    PROVE  /\ Cardinality(Cores(other, ds)) \in Nat
           /\ Cardinality(Cores(amount, es)) \in Nat
           /\ Cardinality(Cores(other, ds)) <= Cardinality(Cores(amount, es))
<1>1. IsFiniteSet(Cores(amount, es)) /\ Cardinality(Cores(amount, es)) \in Nat
  BY CoresAreFinite
<1>2. /\ IsFiniteSet(Cores(other, ds))
      /\ Cardinality(Cores(other, ds)) <= Cardinality(Cores(amount, es))
  BY <1>1, FS_Subset
<1> QED
  BY <1>1, <1>2, FS_CardinalityType

LEMMA SetsOfEpochs ==
    ASSUME NEW es \in SUBSET Epochs
    PROVE  IsFiniteSet(es)
BY EpochsAreFinite, FS_Subset

\* Records that go on running with the cores they had keep to the budget.
LEMMA StillFits ==
    ASSUME RunningFits,
           \A e \in Epochs : epoch'[e].worker = "running" =>
              epoch[e].worker = "running" /\ epoch'[e].threads = epoch[e].threads
    PROVE  RunningFits'
<1> DEFINE old == [e \in Running |-> epoch[e].threads]
           new == [e \in Running' |-> epoch'[e].threads]
<1>1. Running \in SUBSET Epochs /\ Running' \in SUBSET Epochs
  BY DEF Running
<1>2. \A e \in Running' : e \in Running /\ new[e] = old[e]
  BY DEF Running
<1> HIDE DEF old, new
<1>3. Cores(new, Running') \subseteq Cores(old, Running)
  BY <1>2 DEF Cores
<1>4. IsFiniteSet(Running)
  BY <1>1, SetsOfEpochs
<1>5. /\ Cardinality(Cores(new, Running')) \in Nat
      /\ Cardinality(Cores(old, Running)) \in Nat
      /\ Cardinality(Cores(new, Running')) <= Cardinality(Cores(old, Running))
  BY <1>3, <1>4, FewerCores
<1>6. CoresOf(Running) = Cardinality(Cores(old, Running))
  BY DEF CoresOf, old
<1>7. CoresOf(Running)' = Cardinality(Cores(new, Running'))
  BY DEF CoresOf, Cores, new
<1> QED
  BY <1>5, <1>6, <1>7, WorkerConstants DEF RunningFits

-----------------------------------------------------------------------------

LEMMA KeptHolds ==
    ASSUME WInv, WInv', BudgetInv, NEW s, Kept(s)
    PROVE  BudgetInv'
<1>1. \A e \in Epochs : Follows(s, e)
  BY DEF Kept
<1>2. ASSUME samples' = 0 PROVE samples = 0 /\ Dated /\ Apart
  BY <1>2 DEF Kept, BudgetInv
<1>3. ASSUME samples' = 0 PROVE Dated'
  BY <1>1 DEF Follows, Dated
<1>4. ASSUME samples' = 0 PROVE Apart'
  <2> SUFFICES ASSUME NEW e \in Epochs, NEW f \in Epochs, e[1] # f[1],
                      epoch'[e].created = epoch'[f].created, epoch'[e].created # 0
               PROVE  FALSE
    BY DEF Apart
  <2>1. \A d \in Epochs : epoch'[d].created \in Nat
    BY DEF WInv, TypeOK, EpochRecords
  <2>2. epoch'[e].created = epoch[e].created /\ epoch'[f].created = epoch[f].created
    BY <1>1, <2>1 DEF Follows
  <2> QED
    BY <1>2, <1>4, <2>2 DEF Apart
<1>5. ASSUME samples' = 0, parks' = 0
      PROVE  samples = 0 /\ parks = 0 /\ Unparked /\ Paid /\ RunningFits
  BY <1>5 DEF Kept, BudgetInv
<1>6. ASSUME samples' = 0, parks' = 0 PROVE Unparked'
  BY <1>1, <1>5, <1>6 DEF Kept, Follows, Unparked
<1>7. ASSUME samples' = 0, parks' = 0, NEW e \in Epochs, epoch'[e].worker = "running"
      PROVE  epoch[e].worker = "running" /\ epoch'[e].threads = epoch[e].threads
  BY <1>1, <1>5, <1>7 DEF Follows, Unparked, Served
<1>8. ASSUME samples' = 0, parks' = 0 PROVE RunningFits'
  BY <1>5, <1>7, <1>8, StillFits
<1>9. ASSUME samples' = 0, parks' = 0 PROVE Paid'
  <2> SUFFICES ASSUME NEW t \in Epochs \X Spawns, Live(t)', epoch'[t[1]].life = "named"
               PROVE  IF thread'[t].phase = "begun"
                      THEN epoch'[t[1]].threads >= MinWorkerThreads
                      ELSE thread'[t].budget = epoch'[t[1]].threads
    BY DEF Paid
  <2>1. t[1] \in Epochs
    OBVIOUS
  <2>2. epoch'[t[1]].worker \in Served
    BY <1>9 DEF WInv, Busy
  <2>3. epoch'[t[1]].worker = "running"
    BY <1>6, <1>9, <2>1, <2>2 DEF Unparked, Served
  <2>4. epoch'[t[1]].threads = epoch[t[1]].threads
    BY <1>7, <1>9, <2>1, <2>3
  <2>5. Live(t) /\ epoch[t[1]].life = "named"
    BY <1>1, <2>1 DEF Kept, ThreadsFollow, Follows, Idle
  <2>6. IF thread[t].phase = "begun" THEN epoch[t[1]].threads >= MinWorkerThreads
        ELSE thread[t].budget = epoch[t[1]].threads
    BY <1>5, <1>9, <2>5 DEF Paid
  <2>7. epoch[t[1]].threads \in Int /\ MinWorkerThreads \in Int
    BY <2>1, WorkerConstants DEF WInv, TypeOK, EpochRecords
  <2> QED
    BY <2>4, <2>5, <2>6, <2>7 DEF Kept, ThreadsFollow, Larger
<1> QED
  BY <1>3, <1>4, <1>6, <1>8, <1>9 DEF BudgetInv

-----------------------------------------------------------------------------
(* Every step but the dispatch pass keeps the budget *)

LEMMA QuietThreads ==
    ASSUME WInv, UNCHANGED thread
    PROVE  ThreadsFollow
BY DEF WInv, Spawned, ThreadsFollow, Live

LEMMA EndedFollow ==
    ASSUME WInv, NEW es, thread' = Ended(es)
    PROVE  ThreadsFollow
<1> USE DEF ThreadRecords
<1>1. ASSUME NEW t \in Epochs \X Spawns
      PROVE  /\ thread'[t].phase = thread[t].phase
             /\ thread'[t].budget = thread[t].budget
             /\ thread'[t].alive => thread[t].alive
  BY DEF Ended, WInv, TypeOK
<1> QED
  BY <1>1 DEF WInv, Spawned, ThreadsFollow, Live

\* One thread ends or goes on; it takes its cores when it begins.
LEMMA OneThreadFollows ==
    ASSUME WInv, NEW t \in Epochs \X Spawns, Live(t),
           NEW r \in ThreadRecords, thread' = [thread EXCEPT ![t] = r],
           r.phase # "begun", r.alive => Live(t),
           \/ r.phase = "done"
           \/ thread[t].phase # "begun" /\ r.budget = thread[t].budget
           \/ thread[t].phase = "begun" /\ r.budget = Larger(MinWorkerThreads, epoch[t[1]].threads)
    PROVE  ThreadsFollow
<1>1. thread'[t] = r /\ \A u \in (Epochs \X Spawns) \ {t} : thread'[u] = thread[u]
  BY DEF WInv, TypeOK
<1> QED
  BY <1>1 DEF WInv, Spawned, ThreadsFollow, Live

LEMMA DoneFollows ==
    ASSUME WInv, NEW t \in Epochs \X Spawns, Live(t),
           thread' = [thread EXCEPT ![t] = Done]
    PROVE  ThreadsFollow
<1>1. Done \in ThreadRecords /\ Done.phase = "done" /\ ~Done.alive
  BY WorkerConstants DEF Done, ThreadRecords, Phases
<1> QED
  BY <1>1, OneThreadFollows

\* Handlers of a session, in the form their lemmas share.
LEMMA HandlerKeeps ==
    ASSUME WInv, BudgetInv, samples = 0, samples' = samples, NEW s, NEW parked,
           parks' = 0 => parks = 0,
           parks' = 0 => \A r \in Sessions : session'[r].parked => session[r].parked,
           ThreadsFollow,
           NEW mid \in [Epochs -> EpochRecords],
           \A e \in Epochs : Carried(e, mid[e]),
           epoch' = EnsureWorkers(s, parked, mid, thread') \/ epoch' = mid
    PROVE  Kept(s)
<1>1. Settled
  BY DEF Settled
<1>2. \A e \in Epochs : Follows(s, e)
  BY <1>1, EnsuredFollows
<1> QED
  BY <1>2 DEF Kept

LEMMA OpenSessionKeeps ==
    ASSUME WInv, BudgetInv, samples = 0, NEW s \in Sessions, OpenSession(s)
    PROVE  Kept(s)
<1> DEFINE mid == [epoch EXCEPT ![<<s, 1>>].life = "named"]
<1>1. /\ session[s].life = "new"
      /\ session' = [session EXCEPT ![s].life = "open"]
      /\ epoch' = EnsureWorkers(s, FALSE, mid, thread')
      /\ UNCHANGED <<thread, parks, samples, revivals>>
      /\ TypeOK /\ Busy /\ Settled
  BY DEF OpenSession, WInv, Settled
<1>2. mid \in [Epochs -> EpochRecords]
  BY <1>1 DEF TypeOK, EpochRecords, Lives
<1>3. ASSUME NEW e \in Epochs
      PROVE  /\ mid[e].created = epoch[e].created /\ mid[e].worker = epoch[e].worker
             /\ mid[e].threads = epoch[e].threads
             /\ mid[e].life = epoch[e].life \/ e = <<s, 1>>
  BY <1>1 DEF TypeOK, EpochRecords
<1>4. Idle(<<s, 1>>)
  BY <1>1 DEF Idle, Busy
<1> HIDE DEF mid
<1>5. \A e \in Epochs : Carried(e, mid[e])
  BY <1>1, <1>3, <1>4, CarriedOver
<1>6. \A r \in Sessions : session'[r].parked => session[r].parked
  BY <1>1 DEF TypeOK
<1> QED
  BY <1>1, <1>2, <1>5, <1>6, QuietThreads, HandlerKeeps

LEMMA CreateReplacementKeeps ==
    ASSUME WInv, BudgetInv, samples = 0, NEW s \in Sessions, CreateReplacement(s)
    PROVE  Kept(s)
<1>1. PICK n \in 2..MaxEpochs :
          /\ epoch[<<s, n>>].life = "none"
          /\ epoch' = Ensured(s, [epoch EXCEPT ![<<s, n>>].life = "named"])
  BY DEF CreateReplacement
<1> DEFINE mid == [epoch EXCEPT ![<<s, n>>].life = "named"]
<1>2. /\ epoch' = EnsureWorkers(s, session[s].parked, mid, thread')
      /\ UNCHANGED <<session, thread, parks, samples, revivals>>
      /\ TypeOK /\ Busy /\ Settled
  BY <1>1 DEF CreateReplacement, Ensured, WInv, Settled
<1>3. mid \in [Epochs -> EpochRecords]
  BY <1>2 DEF TypeOK, EpochRecords, Lives
<1>4. ASSUME NEW e \in Epochs
      PROVE  /\ mid[e].created = epoch[e].created /\ mid[e].worker = epoch[e].worker
             /\ mid[e].threads = epoch[e].threads
             /\ mid[e].life = epoch[e].life \/ e = <<s, n>>
  BY <1>2 DEF TypeOK, EpochRecords
<1>5. Idle(<<s, n>>)
  BY <1>1, <1>2 DEF Idle, Busy
<1> HIDE DEF mid
<1>6. \A e \in Epochs : Carried(e, mid[e])
  BY <1>2, <1>4, <1>5, CarriedOver
<1> QED
  BY <1>2, <1>3, <1>6, QuietThreads, HandlerKeeps

\* An epoch that is given up has no worker that is served.
LEMMA GivingUpKeeps ==
    ASSUME WInv, BudgetInv, samples = 0, NEW s \in Sessions, NEW e, NEW mid,
           mid \in [Epochs -> EpochRecords],
           \A f \in Epochs : \/ mid[f] = epoch[f]
                             \/ mid[f] = Drained(epoch[f])
                             \/ mid[f] = Discarded,
           NEW es, thread' = Ended(es),
           epoch' = EnsureWorkers(s, session[s].parked, mid, Ended(es)) \/ epoch' = mid,
           UNCHANGED <<parks, samples>>,
           \A r \in Sessions : session'[r].parked => session[r].parked
    PROVE  Kept(s)
<1>1. TypeOK /\ Settled
  BY DEF WInv, Settled
<1>2. ASSUME NEW f \in Epochs PROVE Carried(f, mid[f])
  <2>1. epoch[f] \in EpochRecords
    BY <1>1 DEF TypeOK
  <2>2. CASE mid[f] = epoch[f]
    BY <1>1, <2>2, CarriedOver
  <2>3. CASE mid[f] = Drained(epoch[f])
    <3>1. /\ mid[f].life = "draining" /\ mid[f].created = epoch[f].created
          /\ mid[f].threads = epoch[f].threads
          /\ \/ mid[f].worker = "absent"
             \/ mid[f].worker = "over" /\ epoch[f].worker # "absent"
      BY <2>1, <2>3 DEF Drained, EpochRecords
    <3> QED
      BY <1>1, <3>1, CarriedOver
  <2>4. CASE mid[f] = Discarded
    <3>1. mid[f].life = "gone" /\ mid[f].created = 0 /\ mid[f].worker = "absent"
      BY <2>4 DEF Discarded, NoEpoch
    <3> QED
      BY <3>1 DEF Carried
  <2> QED
    BY <2>2, <2>3, <2>4
<1> QED
  BY <1>2, EndedFollow, HandlerKeeps

LEMMA PromoteKeeps ==
    ASSUME WInv, BudgetInv, samples = 0, NEW s \in Sessions, Promote(s)
    PROVE  Kept(s)
<1> DEFINE e == Oldest(Named(s))
           mid == [epoch EXCEPT ![e] = Drained(epoch[e])]
<1>1. /\ thread' = Ended({e})
      /\ epoch' = EnsureWorkers(s, session[s].parked, mid, Ended({e})) \/ epoch' = mid
      /\ UNCHANGED <<session, parks, samples, revivals>>
      /\ epoch \in [Epochs -> EpochRecords]
  BY DEF Promote, WInv, TypeOK
<1> HIDE DEF e
<1>2. \A f \in Epochs : mid[f] = epoch[f] \/ mid[f] = Drained(epoch[f])
  BY <1>1
<1>3. mid \in [Epochs -> EpochRecords]
  <2>1. CASE e \in Epochs
    BY <1>1, <2>1, DrainedRecords
  <2>2. CASE e \notin Epochs
    BY <1>1, <2>2
  <2> QED
    BY <2>1, <2>2
<1> HIDE DEF mid
<1> QED
  BY <1>1, <1>2, <1>3, GivingUpKeeps

LEMMA DiscardKeeps ==
    ASSUME WInv, BudgetInv, samples = 0, NEW s \in Sessions, Discard(s)
    PROVE  Kept(s)
<1>1. PICK e \in Of(s) :
          /\ thread' = Ended({e})
          /\ epoch' = EnsureWorkers(s, session[s].parked,
                                    [epoch EXCEPT ![e] = Discarded], Ended({e}))
  BY DEF Discard
<1> DEFINE mid == [epoch EXCEPT ![e] = Discarded]
<1>2. /\ UNCHANGED <<session, parks, samples, revivals>>
      /\ epoch \in [Epochs -> EpochRecords]
  BY DEF Discard, WInv, TypeOK
<1>3. mid \in [Epochs -> EpochRecords]
  BY <1>2, FreshRecords
<1>4. \A f \in Epochs : mid[f] = epoch[f] \/ mid[f] = Discarded
  BY <1>2
<1> HIDE DEF mid
<1> QED
  BY <1>1, <1>2, <1>3, <1>4, GivingUpKeeps DEF mid

LEMMA TerminateKeeps ==
    ASSUME WInv, BudgetInv, samples = 0, NEW s \in Sessions, Terminate(s)
    PROVE  Kept(s)
<1> DEFINE mid == [e \in Epochs |-> IF e \in Named(s) THEN Discarded ELSE epoch[e]]
<1>1. /\ session' = [session EXCEPT ![s].life = "closed"]
      /\ epoch' = mid
      /\ thread' = Ended(Of(s))
      /\ UNCHANGED <<parks, samples, revivals>>
      /\ TypeOK
  BY DEF Terminate, WInv
<1>2. mid \in [Epochs -> EpochRecords]
  BY <1>1, FreshRecords DEF TypeOK
<1>3. \A f \in Epochs : mid[f] = epoch[f] \/ mid[f] = Discarded
  OBVIOUS
<1>4. \A r \in Sessions : session'[r].parked => session[r].parked
  BY <1>1 DEF TypeOK
<1> HIDE DEF mid
<1> QED
  BY <1>1, <1>2, <1>3, <1>4, GivingUpKeeps

\* Handlers that leave the threads alone.
LEMMA PollKeeps ==
    ASSUME WInv, BudgetInv, samples = 0, NEW s \in Sessions, Poll(s)
    PROVE  Kept(s)
<1>1. /\ epoch' = EnsureWorkers(s, session[s].parked, epoch, thread')
      /\ UNCHANGED <<session, thread, parks, samples, revivals>>
      /\ epoch \in [Epochs -> EpochRecords] /\ Settled
  BY DEF Poll, Ensured, WInv, TypeOK, Settled
<1>2. \A e \in Epochs : Carried(e, epoch[e])
  BY <1>1, CarriedOver
<1> QED
  BY <1>1, <1>2, QuietThreads, HandlerKeeps

LEMMA ReviveKeeps ==
    ASSUME WInv, BudgetInv, samples = 0, NEW s \in Sessions, Revive(s)
    PROVE  Kept(s)
<1> DEFINE e == Oldest(Named(s))
           mid == [epoch EXCEPT ![e].failed = FALSE]
<1>1. /\ epoch' = EnsureWorkers(s, session[s].parked, mid, thread')
      /\ UNCHANGED <<session, thread, parks, samples>>
      /\ epoch \in [Epochs -> EpochRecords] /\ Settled
  BY DEF Revive, Ensured, WInv, TypeOK, Settled
<1> HIDE DEF e
<1>2. /\ mid \in [Epochs -> EpochRecords]
      /\ \A f \in Epochs : /\ mid[f].life = epoch[f].life
                           /\ mid[f].created = epoch[f].created
                           /\ mid[f].threads = epoch[f].threads
                           /\ mid[f].worker = epoch[f].worker
  <2>1. CASE e \in Epochs
    BY <1>1, <2>1 DEF EpochRecords
  <2>2. CASE e \notin Epochs
    BY <1>1, <2>2
  <2> QED
    BY <2>1, <2>2
<1> HIDE DEF mid
<1>3. \A f \in Epochs : Carried(f, mid[f])
  BY <1>1, <1>2, CarriedOver
<1> QED
  BY <1>1, <1>2, <1>3, QuietThreads, HandlerKeeps

LEMMA LeaveKeeps ==
    ASSUME WInv, BudgetInv, samples = 0, NEW s \in Sessions, Leave(s)
    PROVE  Kept(s)
<1>1. /\ session' = [session EXCEPT ![s].life = "closing"]
      /\ UNCHANGED <<epoch, thread, parks, samples, revivals>>
      /\ epoch \in [Epochs -> EpochRecords] /\ Settled /\ TypeOK
  BY DEF Leave, WInv, TypeOK, Settled
<1>2. \A e \in Epochs : Carried(e, epoch[e])
  BY <1>1, CarriedOver
<1>3. \A r \in Sessions : session'[r].parked => session[r].parked
  BY <1>1 DEF TypeOK
<1> QED
  BY <1>1, <1>2, <1>3, QuietThreads, HandlerKeeps

LEMMA ParkKeeps ==
    ASSUME WInv, BudgetInv, samples = 0, NEW s \in Sessions, Park(s)
    PROVE  Kept(s)
<1>1. parks' # 0
  <2>1. parks' = parks + 1
    BY DEF Park
  <2>2. parks \in Nat
    BY WorkerConstants DEF WInv, TypeOK
  <2> QED
    BY <2>1, <2>2
<1> DEFINE mid == [e \in Epochs |->
               IF e[1] # s \/ epoch[e].worker = "absent" THEN epoch[e]
               ELSE [epoch[e] EXCEPT !.stop = TRUE,
                                     !.worker = CASE @ = "queued" -> "paused"
                                                  [] @ = "running" -> "stopping"
                                                  [] OTHER -> @]]
<1>2. /\ epoch' = mid
      /\ UNCHANGED <<thread, samples, revivals>>
      /\ TypeOK
  BY DEF Park, WInv
<1>3. ASSUME NEW e \in Epochs
      PROVE  /\ mid[e] \in EpochRecords
             /\ Carried(e, mid[e])
  <2>1. epoch[e] \in EpochRecords /\ (epoch[e].worker # "absent" => epoch[e].created > 0)
    BY <1>2 DEF TypeOK, BudgetInv, Dated
  <2>2. CASE mid[e] = epoch[e]
    BY <1>1, <2>1, <2>2 DEF Carried, Served
  <2>3. CASE mid[e] # epoch[e]
    <3> DEFINE w == CASE epoch[e].worker = "queued" -> "paused"
                      [] epoch[e].worker = "running" -> "stopping"
                      [] OTHER -> epoch[e].worker
    <3>1. w \in Workers /\ w # "running" /\ epoch[e].worker # "absent"
      BY <2>1, <2>3 DEF Workers, EpochRecords
    <3>2. mid[e] = [epoch[e] EXCEPT !.stop = TRUE, !.worker = w]
      BY <2>3
    <3> HIDE DEF w, mid
    <3>3. /\ mid[e] \in EpochRecords /\ mid[e].worker = w
          /\ mid[e].life = epoch[e].life /\ mid[e].created = epoch[e].created
      BY <2>1, <3>1, <3>2 DEF EpochRecords
    <3> QED
      BY <1>1, <2>1, <3>1, <3>3 DEF Carried
  <2> QED
    BY <2>1, <2>2, <2>3
<1>4. mid \in [Epochs -> EpochRecords]
  BY <1>3
<1> HIDE DEF mid
<1> QED
  BY <1>2, <1>1, <1>3, <1>4, QuietThreads, HandlerKeeps

LEMMA ClientParksKeeps ==
    ASSUME WInv, BudgetInv, samples = 0, NEW s \in Sessions, ClientParks(s)
    PROVE  Kept(s)
<1>1. /\ parks' = parks + 1
      /\ UNCHANGED <<epoch, thread, samples, revivals>>
      /\ TypeOK /\ epoch \in [Epochs -> EpochRecords]
  BY DEF ClientParks, WInv, TypeOK
<1>2. parks' # 0 /\ Settled
  BY <1>1, WorkerConstants DEF TypeOK, Settled
<1>3. \A e \in Epochs : Carried(e, epoch[e])
  BY <1>2, CarriedOver
<1> QED
  BY <1>1, <1>2, <1>3, QuietThreads, HandlerKeeps

\* A record is resumed only when its session has been parked.
LEMMA ResumeKeeps ==
    ASSUME WInv, BudgetInv, samples = 0, NEW s \in Sessions, Resume(s)
    PROVE  Kept(s)
<1> DEFINE mid == [e \in Epochs |-> IF e[1] = s /\ epoch[e].worker # "absent"
                                    THEN Resumed(epoch[e]) ELSE epoch[e]]
<1>1. /\ epoch' = EnsureWorkers(s, FALSE, mid, thread')
      /\ UNCHANGED <<thread, parks, samples, revivals>>
      /\ session[s].parked
      /\ TypeOK
  BY DEF Resume, WInv
<1>2. parks' # 0
  BY <1>1 DEF BudgetInv, Unparked
<1>3. ASSUME NEW e \in Epochs
      PROVE  /\ mid[e] \in EpochRecords
             /\ Carried(e, mid[e])
  <2>1. epoch[e] \in EpochRecords /\ (epoch[e].worker # "absent" => epoch[e].created > 0)
    BY <1>1 DEF TypeOK, BudgetInv, Dated
  <2>2. CASE mid[e] = epoch[e]
    BY <1>2, <2>1, <2>2 DEF Carried, Served
  <2>3. CASE mid[e] # epoch[e]
    <3>1. mid[e] = Resumed(epoch[e]) /\ epoch[e].worker # "absent"
      BY <2>3
    <3> HIDE DEF mid
    <3>2. /\ mid[e] \in EpochRecords /\ mid[e].life = epoch[e].life
          /\ mid[e].created = epoch[e].created
          /\ mid[e].worker = "running" => epoch[e].worker \in Served
      BY <2>1, <3>1, ResumedRecords DEF Resumed, EpochRecords, Served
    <3> QED
      BY <1>2, <2>1, <3>1, <3>2 DEF Carried
  <2> QED
    BY <2>2, <2>3, <2>1
<1>4. mid \in [Epochs -> EpochRecords]
  BY <1>3
<1> HIDE DEF mid
<1> QED
  BY <1>1, <1>2, <1>3, <1>4, QuietThreads, HandlerKeeps

\* The sections of a worker thread.
LEMMA GiveUpKeeps ==
    ASSUME WInv, BudgetInv, samples = 0, NEW t \in Epochs \X Spawns, Live(t), GiveUp(t),
           UNCHANGED <<session, parks, samples, revivals>>
    PROVE  Kept(t[1][1])
<1> DEFINE mid == [epoch EXCEPT ![t[1]].worker = "absent"]
<1>1. /\ thread' = [thread EXCEPT ![t] = Done] /\ epoch' = mid
      /\ epoch \in [Epochs -> EpochRecords] /\ t[1] \in Epochs /\ Settled
  BY DEF GiveUp, WInv, TypeOK, Settled
<1>2. mid \in [Epochs -> EpochRecords]
  BY <1>1 DEF EpochRecords, Workers
<1>3. ASSUME NEW e \in Epochs
      PROVE  /\ mid[e].life = epoch[e].life /\ mid[e].created = epoch[e].created
             /\ mid[e].threads = epoch[e].threads
             /\ mid[e].worker = epoch[e].worker \/ mid[e].worker = "absent"
  BY <1>1 DEF EpochRecords
<1> HIDE DEF mid
<1>4. \A e \in Epochs : Carried(e, mid[e])
  BY <1>1, <1>3, CarriedOver
<1> QED
  BY <1>1, <1>2, <1>4, DoneFollows, HandlerKeeps

\* A thread that ends changes the record of its epoch, which is over when the
\* session still names it.
LEMMA EndingKeeps ==
    ASSUME WInv, BudgetInv, samples = 0, NEW t \in Epochs \X Spawns, Live(t),
           thread' = [thread EXCEPT ![t] = Done],
           NEW r \in EpochRecords, NEW mid, mid = [epoch EXCEPT ![t[1]] = r],
           r.life = epoch[t[1]].life, r.created = epoch[t[1]].created,
           r.threads = epoch[t[1]].threads,
           r.worker = IF epoch[t[1]].life = "named" THEN "over" ELSE epoch[t[1]].worker,
           NEW parked, epoch' = EnsureWorkers(t[1][1], parked, mid, thread'),
           UNCHANGED <<session, parks, samples, revivals>>
    PROVE  Kept(t[1][1])
<1>1. epoch \in [Epochs -> EpochRecords] /\ t[1] \in Epochs /\ Settled
  BY DEF WInv, TypeOK, Settled
<1>2. /\ mid \in [Epochs -> EpochRecords] /\ mid[t[1]] = r
      /\ \A e \in Epochs \ {t[1]} : mid[e] = epoch[e]
  BY <1>1
<1>3. epoch[t[1]].life = "named" => epoch[t[1]].worker # "absent"
  BY DEF WInv, Busy, Served
<1>4. ASSUME NEW e \in Epochs PROVE Carried(e, mid[e])
  <2>1. CASE e = t[1]
    BY <1>1, <1>2, <1>3, <2>1, CarriedOver
  <2>2. CASE e # t[1]
    BY <1>1, <1>2, <2>2, CarriedOver
  <2> QED
    BY <2>1, <2>2
<1> QED
  BY <1>2, <1>4, DoneFollows, HandlerKeeps

LEMMA FailKeeps ==
    ASSUME WInv, BudgetInv, samples = 0, NEW t \in Epochs \X Spawns, Live(t),
           NEW process \in {NoProcess} \cup Spawns, Fail(t, process),
           UNCHANGED <<session, parks, samples, revivals>>
    PROVE  Kept(t[1][1])
<1> DEFINE e == t[1]
           over == IF epoch[e].life = "named" THEN "over" ELSE epoch[e].worker
           mid == [epoch EXCEPT ![e].failed = TRUE, ![e].worker = over,
                                ![e].process = process]
           r == [epoch[e] EXCEPT !.failed = TRUE, !.worker = over,
                                 !.process = process]
<1>1. /\ thread' = [thread EXCEPT ![t] = Done]
      /\ epoch' = EnsureWorkers(e[1], session[e[1]].parked, mid, thread')
      /\ epoch \in [Epochs -> EpochRecords] /\ e \in Epochs
  BY DEF Fail, WInv, TypeOK
<1>2. over \in Workers
  BY <1>1 DEF Workers, EpochRecords
<1>3. mid = [epoch EXCEPT ![e] = r]
  BY <1>1
<1>4. over = IF epoch[e].life = "named" THEN "over" ELSE epoch[e].worker
  OBVIOUS
<1> HIDE DEF over, e
<1>5. /\ r \in EpochRecords /\ r.life = epoch[e].life /\ r.created = epoch[e].created
      /\ r.threads = epoch[e].threads /\ r.worker = over
  BY <1>1, <1>2 DEF EpochRecords
<1> HIDE DEF mid, r
<1> QED
  BY <1>1, <1>3, <1>4, <1>5, EndingKeeps DEF e

\* The thread takes the cores of its record.
LEMMA BeginKeeps ==
    ASSUME WInv, BudgetInv, samples = 0, NEW t \in Epochs \X Spawns, Begin(t)
    PROVE  Kept(t[1][1])
<1>1. /\ Live(t) /\ UNCHANGED <<session, parks, samples, revivals>>
      /\ thread[t] \in ThreadRecords /\ epoch \in [Epochs -> EpochRecords]
      /\ t[1] \in Epochs /\ epoch[t[1]] \in EpochRecords
      /\ thread[t].phase = "begun" /\ Settled /\ TypeOK
  BY DEF Begin, Live, WInv, TypeOK, ThreadRecords, Settled
<1>2. CASE GiveUp(t)
  BY <1>1, <1>2, GiveUpKeeps
<1>3. CASE Fail(t, epoch[t[1]].process)
  <2>1. epoch[t[1]].process \in {NoProcess} \cup Spawns
    BY <1>1 DEF EpochRecords
  <2> QED
    BY <1>1, <1>3, <2>1, FailKeeps
<1>4. CASE /\ thread' = [thread EXCEPT
                 ![t].phase = "spawning",
                 ![t].budget = Larger(MinWorkerThreads, epoch[t[1]].threads)]
           /\ UNCHANGED epoch
  <2> DEFINE budget == Larger(MinWorkerThreads, epoch[t[1]].threads)
             r == [thread[t] EXCEPT !.phase = "spawning", !.budget = budget]
  <2>1. budget \in 0..MaxWorkerThreads
    BY <1>1, WorkerConstants DEF Larger, EpochRecords
  <2>2. thread' = [thread EXCEPT ![t] = r]
    BY <1>1, <1>4 DEF TypeOK
  <2>3. budget = Larger(MinWorkerThreads, epoch[t[1]].threads)
    OBVIOUS
  <2> HIDE DEF budget
  <2>4. r \in ThreadRecords /\ r.phase = "spawning" /\ r.budget = budget
    BY <1>1, <2>1 DEF ThreadRecords, Phases
  <2> HIDE DEF r
  <2>5. ThreadsFollow
    BY <1>1, <2>2, <2>3, <2>4, OneThreadFollows
  <2>6. \A e \in Epochs : Carried(e, epoch[e])
    BY <1>1, CarriedOver
  <2> QED
    BY <1>1, <1>4, <2>5, <2>6, HandlerKeeps
<1> QED
  BY <1>2, <1>3, <1>4 DEF Begin

\* A step of a thread that touches no record and no budget.
LEMMA GoingOnKeeps ==
    ASSUME WInv, BudgetInv, samples = 0, NEW t \in Epochs \X Spawns, Live(t),
           NEW r \in ThreadRecords, thread' = [thread EXCEPT ![t] = r],
           thread[t].phase # "begun", r.phase # "begun",
           r.budget = thread[t].budget,
           UNCHANGED <<session, epoch, parks, samples, revivals>>
    PROVE  Kept(t[1][1])
<1>1. epoch \in [Epochs -> EpochRecords] /\ Settled
  BY DEF WInv, TypeOK, Settled
<1>2. ThreadsFollow
  BY OneThreadFollows
<1>3. \A e \in Epochs : Carried(e, epoch[e])
  BY <1>1, CarriedOver
<1> QED
  BY <1>1, <1>2, <1>3, HandlerKeeps

LEMMA SpawnKeeps ==
    ASSUME WInv, BudgetInv, samples = 0, NEW t \in Epochs \X Spawns, Spawn(t)
    PROVE  Kept(t[1][1])
<1> DEFINE r == [thread[t] EXCEPT !.phase = "spawned", !.alive = TRUE]
<1>1. /\ Live(t) /\ UNCHANGED <<session, epoch, parks, samples, revivals>>
      /\ thread \in [Epochs \X Spawns -> ThreadRecords]
      /\ thread' = [thread EXCEPT ![t].phase = "spawned", ![t].alive = TRUE]
      /\ thread[t].phase # "begun"
  BY DEF Spawn, Live, WInv, TypeOK, ThreadRecords
<1>2. thread' = [thread EXCEPT ![t] = r]
  BY <1>1
<1>3. r \in ThreadRecords /\ r.phase = "spawned" /\ r.budget = thread[t].budget
  BY <1>1 DEF ThreadRecords, Phases
<1> HIDE DEF r
<1> QED
  BY <1>1, <1>2, <1>3, GoingOnKeeps

LEMMA ProcessExitsKeeps ==
    ASSUME WInv, BudgetInv, samples = 0, NEW t \in Epochs \X Spawns, ProcessExits(t)
    PROVE  Kept(t[1][1])
<1> DEFINE r == [thread[t] EXCEPT !.alive = FALSE]
<1>1. /\ UNCHANGED <<session, epoch, parks, samples, revivals>>
      /\ thread \in [Epochs \X Spawns -> ThreadRecords]
      /\ thread' = [thread EXCEPT ![t] = r]
      /\ thread[t].phase \in {"spawned", "watching"}
  BY DEF ProcessExits, WInv, Spawned, TypeOK, ThreadRecords
<1>2. r \in ThreadRecords /\ r.phase = thread[t].phase /\ r.budget = thread[t].budget
  BY <1>1 DEF ThreadRecords
<1> HIDE DEF r
<1>3. Live(t) /\ r.phase # "begun" /\ thread[t].phase # "begun"
  BY <1>1, <1>2 DEF Live
<1> QED
  BY <1>1, <1>2, <1>3, GoingOnKeeps

LEMMA SpawnFailsKeeps ==
    ASSUME WInv, BudgetInv, samples = 0, NEW t \in Epochs \X Spawns, SpawnFails(t)
    PROVE  Kept(t[1][1])
<1>1. /\ Live(t) /\ UNCHANGED <<session, parks, samples, revivals>>
      /\ epoch[t[1]] \in EpochRecords
  BY DEF SpawnFails, Live, WInv, TypeOK
<1>2. CASE GiveUp(t)
  BY <1>1, <1>2, GiveUpKeeps
<1>3. CASE Fail(t, epoch[t[1]].process)
  <2>1. epoch[t[1]].process \in {NoProcess} \cup Spawns
    BY <1>1 DEF EpochRecords
  <2> QED
    BY <1>1, <1>3, <2>1, FailKeeps
<1> QED
  BY <1>2, <1>3 DEF SpawnFails

\* The record takes the cores of the thread, which are its own unless somebody
\* has parked.
LEMMA RegisterKeeps ==
    ASSUME WInv, BudgetInv, samples = 0, NEW t \in Epochs \X Spawns, Register(t)
    PROVE  Kept(t[1][1])
<1> DEFINE e == t[1]
<1>1. /\ Live(t) /\ UNCHANGED <<session, parks, samples, revivals>>
      /\ TypeOK /\ e \in Epochs /\ t[2] \in Spawns /\ Settled
      /\ thread \in [Epochs \X Spawns -> ThreadRecords]
      /\ epoch \in [Epochs -> EpochRecords]
      /\ thread[t].phase = "spawned"
  BY DEF Register, Live, WInv, TypeOK, ThreadRecords, Settled
<1>2. CASE GiveUp(t)
  BY <1>1, <1>2, GiveUpKeeps
<1>3. CASE /\ Mine(e)
           /\ thread' = [thread EXCEPT ![t].phase = "watching"]
           /\ epoch' = [epoch EXCEPT ![e].process = t[2],
                                     ![e].worker = "running",
                                     ![e].threads = thread[t].budget]
  <2>1. PICK b \in 0..MaxWorkerThreads : b = thread[t].budget
    BY <1>1 DEF ThreadRecords
  <2> DEFINE r == [epoch[e] EXCEPT !.process = t[2], !.worker = "running", !.threads = b]
             h == [thread[t] EXCEPT !.phase = "watching"]
             mid == [epoch EXCEPT ![e] = r]
  <2>2. thread' = [thread EXCEPT ![t] = h] /\ epoch' = mid
    BY <1>1, <1>3, <2>1
  <2>3. h \in ThreadRecords /\ h.phase = "watching" /\ h.budget = thread[t].budget
    BY <1>1 DEF ThreadRecords, Phases
  <2>4. /\ r \in EpochRecords /\ r.life = epoch[e].life
        /\ r.created = epoch[e].created /\ r.worker = "running" /\ r.threads = b
    BY <1>1 DEF EpochRecords, Workers
  <2>5. Mine(e)
    BY <1>3
  <2> HIDE DEF h, r, e
  <2>6. epoch[e].life = "named" /\ epoch[e].worker \in Served
    BY <1>1, <2>5 DEF Mine, WInv, Busy, e
  <2>7. parks' = 0 => b = epoch[e].threads
    BY <1>1, <2>1, <2>6 DEF BudgetInv, Paid, e
  <2>8. epoch[e].created > 0
    BY <1>1, <2>6 DEF BudgetInv, Dated, Served
  <2>9. Carried(e, r)
    BY <2>4, <2>6, <2>7, <2>8 DEF Carried
  <2>10. mid \in [Epochs -> EpochRecords] /\ mid[e] = r
         /\ \A f \in Epochs \ {e} : mid[f] = epoch[f]
    BY <1>1, <2>4
  <2> HIDE DEF mid
  <2>11. ASSUME NEW f \in Epochs PROVE Carried(f, mid[f])
    <3>1. CASE f = e
      BY <2>9, <2>10, <3>1
    <3>2. CASE f # e
      BY <1>1, <2>10, <3>2, CarriedOver
    <3> QED
      BY <3>1, <3>2
  <2>12. ThreadsFollow
    BY <1>1, <2>2, <2>3, OneThreadFollows
  <2> QED
    BY <1>1, <2>2, <2>10, <2>11, <2>12, HandlerKeeps
<1> QED
  BY <1>2, <1>3 DEF Register

LEMMA FinishKeeps ==
    ASSUME WInv, BudgetInv, samples = 0, NEW t \in Epochs \X Spawns, Finish(t)
    PROVE  Kept(t[1][1])
<1> DEFINE e == t[1]
           stopped == epoch[e].stop \/ epoch[e].life = "draining" \/ epoch[e].failed
           over == IF epoch[e].life = "named" THEN "over" ELSE epoch[e].worker
           completed == epoch[e].completed \/ ~stopped
           mid == [epoch EXCEPT ![e].process = NoProcess, ![e].worker = over,
                                ![e].stop = FALSE,
                                ![e].completed = @ \/ ~stopped]
           r == [epoch[e] EXCEPT !.process = NoProcess, !.worker = over,
                                 !.stop = FALSE, !.completed = completed]
<1>1. /\ Live(t) /\ UNCHANGED <<session, parks, samples, revivals>>
      /\ epoch \in [Epochs -> EpochRecords] /\ e \in Epochs
  BY DEF Finish, Live, WInv, TypeOK
<1>2. CASE GiveUp(t)
  BY <1>1, <1>2, GiveUpKeeps
<1>3. CASE Fail(t, NoProcess)
  BY <1>1, <1>3, FailKeeps
<1>4. CASE /\ thread' = [thread EXCEPT ![t] = Done]
           /\ epoch' = EnsureWorkers(e[1], session[e[1]].parked, mid,
                                     [thread EXCEPT ![t] = Done])
  <2>1. over \in Workers
    BY <1>1 DEF Workers, EpochRecords
  <2>2. completed \in BOOLEAN
    OBVIOUS
  <2>3. mid = [epoch EXCEPT ![e] = r]
    BY <1>1
  <2>4. over = IF epoch[e].life = "named" THEN "over" ELSE epoch[e].worker
    OBVIOUS
  <2> HIDE DEF over, completed, stopped, mid, e
  <2>5. /\ r \in EpochRecords /\ r.life = epoch[e].life /\ r.created = epoch[e].created
        /\ r.threads = epoch[e].threads /\ r.worker = over
    BY <1>1, <2>1, <2>2 DEF EpochRecords
  <2> HIDE DEF r
  <2> QED
    BY <1>1, <1>4, <2>3, <2>4, <2>5, EndingKeeps DEF e
<1> QED
  BY <1>2, <1>3, <1>4 DEF Finish

-----------------------------------------------------------------------------
(* The order in which the dispatch pass serves *)

\* Among finitely many there is one with the largest number.
LEMMA LargestIsThere ==
    ASSUME NEW S, IsFiniteSet(S), S # {}, NEW m \in [S -> Nat]
    PROVE  \E x \in S : \A y \in S : m[y] <= m[x]
<1> DEFINE R == {m[x] : x \in S}
<1>1. m \in Surjection(S, R)
  BY DEF Surjection
<1>2. R \in SUBSET Nat /\ R # {} /\ IsFiniteSet(R)
  BY <1>1, FS_Surjection
<1>3. Max(R) \in R /\ \A y \in R : Max(R) >= y
  BY <1>2, MaximumIsThere
<1>4. PICK x \in S : m[x] = Max(R)
  BY <1>3
<1>5. \A y \in S : m[y] \in Nat /\ m[x] >= m[y]
  BY <1>3, <1>4
<1> QED
  BY <1>5

LEMMA Rounds ==
    ASSUME NEW e \in Epochs
    PROVE  Round(e) \in Nat /\ (Round(e) = 0 => \A f \in Waiting : f[1] = e[1] => ~Older(f, e))
<1> DEFINE S == {f \in Waiting : f[1] = e[1] /\ Older(f, e)}
<1>1. IsFiniteSet(S)
  <2>1. S \in SUBSET Epochs
    BY DEF Waiting
  <2> QED
    BY <2>1, SetsOfEpochs
<1>2. Cardinality(S) \in Nat /\ (Cardinality(S) = 0 => S = {})
  BY <1>1, FS_CardinalityType, FS_EmptySet
<1> QED
  BY <1>2 DEF Round

\* Waiting records are served one after another.
LEMMA OneAfterAnother ==
    ASSUME WInv, Dated, Apart, NEW e \in Waiting, NEW f \in Waiting
    PROVE  /\ e = f \/ Older(e, f) \/ Older(f, e)
           /\ e = f \/ ServedBefore(e, f) \/ ServedBefore(f, e)
<1>1. /\ e \in Epochs /\ f \in Epochs
      /\ epoch[e].created \in Nat /\ epoch[f].created \in Nat
      /\ epoch[e].created > 0
  BY DEF Waiting, WInv, TypeOK, EpochRecords, Dated
<1>2. e[2] \in Int /\ f[2] \in Int /\ e = <<e[1], e[2]>> /\ f = <<f[1], f[2]>>
  BY <1>1 DEF Epochs
<1>3. e[1] # f[1] => epoch[e].created # epoch[f].created
  BY <1>1 DEF Apart
<1>4. e = f \/ Older(e, f) \/ Older(f, e)
  BY <1>1, <1>2, <1>3 DEF Older
<1>5. Round(e) \in Nat /\ Round(f) \in Nat
  BY <1>1, Rounds
<1> QED
  BY <1>4, <1>5 DEF ServedBefore

\* The records that are served have one that is served last.
LEMMA LastIsThere ==
    ASSUME WInv, Dated, Apart, NEW G \in SUBSET Waiting, G # {}
    PROVE  \E e \in G : \A f \in G : f = e \/ ServedBefore(f, e)
<1>1. /\ Waiting \in SUBSET Epochs
      /\ \A H \in SUBSET Waiting : IsFiniteSet(H)
  BY SetsOfEpochs DEF Waiting
<1>2. \A e \in Waiting : /\ Round(e) \in Nat /\ epoch[e].created \in Nat
                         /\ e[2] \in Nat
  BY <1>1, Rounds DEF WInv, TypeOK, EpochRecords, Epochs
<1> DEFINE A(x) == \A y \in G : Round(y) <= Round(x)
           H == {x \in G : A(x)}
           B(x) == \A y \in H : epoch[y].created <= epoch[x].created
           K == {x \in H : B(x)}
<1>3. H # {} /\ H \in SUBSET Waiting
  <2> DEFINE m == [x \in G |-> Round(x)]
  <2>1. m \in [G -> Nat] /\ IsFiniteSet(G)
    BY <1>1, <1>2
  <2>2. PICK x \in G : \A y \in G : m[y] <= m[x]
    BY <2>1, LargestIsThere
  <2> QED
    BY <2>2
<1>4. K # {} /\ K \in SUBSET Waiting
  <2> DEFINE m == [x \in H |-> epoch[x].created]
  <2> HIDE DEF H
  <2>1. m \in [H -> Nat] /\ IsFiniteSet(H)
    BY <1>1, <1>2, <1>3
  <2>2. PICK x \in H : \A y \in H : m[y] <= m[x]
    BY <1>3, <2>1, LargestIsThere
  <2> QED
    BY <1>3, <2>2
<1>5. PICK e \in K : \A y \in K : y[2] <= e[2]
  <2> DEFINE m == [x \in K |-> x[2]]
  <2> HIDE DEF K
  <2>1. m \in [K -> Nat] /\ IsFiniteSet(K)
    BY <1>1, <1>2, <1>4
  <2>2. PICK x \in K : \A y \in K : m[y] <= m[x]
    BY <1>4, <2>1, LargestIsThere
  <2> QED
    BY <2>2
<1>6. e \in G /\ e \in H /\ e \in Waiting
  BY <1>4
<1>7. ASSUME NEW f \in G, f # e PROVE ServedBefore(f, e)
  <2>1. f \in Waiting /\ Round(f) <= Round(e)
    BY <1>6
  <2>2. CASE Round(f) # Round(e)
    BY <1>2, <1>6, <2>1, <2>2 DEF ServedBefore
  <2>3. CASE Round(f) = Round(e)
    <3>1. f \in H /\ epoch[f].created <= epoch[e].created
      BY <1>5, <1>6, <2>3
    <3>2. Older(f, e) \/ Older(e, f)
      BY <1>6, <1>7, <2>1, OneAfterAnother
    <3>3. ASSUME Older(e, f) PROVE FALSE
      <4>1. epoch[f].created = epoch[e].created /\ e[2] < f[2]
        BY <1>2, <1>6, <2>1, <3>1, <3>3 DEF Older
      <4>2. f \in K
        BY <1>5, <3>1, <4>1
      <4> QED
        BY <1>2, <1>5, <1>6, <2>1, <4>1, <4>2
    <3> QED
      BY <2>3, <3>2, <3>3 DEF ServedBefore
  <2> QED
    BY <2>2, <2>3
<1> QED
  BY <1>6, <1>7

LEMMA Numbers ==
    ASSUME WInv, NEW es \in SUBSET Epochs
    PROVE  CoresOf(es) \in Nat
<1>1. IsFiniteSet(es)
  BY SetsOfEpochs
<1> QED
  BY <1>1, CoresAreFinite DEF CoresOf

LEMMA ShareIsANumber ==
    ASSUME NEW e \in Waiting
    PROVE  Share \in Int
<1> DEFINE asking == {f \in Epochs : epoch[f].worker \in {"queued", "running"}}
           users == {f[1] : f \in asking}
<1>1. IsFiniteSet(users)
  <2>1. users \in SUBSET Sessions
    BY DEF Epochs
  <2> QED
    BY <2>1, WorkerConstants, FS_Subset
<1>2. users # {}
  <2>1. e \in asking
    BY DEF Waiting
  <2> QED
    BY <2>1
<1>3. PICK n \in Nat \ {0} : n = Cardinality(users)
  BY <1>1, <1>2, FS_CardinalityType, FS_EmptySet
<1>4. Share = Larger(1, TotalBudget \div n)
  BY <1>3 DEF Share
<1> HIDE DEF users
<1>5. TotalBudget \div n \in Int
  BY WorkerConstants
<1> QED
  BY <1>4, <1>5 DEF Larger

\* A grant of cores to the waiting records, as the dispatch pass makes it.
Granting(ready, g) ==
    /\ ready \in SUBSET Waiting
    /\ g \in [ready -> 0..MaxWorkerThreads]
    /\ \A e \in ready : g[e] = Grant(g, e)

LEMMA Grants ==
    ASSUME WInv, NEW ready, NEW g, Granting(ready, g), NEW e \in ready
    PROVE  LET before == {f \in ready : ServedBefore(f, e)}
               mine(es) == {f \in es : f[1] = e[1]}
               budget == TotalBudget - CoresOf(Running) - Cardinality(Cores(g, before))
               share == Share - CoresOf(mine(Running)) - Cardinality(Cores(g, mine(before)))
           IN  /\ before \in SUBSET Epochs
               /\ Cardinality(Cores(g, before)) \in Nat
               /\ budget \in Int /\ share \in Int
               /\ g[e] = 0 => budget < MinWorkerThreads \/ share < MinWorkerThreads
               /\ g[e] > 0 => /\ MinWorkerThreads <= g[e]
                              /\ g[e] <= budget
                              /\ MinWorkerThreads <= budget
<1> DEFINE before == {f \in ready : ServedBefore(f, e)}
           mine(es) == {f \in es : f[1] = e[1]}
           budget == TotalBudget - CoresOf(Running) - Cardinality(Cores(g, before))
           share == Share - CoresOf(mine(Running)) - Cardinality(Cores(g, mine(before)))
<1>1. /\ before \in SUBSET Epochs /\ mine(before) \in SUBSET Epochs
      /\ Running \in SUBSET Epochs /\ mine(Running) \in SUBSET Epochs
  BY DEF Granting, Waiting, Running
<1>2. DOMAIN g = ready /\ g[e] \in 0..MaxWorkerThreads /\ g[e] = Grant(g, e)
  BY DEF Granting
<1>3. Left(g, e) = Smaller(budget, share)
  BY <1>2 DEF Left
<1>4. /\ Cardinality(Cores(g, before)) \in Nat
      /\ Cardinality(Cores(g, mine(before))) \in Nat
  BY <1>1, SetsOfEpochs, CoresAreFinite
<1>5. CoresOf(Running) \in Nat /\ CoresOf(mine(Running)) \in Nat
  BY <1>1, Numbers
<1>6. Share \in Int
  BY ShareIsANumber DEF Granting
<1>7. TotalBudget \in Int
  BY WorkerConstants
<1>8. budget \in Int /\ share \in Int
  BY <1>4, <1>5, <1>6, <1>7
<1> HIDE DEF before, mine, budget, share
<1>9. /\ g[e] = 0 => budget < MinWorkerThreads \/ share < MinWorkerThreads
      /\ g[e] > 0 => /\ MinWorkerThreads <= g[e]
                     /\ g[e] <= budget
                     /\ MinWorkerThreads <= budget
  BY <1>2, <1>3, <1>8, WorkerConstants DEF Grant, Smaller
<1> QED
  BY <1>1, <1>4, <1>8, <1>9 DEF before, mine, budget, share

LEMMA CoresOfOne ==
    ASSUME NEW e, NEW amount, amount[e] \in 0..MaxWorkerThreads
    PROVE  /\ IsFiniteSet(Cores(amount, {e}))
           /\ Cardinality(Cores(amount, {e})) = amount[e]
<1>1. Cores(amount, {e}) = {e} \X (1..amount[e])
  BY WorkerConstants DEF Cores
<1>2. IsFiniteSet(1..amount[e]) /\ Cardinality(1..amount[e]) = amount[e]
  <2>1. PICK n \in Nat : n = amount[e]
    BY WorkerConstants
  <2>2. IsFiniteSet(1..n) /\ Cardinality(1..n) = IF 1 > n THEN 0 ELSE n - 1 + 1
    BY FS_Interval
  <2> QED
    BY <2>1, <2>2
<1>3. IsFiniteSet({e}) /\ Cardinality({e}) = 1
  BY FS_Singleton
<1>4. /\ IsFiniteSet({e} \X (1..amount[e]))
      /\ Cardinality({e} \X (1..amount[e])) = 1 * amount[e]
  BY <1>2, <1>3, FS_Product
<1>5. 1 * amount[e] = amount[e]
  BY WorkerConstants
<1> QED
  BY <1>1, <1>4, <1>5

LEMMA TwoSetsOfCores ==
    ASSUME NEW A, NEW B, NEW C, IsFiniteSet(A), IsFiniteSet(B), C \subseteq A \cup B
    PROVE  /\ Cardinality(A) \in Nat /\ Cardinality(B) \in Nat /\ Cardinality(C) \in Nat
           /\ Cardinality(C) <= Cardinality(A) + Cardinality(B)
<1>1. /\ IsFiniteSet(A \cup B) /\ IsFiniteSet(A \cap B)
      /\ Cardinality(A \cup B) = Cardinality(A) + Cardinality(B) - Cardinality(A \cap B)
  BY FS_Union, FS_Intersection
<1>2. IsFiniteSet(C) /\ Cardinality(C) <= Cardinality(A \cup B)
  BY <1>1, FS_Subset
<1>3. /\ Cardinality(A) \in Nat /\ Cardinality(B) \in Nat /\ Cardinality(C) \in Nat
      /\ Cardinality(A \cap B) \in Nat /\ Cardinality(A \cup B) \in Nat
  BY <1>1, <1>2, FS_CardinalityType
<1> QED
  BY <1>1, <1>2, <1>3

\* What is granted fits into what the running records leave of the budget: the
\* last grant was no more than the others left.
LEMMA GrantsFit ==
    ASSUME WInv, Dated, Apart, RunningFits, NEW ready, NEW g, Granting(ready, g)
    PROVE  CoresOf(Running) + Cardinality(Cores(g, {e \in ready : g[e] > 0})) <= TotalBudget
<1> DEFINE G == {e \in ready : g[e] > 0}
<1>1. G \in SUBSET Waiting /\ G \in SUBSET Epochs /\ ready \in SUBSET Epochs
  BY DEF Granting, Waiting
<1>2. CoresOf(Running) \in Nat /\ TotalBudget \in Nat
  <2>1. Running \in SUBSET Epochs
    BY DEF Running
  <2> QED
    BY <2>1, Numbers, WorkerConstants
<1>3. CASE G = {}
  <2>1. Cores(g, G) = {}
    BY <1>3 DEF Cores
  <2>2. Cardinality(Cores(g, G)) = 0
    BY <2>1, FS_EmptySet
  <2> QED
    BY <1>2, <2>2 DEF RunningFits
<1>4. CASE G # {}
  <2>1. PICK e \in G : \A f \in G : f = e \/ ServedBefore(f, e)
    BY <1>1, <1>4, LastIsThere
  <2> DEFINE before == {f \in ready : ServedBefore(f, e)}
  <2>2. /\ before \in SUBSET Epochs
        /\ g[e] <= TotalBudget - CoresOf(Running) - Cardinality(Cores(g, before))
    BY <2>1, Grants
  <2>3. g[e] \in 0..MaxWorkerThreads
    BY <2>1 DEF Granting
  <2>4. Cores(g, G) \subseteq Cores(g, before) \cup Cores(g, {e})
    BY <2>1 DEF Cores
  <2>5. IsFiniteSet(Cores(g, before))
    BY <2>2, SetsOfEpochs, CoresAreFinite
  <2>6. IsFiniteSet(Cores(g, {e})) /\ Cardinality(Cores(g, {e})) = g[e]
    BY <2>3, CoresOfOne
  <2>7. /\ Cardinality(Cores(g, G)) \in Nat /\ Cardinality(Cores(g, before)) \in Nat
        /\ Cardinality(Cores(g, G)) <= Cardinality(Cores(g, before)) + g[e]
    BY <2>4, <2>5, <2>6, TwoSetsOfCores
  <2> HIDE DEF G, before
  <2> QED
    BY <1>2, <2>2, <2>3, <2>7 DEF G
<1> QED
  BY <1>3, <1>4

\* The dispatch pass, by the grant it makes.
Dispatched(ready, g, k) ==
    /\ ready = {e \in Waiting : ~session[e[1]].parked}
    /\ Granting(ready, g)
    /\ k \in [ready -> Spawns]
    /\ epoch' = [e \in Epochs |->
                    IF e \in ready /\ g[e] > 0
                    THEN [epoch[e] EXCEPT !.worker = "running", !.threads = g[e]]
                    ELSE epoch[e]]
    /\ thread' = [t \in DOMAIN thread |->
                    IF t[1] \in ready /\ g[t[1]] > 0 /\ k[t[1]] = t[2]
                    THEN [thread[t] EXCEPT !.phase = "begun"]
                    ELSE thread[t]]
    /\ session' = session /\ parks' = parks /\ samples' = samples /\ revivals' = revivals

LEMMA DispatchGrants ==
    ASSUME Dispatch
    PROVE  \E ready, g, k : Dispatched(ready, g, k)
<1> DEFINE ready == {e \in Waiting : ~session[e[1]].parked}
<1>1. PICK g \in [ready -> 0..MaxWorkerThreads], k \in [ready -> Spawns] :
          /\ \A e \in ready : g[e] = Grant(g, e)
          /\ epoch' = [e \in Epochs |->
                          IF e \in ready /\ g[e] > 0
                          THEN [epoch[e] EXCEPT !.worker = "running", !.threads = g[e]]
                          ELSE epoch[e]]
          /\ thread' = [t \in DOMAIN thread |->
                          IF t[1] \in ready /\ g[t[1]] > 0 /\ k[t[1]] = t[2]
                          THEN [thread[t] EXCEPT !.phase = "begun"]
                          ELSE thread[t]]
  BY DEF Dispatch
<1>2. session' = session /\ parks' = parks /\ samples' = samples /\ revivals' = revivals
  BY DEF Dispatch
<1>3. ready \in SUBSET Waiting
  OBVIOUS
<1>4. Dispatched(ready, g, k)
  BY <1>1, <1>2, <1>3 DEF Dispatched, Granting
<1> QED
  BY <1>4

LEMMA GrantedRecords ==
    ASSUME WInv, NEW ready, NEW g, NEW k, Dispatched(ready, g, k), NEW e \in Epochs
    PROVE  /\ epoch'[e].life = epoch[e].life /\ epoch'[e].created = epoch[e].created
           /\ e \in ready => /\ epoch[e].worker = "queued" /\ epoch[e].life = "named"
                             /\ g[e] \in 0..MaxWorkerThreads
           /\ IF e \in ready /\ g[e] > 0
              THEN epoch'[e].worker = "running" /\ epoch'[e].threads = g[e]
              ELSE epoch'[e].worker = epoch[e].worker /\ epoch'[e].threads = epoch[e].threads
<1>1. epoch[e] \in EpochRecords
  BY DEF WInv, TypeOK
<1>2. e \in ready => /\ epoch[e].worker = "queued" /\ epoch[e].life = "named"
                     /\ g[e] \in 0..MaxWorkerThreads
  BY DEF Dispatched, Granting, Waiting
<1>3. CASE e \in ready /\ g[e] > 0
  <2>1. epoch'[e] = [epoch[e] EXCEPT !.worker = "running", !.threads = g[e]]
    BY <1>3 DEF Dispatched
  <2> QED
    BY <1>1, <1>2, <1>3, <2>1 DEF EpochRecords
<1>4. CASE ~(e \in ready /\ g[e] > 0)
  <2>1. epoch'[e] = epoch[e]
    BY <1>4 DEF Dispatched
  <2> QED
    BY <1>2, <1>4, <2>1
<1> QED
  BY <1>3, <1>4

LEMMA GrantedThreads ==
    ASSUME WInv, samples = 0, NEW ready, NEW g, NEW k, Dispatched(ready, g, k),
           NEW t \in Epochs \X Spawns, Live(t)'
    PROVE  IF t[1] \in ready /\ g[t[1]] > 0 THEN thread'[t].phase = "begun"
           ELSE thread'[t] = thread[t]
<1>1. thread[t] \in ThreadRecords /\ DOMAIN thread = Epochs \X Spawns
  BY DEF WInv, TypeOK, ThreadRecords
<1>2. CASE t[1] \in ready /\ g[t[1]] > 0 /\ k[t[1]] = t[2]
  <2>1. thread'[t] = [thread[t] EXCEPT !.phase = "begun"]
    BY <1>1, <1>2 DEF Dispatched
  <2> QED
    BY <1>1, <1>2, <2>1 DEF ThreadRecords
<1>3. CASE ~(t[1] \in ready /\ g[t[1]] > 0 /\ k[t[1]] = t[2])
  <2>1. thread'[t] = thread[t]
    BY <1>1, <1>3 DEF Dispatched
  <2>2. ASSUME t[1] \in ready PROVE FALSE
    <3>1. t[1] \in Epochs
      OBVIOUS
    <3>2. epoch[t[1]].worker = "queued" /\ epoch[t[1]].life = "named"
      BY <2>2, <3>1, GrantedRecords
    <3> QED
      BY <2>1, <3>2 DEF WInv, Busy, Live, Served
  <2> QED
    BY <2>1, <2>2
<1> QED
  BY <1>2, <1>3

LEMMA DispatchKeepsBudget ==
    ASSUME WInv, BudgetInv, Dispatch
    PROVE  BudgetInv'
<1>1. PICK ready, g, k : Dispatched(ready, g, k)
  BY DispatchGrants
<1>2. /\ Granting(ready, g) /\ session' = session /\ samples' = samples /\ parks' = parks
      /\ ready \in SUBSET Epochs
  BY <1>1 DEF Dispatched, Granting, Waiting
<1> DEFINE Granted(e) == e \in ready /\ g[e] > 0
<1>3. ASSUME NEW e \in Epochs
      PROVE  /\ epoch'[e].life = epoch[e].life /\ epoch'[e].created = epoch[e].created
             /\ e \in ready => epoch[e].worker = "queued" /\ g[e] \in 0..MaxWorkerThreads
             /\ IF Granted(e)
                THEN epoch'[e].worker = "running" /\ epoch'[e].threads = g[e]
                ELSE epoch'[e].worker = epoch[e].worker /\ epoch'[e].threads = epoch[e].threads
  BY <1>1, GrantedRecords
<1>4. ASSUME samples' = 0 PROVE samples = 0 /\ Dated /\ Apart
  BY <1>2, <1>4 DEF BudgetInv
<1>5. ASSUME samples' = 0 PROVE Dated' /\ Apart'
  <2>1. ASSUME NEW e \in Epochs, epoch'[e].worker # "absent" PROVE epoch[e].worker # "absent"
    BY <1>3, <2>1
  <2>2. \A e \in Epochs : epoch'[e].created = epoch[e].created
    BY <1>3
  <2> QED
    BY <1>4, <1>5, <2>1, <2>2 DEF Dated, Apart
<1>6. ASSUME samples' = 0, parks' = 0
      PROVE  samples = 0 /\ Dated /\ Apart /\ Unparked /\ Paid /\ RunningFits
  BY <1>2, <1>6 DEF BudgetInv
<1>7. ASSUME samples' = 0, parks' = 0 PROVE Unparked'
  <2>1. \A e \in Epochs : epoch'[e].worker \in {"running", epoch[e].worker}
    BY <1>3
  <2> QED
    BY <1>2, <1>6, <1>7, <2>1 DEF Unparked
<1>8. ASSUME samples' = 0, parks' = 0 PROVE Paid'
  <2> SUFFICES ASSUME NEW t \in Epochs \X Spawns, Live(t)', epoch'[t[1]].life = "named"
               PROVE  IF thread'[t].phase = "begun"
                      THEN epoch'[t[1]].threads >= MinWorkerThreads
                      ELSE thread'[t].budget = epoch'[t[1]].threads
    BY DEF Paid
  <2>1. t[1] \in Epochs
    OBVIOUS
  <2>2. CASE Granted(t[1])
    <3>1. MinWorkerThreads <= g[t[1]]
      BY <1>2, <2>2, Grants
    <3>2. thread'[t].phase = "begun" /\ epoch'[t[1]].threads = g[t[1]]
      BY <1>1, <1>3, <1>6, <1>8, <2>1, <2>2, GrantedThreads
    <3>3. g[t[1]] \in Int /\ MinWorkerThreads \in Int
      BY <1>3, <2>1, <2>2, WorkerConstants
    <3> QED
      BY <3>1, <3>2, <3>3
  <2>3. CASE ~Granted(t[1])
    <3>1. thread'[t] = thread[t]
      BY <1>1, <1>6, <1>8, <2>3, GrantedThreads
    <3>2. epoch'[t[1]].threads = epoch[t[1]].threads /\ epoch[t[1]].life = "named"
      BY <1>3, <2>1, <2>3
    <3>3. Live(t)
      BY <3>1 DEF Live
    <3> QED
      BY <1>6, <1>8, <3>1, <3>2, <3>3 DEF Paid
  <2> QED
    BY <2>2, <2>3
<1>9. ASSUME samples' = 0, parks' = 0 PROVE RunningFits'
  <2> DEFINE old == [e \in Running |-> epoch[e].threads]
             new == [e \in Running' |-> epoch'[e].threads]
             G == {e \in ready : g[e] > 0}
  <2>1. Running \in SUBSET Epochs /\ Running' \in SUBSET Epochs /\ G \in SUBSET Epochs
    BY <1>2 DEF Running
  <2>2. ASSUME NEW e \in Running'
        PROVE  \/ e \in Running /\ new[e] = old[e]
               \/ e \in G /\ new[e] = g[e]
    <3>1. e \in Epochs /\ epoch'[e].worker = "running" /\ new[e] = epoch'[e].threads
      BY DEF Running
    <3>2. CASE Granted(e)
      BY <1>3, <3>1, <3>2
    <3>3. CASE ~Granted(e)
      BY <1>3, <3>1, <3>3 DEF Running
    <3> QED
      BY <3>2, <3>3
  <2>3. CoresOf(Running) = Cardinality(Cores(old, Running))
    BY DEF CoresOf
  <2>4. CoresOf(Running)' = Cardinality(Cores(new, Running'))
    BY DEF CoresOf, Cores
  <2>5. CoresOf(Running) + Cardinality(Cores(g, G)) <= TotalBudget
    BY <1>2, <1>6, <1>9, GrantsFit
  <2> HIDE DEF old, new, G
  <2>6. Cores(new, Running') \subseteq Cores(old, Running) \cup Cores(g, G)
    BY <2>2 DEF Cores
  <2>7. IsFiniteSet(Cores(old, Running)) /\ IsFiniteSet(Cores(g, G))
    BY <2>1, SetsOfEpochs, CoresAreFinite
  <2>8. /\ Cardinality(Cores(old, Running)) \in Nat /\ Cardinality(Cores(g, G)) \in Nat
        /\ Cardinality(Cores(new, Running')) \in Nat
        /\ Cardinality(Cores(new, Running')) <=
              Cardinality(Cores(old, Running)) + Cardinality(Cores(g, G))
    BY <2>6, <2>7, TwoSetsOfCores
  <2> QED
    BY <2>3, <2>4, <2>5, <2>8, WorkerConstants DEF RunningFits
<1> QED
  BY <1>5, <1>7, <1>8, <1>9 DEF BudgetInv

LEMMA BudgetStarts == Init => BudgetInv
<1> SUFFICES ASSUME Init PROVE BudgetInv
    OBVIOUS
<1>1. \A e \in Epochs : epoch[e].worker = "absent" /\ epoch[e].created = 0
  BY DEF Init, NoEpoch
<1>2. Dated /\ Apart
  BY <1>1 DEF Dated, Apart
<1>3. Unparked
  BY <1>1 DEF Init, Unparked
<1>4. Paid
  BY DEF Init, Paid, Live
<1>5. RunningFits
  <2> DEFINE old == [e \in Running |-> epoch[e].threads]
  <2>1. Running = {}
    BY <1>1 DEF Running
  <2>2. Cores(old, Running) = {}
    BY <2>1 DEF Cores
  <2>3. CoresOf(Running) = 0
    BY <2>2, FS_EmptySet DEF CoresOf
  <2> QED
    BY <2>3, WorkerConstants DEF RunningFits
<1> QED
  BY <1>2, <1>3, <1>4, <1>5 DEF BudgetInv

LEMMA SampleKeepsBudget ==
    ASSUME WInv, NEW e \in Epochs, Sample(e)
    PROVE  samples' # 0
BY WorkerConstants DEF WInv, TypeOK, Sample

\* A step is the work of a session or a thread, which keeps the budget, or a
\* dispatch pass, or telemetry has interfered.
LEMMA StepsAreKept ==
    ASSUME WInv, BudgetInv, samples = 0, Next
    PROVE  (\E s : Kept(s)) \/ Dispatch \/ \E e \in Epochs : Sample(e)
<1>1. ASSUME NEW s \in Sessions,
             \/ OpenSession(s) \/ CreateReplacement(s) \/ Promote(s) \/ Discard(s)
             \/ Poll(s) \/ Revive(s) \/ Leave(s) \/ Terminate(s)
             \/ Park(s) \/ ClientParks(s) \/ Resume(s)
      PROVE  Kept(s)
  BY <1>1, OpenSessionKeeps, CreateReplacementKeeps, PromoteKeeps, DiscardKeeps,
     PollKeeps, ReviveKeeps, LeaveKeeps, TerminateKeeps, ParkKeeps,
     ClientParksKeeps, ResumeKeeps
<1>2. ASSUME NEW t \in Epochs \X Spawns, ThreadStep(t) PROVE Kept(t[1][1])
  BY <1>2, BeginKeeps, SpawnKeeps, SpawnFailsKeeps, RegisterKeeps,
     ProcessExitsKeeps, FinishKeeps DEF ThreadStep
<1> QED
  BY <1>1, <1>2 DEF Next

\* BudgetInv holds after every operation of the manager: a pass grants no more
\* than the running records leave (_dispatch_waiting_route2_workers_locked), and
\* what a thread takes in _run_route2_epoch_worker is what its record was granted.
THEOREM BudgetInvariant == Spec => []BudgetInv
<1>1. WInv /\ WInv' /\ BudgetInv /\ [Next]_vars => BudgetInv'
  <2> SUFFICES ASSUME WInv, WInv', BudgetInv, [Next]_vars PROVE BudgetInv'
    OBVIOUS
  <2>1. CASE UNCHANGED vars
    BY <2>1 DEF vars, BudgetInv, Dated, Apart, Unparked, Paid, Live, RunningFits,
       CoresOf, Cores, Running
  <2>2. CASE Next /\ samples = 0
    <3>1. ASSUME NEW s, Kept(s) PROVE BudgetInv'
      BY <3>1, KeptHolds
    <3>2. ASSUME NEW e \in Epochs, Sample(e) PROVE BudgetInv'
      BY <3>2, SampleKeepsBudget DEF BudgetInv
    <3> QED
      BY <2>2, <3>1, <3>2, StepsAreKept, DispatchKeepsBudget
  <2>3. CASE Next /\ samples # 0
    <3>1. samples' # 0
      <4>1. CASE samples' = samples
        BY <2>3, <4>1
      <4>2. CASE samples' # samples
        <5>1. PICK e \in Epochs : Sample(e)
          BY <2>3, <4>2 DEF Next, OpenSession, CreateReplacement, Promote, Discard,
             Poll, Revive, Leave, Terminate, Park, ClientParks, Resume, Dispatch,
             ThreadStep, Begin, Spawn, SpawnFails, Register, ProcessExits, Finish
        <5> QED
          BY <5>1, SampleKeepsBudget
      <4> QED
        BY <4>1, <4>2
    <3> QED
      BY <3>1 DEF BudgetInv
  <2> QED
    BY <2>1, <2>2, <2>3
<1> QED
  BY <1>1, BudgetStarts, WorkersInvariant, PTL DEF Spec

\* The cores of the registered encoders are cores of running records: each thread
\* took the cores of its record, and no epoch has two (README.md: the engine is
\* capped at a percentage of the host's CPU).
THEOREM EncodersKeepToTheBudget == Spec => []EncodersWithinBudget
<1>1. WInv /\ BudgetInv => EncodersWithinBudget
  <2> SUFFICES ASSUME WInv, BudgetInv, parks = 0, samples = 0
               PROVE  Cardinality(Cores([t \in Watched |-> thread[t].budget], Watched))
                         <= TotalBudget
    BY DEF EncodersWithinBudget
  <2> DEFINE used == [t \in Watched |-> thread[t].budget]
             old == [e \in Running |-> epoch[e].threads]
             A == Cores(used, Watched)
             B == Cores(old, Running)
             m == [c \in A |-> <<c[1][1], c[2]>>]
  <2>1. ASSUME NEW t \in Watched
        PROVE  /\ t \in Epochs \X Spawns /\ Live(t) /\ t[1] \in Running
               /\ used[t] = old[t[1]]
    <3>1. t \in Epochs \X Spawns /\ thread[t].alive /\ thread[t].phase = "watching"
      BY DEF Watched, Encoders
    <3>2. Live(t) /\ t[1] \in Epochs
      BY <3>1 DEF Live
    <3>3. epoch[t[1]].life = "named"
      BY <3>1 DEF WInv, Known
    <3>4. epoch[t[1]].worker = "running"
      BY <3>1, <3>2, <3>3 DEF WInv, Busy, BudgetInv, Unparked, Served
    <3>5. thread[t].budget = epoch[t[1]].threads
      BY <3>1, <3>2, <3>3 DEF BudgetInv, Paid
    <3> QED
      BY <3>1, <3>2, <3>4, <3>5 DEF Running
  <2>2. \A t, u \in Watched : t[1] = u[1] => t = u
    BY <2>1 DEF WInv, OneLive
  <2>3. IsFiniteSet(B) /\ CoresOf(Running) = Cardinality(B)
    <3>1. Running \in SUBSET Epochs
      BY DEF Running
    <3> QED
      BY <3>1, SetsOfEpochs, CoresAreFinite DEF CoresOf
  <2> HIDE DEF used, old
  <2>4. \A c \in A : /\ c[1] \in Watched /\ c[2] \in 1..MaxWorkerThreads
                     /\ c[2] <= used[c[1]] /\ c = <<c[1], c[2]>>
    BY DEF Cores
  <2>5. \A c \in A : <<c[1][1], c[2]>> \in B
    BY <2>1, <2>4 DEF Cores
  <2>6. m \in Injection(A, B)
    <3>1. m \in [A -> B]
      BY <2>5
    <3>2. ASSUME NEW c \in A, NEW d \in A, m[c] = m[d] PROVE c = d
      <4>1. c[1][1] = d[1][1] /\ c[2] = d[2]
        BY <3>2
      <4>2. c[1] = d[1]
        BY <2>2, <2>4, <4>1
      <4> QED
        BY <2>4, <4>1, <4>2
    <3> QED
      BY <3>1, <3>2 DEF Injection, IsInjective
  <2>7. IsFiniteSet(A) /\ Cardinality(A) <= Cardinality(B)
    BY <2>3, <2>6, FS_Injection
  <2>8. Cardinality(A) \in Nat /\ Cardinality(B) \in Nat
    BY <2>3, <2>7, FS_CardinalityType
  <2>9. Cardinality(B) <= TotalBudget
    BY <2>3 DEF BudgetInv, RunningFits
  <2>10. Cardinality(A) <= TotalBudget
    BY <2>7, <2>8, <2>9, WorkerConstants
  <2> QED
    BY <2>10 DEF used
<1> QED
  BY <1>1, WorkersInvariant, BudgetInvariant, PTL

LEMMA OldestGoesFirst ==
    ASSUME WInv, BudgetInv, samples = 0, Dispatch,
           NEW e \in Waiting, NEW f \in Waiting,
           epoch'[e].worker = "running", epoch'[f].worker = "queued",
           Round(e) = 0, Round(f) = 0,
           session[f[1]] = [life |-> "open", parked |-> FALSE],
           ~Older(e, f)
    PROVE  Share - CoresOf({x \in Running : x[1] = f[1]}) < MinWorkerThreads
<1>1. PICK ready, g, k : Dispatched(ready, g, k)
  BY DispatchGrants
<1>2. e \in Epochs /\ f \in Epochs /\ epoch[e].worker = "queued" /\ epoch[f].worker = "queued"
  BY DEF Waiting
<1>3. Granting(ready, g) /\ f \in ready
  <2>1. session[f[1]].parked = FALSE
    OBVIOUS
  <2> QED
    BY <1>1, <2>1 DEF Dispatched
<1>4. e \in ready /\ g[e] > 0 /\ g[f] = 0
  BY <1>1, <1>2, <1>3, GrantedRecords
<1>5. Older(f, e)
  <2>1. Dated /\ Apart /\ e # f
    BY DEF BudgetInv
  <2> QED
    BY <2>1, OneAfterAnother
<1> DEFINE beforeE == {h \in ready : ServedBefore(h, e)}
           beforeF == {h \in ready : ServedBefore(h, f)}
           mine(es) == {h \in es : h[1] = f[1]}
<1>6. \A h \in Waiting : /\ Round(h) \in Nat /\ epoch[h].created \in Nat /\ h[2] \in Int
                         /\ h \in Epochs
  BY Rounds DEF Waiting, WInv, TypeOK, EpochRecords, Epochs
<1>7. ready \in SUBSET Waiting
  BY <1>3 DEF Granting
<1>8. ASSUME NEW h \in beforeF PROVE h \in ready /\ Round(h) = 0 /\ Older(h, f)
  BY <1>6, <1>7 DEF ServedBefore
<1>9. beforeF \subseteq beforeE
  <2> SUFFICES ASSUME NEW h \in beforeF PROVE ServedBefore(h, e)
      OBVIOUS
  <2>1. h \in Waiting /\ Round(h) = 0 /\ Older(h, f)
    BY <1>7, <1>8
  <2>2. Older(h, e)
    BY <1>5, <1>6, <2>1 DEF Older
  <2> QED
    BY <2>1, <2>2 DEF ServedBefore
<1>10. mine(beforeF) = {}
  <2>1. \A h \in Waiting : h[1] = f[1] => ~Older(h, f)
    BY <1>2, Rounds
  <2> QED
    BY <1>7, <1>8, <2>1
<1> DEFINE budgetE == TotalBudget - CoresOf(Running) - Cardinality(Cores(g, beforeE))
           budgetF == TotalBudget - CoresOf(Running) - Cardinality(Cores(g, beforeF))
           shareF == Share - CoresOf(mine(Running)) - Cardinality(Cores(g, mine(beforeF)))
<1>11. /\ beforeE \in SUBSET Epochs /\ budgetE \in Int
       /\ MinWorkerThreads <= budgetE
  BY <1>3, <1>4, Grants
<1>12. /\ budgetF \in Int /\ shareF \in Int
       /\ budgetF < MinWorkerThreads \/ shareF < MinWorkerThreads
  BY <1>3, <1>4, Grants
<1>13. /\ Cardinality(Cores(g, beforeF)) \in Nat
       /\ Cardinality(Cores(g, beforeE)) \in Nat
       /\ Cardinality(Cores(g, beforeF)) <= Cardinality(Cores(g, beforeE))
  <2>1. Cores(g, beforeF) \subseteq Cores(g, beforeE)
    BY <1>9 DEF Cores
  <2>2. IsFiniteSet(beforeE)
    BY <1>11, SetsOfEpochs
  <2> QED
    BY <2>1, <2>2, FewerCores
<1>14. CoresOf(Running) \in Nat /\ CoresOf(mine(Running)) \in Nat
  <2>1. Running \in SUBSET Epochs /\ mine(Running) \in SUBSET Epochs
    BY DEF Running
  <2> QED
    BY <2>1, Numbers
<1>15. Cardinality(Cores(g, mine(beforeF))) = 0
  <2>1. Cores(g, mine(beforeF)) = {}
    BY <1>10 DEF Cores
  <2> QED
    BY <2>1, FS_EmptySet
<1>16. Share \in Int
  BY ShareIsANumber
<1>17. CoresOf(mine(Running)) = CoresOf({x \in Running : x[1] = f[1]})
  OBVIOUS
<1> HIDE DEF beforeE, beforeF, mine
<1>18. Share - CoresOf(mine(Running)) < MinWorkerThreads
  BY <1>11, <1>12, <1>13, <1>14, <1>15, <1>16, WorkerConstants
<1> QED
  BY <1>17, <1>18

\* The loop of _dispatch_waiting_route2_workers_locked goes through the records in
\* the order of creation: what is left for the oldest record of a user is no less
\* than what is left for a younger one, so it goes without only when the user's
\* share is used up.  Nothing but that loop starts a queued record.
THEOREM OldestIsServedFirst == Spec => OldestFirst
<1>1. ASSUME WInv, BudgetInv, [Next]_vars
      PROVE  [samples = 0 => \A e, f \in Waiting :
        (/\ epoch'[e].worker = "running" /\ epoch'[f].worker = "queued"
         /\ Round(e) = 0 /\ Round(f) = 0
         /\ session[f[1]] = [life |-> "open", parked |-> FALSE])
        => \/ Older(e, f)
           \/ Share - CoresOf({x \in Running : x[1] = f[1]}) < MinWorkerThreads]_vars
  <2> SUFFICES ASSUME Next, samples = 0, NEW e \in Waiting, NEW f \in Waiting,
                      epoch'[e].worker = "running", epoch'[f].worker = "queued",
                      Round(e) = 0, Round(f) = 0,
                      session[f[1]] = [life |-> "open", parked |-> FALSE]
               PROVE  \/ Older(e, f)
                      \/ Share - CoresOf({x \in Running : x[1] = f[1]}) < MinWorkerThreads
    BY <1>1
  <2>1. e \in Epochs /\ epoch[e].worker = "queued"
    BY DEF Waiting
  <2>2. ASSUME NEW s, Kept(s) PROVE FALSE
    BY <2>1, <2>2 DEF Kept, Follows, Served
  <2>3. ASSUME NEW d \in Epochs, Sample(d) PROVE FALSE
    <3>1. epoch' = [epoch EXCEPT ![d].worker = "over"]
      BY <2>3 DEF Sample
    <3>2. epoch \in [Epochs -> EpochRecords]
      BY <1>1 DEF WInv, TypeOK
    <3> QED
      BY <2>1, <3>1, <3>2 DEF EpochRecords
  <2>4. Dispatch
    BY <1>1, <2>2, <2>3, StepsAreKept
  <2> QED
    BY <1>1, <2>4, OldestGoesFirst
<1> QED
  BY <1>1, WorkersInvariant, BudgetInvariant, PTL DEF Spec, OldestFirst

-----------------------------------------------------------------------------
(* The poster queue: what is invariant *)

Held == {t \in Threads : generating[t] # NoKey}
Distinct(q) == \A i, j \in DOMAIN q : q[i] = q[j] => i = j
Started(k) == Exists(k) /\ jobs[k].started

\* The queue holds unstarted jobs, each once.
QueueSound ==
    /\ Distinct(queued)
    /\ \A i \in DOMAIN queued : Exists(queued[i]) /\ ~Started(queued[i])

\* What the executor still has to do is a started job, in one place only.
StartedSound ==
    /\ Distinct(submitted)
    /\ \A i \in DOMAIN submitted : Started(submitted[i])
    /\ \A t \in Held : /\ Started(generating[t])
                       /\ \A i \in DOMAIN submitted : submitted[i] # generating[t]

\* Every job of the executor has one of the workers the dispatcher counts.
Slots == Len(submitted) + Cardinality(Held) <= active

\* A thread generates the next poster only when it has answered everybody.
Answering == \A t \in Held : left[t] = {} /\ checked[t] = Nobody

QInv == /\ PosterTypeOK
        /\ QueueSound
        /\ StartedSound
        /\ SingleFlight
        /\ Slots
        /\ Answering
        /\ NoForgottenWaiter

-----------------------------------------------------------------------------
(* Sequences *)

LEMMA WithoutOne ==
    ASSUME NEW S, NEW q \in Seq(S), NEW i \in DOMAIN q
    PROVE  /\ Without(q, i) \in Seq(S)
           /\ Len(Without(q, i)) = Len(q) - 1
           /\ \A j \in DOMAIN Without(q, i) :
                  \E m \in DOMAIN q \ {i} : /\ Without(q, i)[j] = q[m]
                                            /\ m = IF j < i THEN j ELSE j + 1
<1> DEFINE front == SubSeq(q, 1, i - 1)
           back == SubSeq(q, i + 1, Len(q))
<1>1. /\ Len(q) \in Nat /\ DOMAIN q = 1..Len(q) /\ i \in 1..Len(q)
      /\ \A j \in 1..Len(q) : q[j] \in S
  OBVIOUS
<1>2. /\ front \in Seq(S) /\ Len(front) = i - 1
      /\ \A j \in 1..(i - 1) : front[j] = q[j]
  BY <1>1
<1>3. /\ back \in Seq(S) /\ Len(back) = Len(q) - i
      /\ \A j \in 1..(Len(q) - i) : back[j] = q[j + i]
  BY <1>1
<1> HIDE DEF front, back
<1>4. Without(q, i) = front \o back
  BY DEF Without, front, back
<1>5. /\ front \o back \in Seq(S)
      /\ Len(front \o back) = Len(q) - 1
      /\ \A j \in 1..(Len(q) - 1) :
             (front \o back)[j] = IF j < i THEN q[j] ELSE q[j + 1]
  <2>0. /\ front \o back \in Seq(S)
        /\ Len(front \o back) = Len(front) + Len(back)
        /\ \A j \in 1..(Len(front) + Len(back)) : (front \o back)[j] =
               IF j <= Len(front) THEN front[j] ELSE back[j - Len(front)]
    BY <1>2, <1>3, ConcatProperties
  <2>1. front \o back \in Seq(S) /\ Len(front \o back) = Len(q) - 1
    BY <1>1, <1>2, <1>3, <2>0
  <2>2. ASSUME NEW j \in 1..(Len(q) - 1)
        PROVE  (front \o back)[j] = IF j < i THEN q[j] ELSE q[j + 1]
    <3>1. CASE j < i
      BY <1>1, <1>2, <1>3, <2>0, <3>1
    <3>2. CASE ~(j < i)
      <4>1. (front \o back)[j] = back[j - (i - 1)]
        BY <1>1, <1>2, <1>3, <2>0, <3>2
      <4>2. j - (i - 1) \in 1..(Len(q) - i) /\ (j - (i - 1)) + i = j + 1
        BY <1>1, <3>2
      <4> QED
        BY <1>3, <3>2, <4>1, <4>2
    <3> QED
      BY <3>1, <3>2
  <2> QED
    BY <2>1, <2>2
<1>6. ASSUME NEW j \in 1..(Len(q) - 1)
      PROVE  \E m \in DOMAIN q \ {i} : /\ (front \o back)[j] = q[m]
                                       /\ m = IF j < i THEN j ELSE j + 1
  <2> DEFINE m == IF j < i THEN j ELSE j + 1
  <2>1. m \in DOMAIN q \ {i}
    BY <1>1
  <2> QED
    BY <1>5, <2>1
<1> QED
  BY <1>4, <1>5, <1>6

LEMMA WithoutKeepsApart ==
    ASSUME NEW S, NEW q \in Seq(S), NEW i \in DOMAIN q, Distinct(q)
    PROVE  /\ Distinct(Without(q, i))
           /\ \A j \in DOMAIN Without(q, i) : Without(q, i)[j] # q[i]
<1> DEFINE r == Without(q, i)
<1>1. /\ r \in Seq(S)
      /\ \A j \in DOMAIN r : \E m \in DOMAIN q \ {i} :
             r[j] = q[m] /\ m = IF j < i THEN j ELSE j + 1
  BY WithoutOne
<1> HIDE DEF r
<1>2. ASSUME NEW j \in DOMAIN r PROVE r[j] # q[i]
  BY <1>1 DEF Distinct
<1>3. ASSUME NEW j \in DOMAIN r, NEW k \in DOMAIN r, r[j] = r[k] PROVE j = k
  <2>1. j \in Nat /\ k \in Nat /\ i \in Nat
    BY <1>1
  <2>2. PICK m \in DOMAIN q \ {i} : r[j] = q[m] /\ m = IF j < i THEN j ELSE j + 1
    BY <1>1
  <2>3. PICK n \in DOMAIN q \ {i} : r[k] = q[n] /\ n = IF k < i THEN k ELSE k + 1
    BY <1>1
  <2>4. m = n
    BY <1>3, <2>2, <2>3 DEF Distinct
  <2> QED
    BY <2>1, <2>2, <2>3, <2>4
<1> QED
  BY <1>2, <1>3 DEF r, Distinct

LEMMA AppendKeepsApart ==
    ASSUME NEW S, NEW q \in Seq(S), NEW k \in S, Distinct(q),
           \A i \in DOMAIN q : q[i] # k
    PROVE  /\ Append(q, k) \in Seq(S)
           /\ Len(Append(q, k)) = Len(q) + 1
           /\ Distinct(Append(q, k))
           /\ \A i \in DOMAIN Append(q, k) :
                  Append(q, k)[i] = k \/ \E j \in DOMAIN q : Append(q, k)[i] = q[j]
<1> DEFINE r == Append(q, k)
<1>1. /\ r \in Seq(S) /\ Len(r) = Len(q) + 1 /\ Len(q) \in Nat
      /\ DOMAIN q = 1..Len(q) /\ DOMAIN r = 1..(Len(q) + 1)
      /\ r[Len(q) + 1] = k
      /\ \A i \in 1..Len(q) : r[i] = q[i]
  OBVIOUS
<1> HIDE DEF r
<1>2. \A i \in DOMAIN r : i = Len(q) + 1 \/ i \in DOMAIN q
  BY <1>1
<1>3. Distinct(r)
  BY <1>1, <1>2 DEF Distinct
<1>4. \A i \in DOMAIN r : r[i] = k \/ \E j \in DOMAIN q : r[i] = q[j]
  BY <1>1, <1>2
<1> QED
  BY <1>1, <1>3, <1>4 DEF r

LEMMA TailKeepsApart ==
    ASSUME NEW S, NEW q \in Seq(S), q # <<>>, Distinct(q)
    PROVE  /\ Tail(q) \in Seq(S) /\ Len(Tail(q)) = Len(q) - 1
           /\ Head(q) \in S /\ 1 \in DOMAIN q /\ Head(q) = q[1]
           /\ Distinct(Tail(q))
           /\ \A i \in DOMAIN Tail(q) : /\ Tail(q)[i] # Head(q)
                                        /\ \E j \in DOMAIN q : Tail(q)[i] = q[j]
<1> DEFINE r == Tail(q)
<1>1. /\ r \in Seq(S) /\ Len(r) = Len(q) - 1 /\ Len(q) \in Nat /\ Len(q) >= 1
      /\ DOMAIN q = 1..Len(q) /\ DOMAIN r = 1..(Len(q) - 1)
      /\ Head(q) = q[1] /\ q[1] \in S
      /\ \A i \in 1..(Len(q) - 1) : r[i] = q[i + 1]
  BY EmptySeq, HeadTailProperties
<1> HIDE DEF r
<1>2. \A i \in DOMAIN r : i + 1 \in DOMAIN q /\ i + 1 # 1 /\ i \in Nat
  BY <1>1
<1>3. 1 \in DOMAIN q
  BY <1>1
<1>4. ASSUME NEW i \in DOMAIN r PROVE r[i] # q[1] /\ \E j \in DOMAIN q : r[i] = q[j]
  BY <1>1, <1>2, <1>3 DEF Distinct
<1>5. ASSUME NEW i \in DOMAIN r, NEW j \in DOMAIN r, r[i] = r[j] PROVE i = j
  <2>1. i + 1 = j + 1
    BY <1>1, <1>2, <1>5 DEF Distinct
  <2> QED
    BY <1>2, <2>1
<1> QED
  BY <1>1, <1>3, <1>4, <1>5 DEF r, Distinct

-----------------------------------------------------------------------------
(* The initial state, and what the types say *)

LEMMA QueueStarts == PosterInit => QInv
<1> SUFFICES ASSUME PosterInit PROVE QInv
    OBVIOUS
<1> USE PosterConstants DEF PosterInit
<1>1. Held = {}
  BY DEF Held
<1>2. Cardinality(Held) = 0 /\ Cardinality(Threads) \in Nat
  BY <1>1, FS_EmptySet, FS_CardinalityType
<1>3. PosterTypeOK
  <2>1. active \in 0..Cardinality(Threads) /\ burst \in Nat
    BY <1>2
  <2>2. /\ queued \in Seq(Keys) /\ submitted \in Seq(Keys)
        /\ jobs \in [Keys -> Jobs \cup {NoJob}]
        /\ generating \in [Threads -> Keys \cup {NoKey}]
        /\ left \in [Threads -> SUBSET Waiters]
        /\ checked \in [Threads -> Waiters \cup {Nobody}]
    OBVIOUS
  <2> QED
    BY <2>1, <2>2 DEF PosterTypeOK
<1>4. DOMAIN queued = {} /\ DOMAIN submitted = {} /\ Len(submitted) = 0
  OBVIOUS
<1>5. QueueSound /\ StartedSound /\ Answering /\ Slots
  BY <1>1, <1>2, <1>4 DEF QueueSound, StartedSound, Answering, Slots, Distinct
<1>6. SingleFlight /\ NoForgottenWaiter
  BY DEF SingleFlight, NoForgottenWaiter
<1> QED
  BY <1>3, <1>5, <1>6 DEF QInv

LEMMA JobRecords ==
    ASSUME PosterTypeOK, NEW k \in Keys
    PROVE  /\ Exists(k) <=> jobs[k] \in Jobs
           /\ Exists(k) => /\ jobs[k].waiters \in SUBSET Waiters
                           /\ jobs[k].started \in BOOLEAN
                           /\ jobs[k].prewarm \in BOOLEAN
                           /\ jobs[k].priority \in {Requested, Normal, Prewarm}
<1>1. Exists(k) <=> jobs[k] \in Jobs
  BY NoJobIsNone DEF PosterTypeOK, Exists
<1> QED
  BY <1>1 DEF Jobs

LEMMA HeldIsFinite ==
    PosterTypeOK => /\ IsFiniteSet(Held) /\ Cardinality(Held) \in Nat
              /\ Cardinality(Held) <= Cardinality(Threads)
              /\ Cardinality(Threads) \in Nat
<1>1. IsFiniteSet(Threads) /\ Held \subseteq Threads
  BY PosterConstants DEF Held
<1> QED
  BY <1>1, FS_Subset, FS_CardinalityType

LEMMA NewJobs ==
    ASSUME NEW w \in Waiters, NEW p \in {Requested, Normal, Prewarm}
    PROVE  /\ NewJob(w, p) \in Jobs /\ NewJob(w, p) # NoJob
           /\ NewJob(w, p).waiters = {w} /\ ~NewJob(w, p).started
<1>1. NewJob(w, p) \in Jobs
  BY DEF NewJob, Jobs
<1>2. NewJob(w, p).waiters = {w} /\ ~NewJob(w, p).started
  BY DEF NewJob
<1> QED
  BY <1>1, <1>2, NoJobIsNone

\* What the executor and its threads have to do is untouched when no started
\* job changes its being or its being started.
LEMMA ExecutorStays ==
    ASSUME QInv, UNCHANGED <<submitted, generating, active, left, checked>>,
           \A k \in Keys : Started(k) => jobs'[k] # NoJob /\ jobs'[k].started
    PROVE  StartedSound' /\ SingleFlight' /\ Slots' /\ Answering'
<1>1. Held' = Held
  BY DEF Held
<1>2. \A i \in DOMAIN submitted : submitted[i] \in Keys
  BY DEF QInv, PosterTypeOK
<1>3. \A t \in Held : generating[t] \in Keys
  BY DEF QInv, PosterTypeOK, Held
<1>4. StartedSound'
  BY <1>1, <1>2, <1>3 DEF QInv, StartedSound, Distinct, Started, Exists
<1> QED
  BY <1>1, <1>4 DEF QInv, SingleFlight, Slots, Answering

\* A waiter that is no less pending and no less known stays remembered.
LEMMA WaitersRemembered ==
    ASSUME QInv, left' = left, checked' = checked, aborted' = aborted,
           \A w \in Waiters : waiter'[w] = "pending" =>
               \/ /\ jobs'[wanted'[w]] # NoJob
                  /\ w \in jobs'[wanted'[w]].waiters
               \/ /\ waiter[w] = "pending"
                  /\ wanted'[w] = wanted[w]
                  /\ Exists(wanted[w]) /\ w \in jobs[wanted[w]].waiters =>
                        /\ jobs'[wanted[w]] # NoJob
                        /\ w \in jobs'[wanted[w]].waiters
    PROVE  NoForgottenWaiter'
<1> SUFFICES ASSUME NEW w \in Waiters, waiter'[w] = "pending"
             PROVE  \/ jobs'[wanted'[w]] # NoJob /\ w \in jobs'[wanted'[w]].waiters
                    \/ \E t \in Threads : w \in left'[t] \/ w = checked'[t]
                    \/ aborted'
  BY DEF NoForgottenWaiter, Exists
<1> QED
  BY DEF QInv, NoForgottenWaiter, Exists

-----------------------------------------------------------------------------
(* Requests and cancellations *)

LEMMA JoinHolds ==
    ASSUME QInv, NEW w \in Waiters, NEW k \in Keys, NEW p \in {Requested, Normal, Prewarm},
           Join(w, k, p), wanted' = [wanted EXCEPT ![w] = k],
           UNCHANGED <<active, burst, interactive, stopping, dispatching, executor>>
    PROVE  QInv'
<1> DEFINE job == jobs[k]
           raised == ~job.started /\ p < job.priority
           joined == [job EXCEPT !.waiters = @ \cup {w},
                                 !.priority = IF raised THEN p ELSE @,
                                 !.prewarm = IF raised THEN @ /\ p = Prewarm ELSE @]
<1>1. PosterTypeOK /\ job \in Jobs
  BY JobRecords DEF QInv, Join
<1>2. joined \in Jobs /\ joined # NoJob
  <2>1. joined \in Jobs
    BY <1>1 DEF Jobs
  <2> QED
    BY <2>1, NoJobIsNone
<1>3. joined.waiters = job.waiters \cup {w} /\ joined.started = job.started
  BY <1>1 DEF Jobs
<1>4. /\ jobs' = [jobs EXCEPT ![k] = joined]
      /\ waiter' = [waiter EXCEPT ![w] = "pending"]
      /\ queued' = queued
  BY DEF Join
<1> HIDE DEF joined
<1>5. PosterTypeOK'
  BY <1>1, <1>2, <1>4 DEF PosterTypeOK, executor
<1>6. /\ jobs'[k] = joined
      /\ \A h \in Keys \ {k} : jobs'[h] = jobs[h]
  BY <1>1, <1>4 DEF PosterTypeOK
<1>7. job # NoJob
  BY <1>1, NoJobIsNone
<1>8. QueueSound'
  <2>1. \A i \in DOMAIN queued : queued[i] \in Keys
    BY <1>1 DEF PosterTypeOK
  <2> QED
    BY <1>2, <1>3, <1>4, <1>6, <1>7, <2>1
       DEF QInv, QueueSound, Distinct, Exists, Started
<1>9. StartedSound' /\ SingleFlight' /\ Slots' /\ Answering'
  BY <1>2, <1>3, <1>6, ExecutorStays DEF executor, Started, Exists
<1>10. NoForgottenWaiter'
  <2> SUFFICES ASSUME NEW v \in Waiters, waiter'[v] = "pending"
               PROVE  \/ /\ jobs'[wanted'[v]] # NoJob
                         /\ v \in jobs'[wanted'[v]].waiters
                      \/ /\ waiter[v] = "pending"
                         /\ wanted'[v] = wanted[v]
                         /\ Exists(wanted[v]) /\ v \in jobs[wanted[v]].waiters =>
                               /\ jobs'[wanted[v]] # NoJob
                               /\ v \in jobs'[wanted[v]].waiters
    BY WaitersRemembered DEF executor
  <2>1. CASE v = w
    BY <1>1, <1>2, <1>3, <1>6, <2>1 DEF PosterTypeOK
  <2>2. CASE v # w
    BY <1>1, <1>2, <1>3, <1>4, <1>6, <2>2 DEF PosterTypeOK, Exists
  <2> QED
    BY <2>1, <2>2
<1> QED
  BY <1>5, <1>8, <1>9, <1>10 DEF QInv

\* A new job for a poster that has none goes behind what is left of the queue,
\* and the job that gone names, if any, goes with those who waited for it.
Arrives(w, k, p, rest, gone) ==
    /\ rest \in Seq(Keys) /\ Distinct(rest)
    /\ \A i \in DOMAIN rest : rest[i] # gone /\ \E j \in DOMAIN queued : rest[i] = queued[j]
    /\ gone \in Keys => Exists(gone) /\ ~Started(gone) /\ jobs'[gone] = NoJob
    /\ ~Exists(k)
    /\ jobs' \in [Keys -> Jobs \cup {NoJob}]
    /\ jobs'[k] = NewJob(w, p)
    /\ \A h \in Keys \ {gone, k} : jobs'[h] = jobs[h]
    /\ queued' = Append(rest, k)
    /\ wanted' = [wanted EXCEPT ![w] = k]
    /\ waiter' \in [Waiters -> {"idle", "pending", "cancelled"}]
    /\ waiter'[w] = "pending"
    /\ \A v \in Waiters \ {w} : waiter'[v] = "pending" =>
           /\ waiter[v] = "pending"
           /\ gone \in Keys => v \notin jobs[gone].waiters

LEMMA NewJobHolds ==
    ASSUME QInv, NEW w \in Waiters, NEW k \in Keys, NEW p \in {Requested, Normal, Prewarm},
           NEW rest, NEW gone, Arrives(w, k, p, rest, gone),
           UNCHANGED <<active, burst, interactive, stopping, dispatching, executor>>
    PROVE  QInv'
<1> USE DEF Arrives
<1>1. PosterTypeOK /\ NewJob(w, p) \in Jobs /\ NewJob(w, p) # NoJob
      /\ NewJob(w, p).waiters = {w} /\ ~NewJob(w, p).started
  BY NewJobs DEF QInv
<1>2. \A i \in DOMAIN rest : rest[i] # k /\ rest[i] \in Keys
  BY DEF QInv, QueueSound
<1>3. /\ Append(rest, k) \in Seq(Keys)
      /\ Distinct(Append(rest, k))
      /\ \A i \in DOMAIN Append(rest, k) :
             \/ Append(rest, k)[i] = k
             \/ \E j \in DOMAIN rest : Append(rest, k)[i] = rest[j]
  BY <1>2, AppendKeepsApart
<1>4. /\ jobs'[k] = NewJob(w, p)
      /\ \A h \in Keys \ {gone, k} : jobs'[h] = jobs[h]
  OBVIOUS
<1>5. PosterTypeOK'
  BY <1>1, <1>3 DEF PosterTypeOK, executor
<1>6. QueueSound'
  <2> SUFFICES ASSUME NEW i \in DOMAIN queued'
               PROVE  jobs'[queued'[i]] # NoJob /\ ~jobs'[queued'[i]].started
    BY <1>3 DEF QueueSound, Exists, Started, Distinct
  <2>1. CASE queued'[i] = k
    BY <1>1, <1>4, <2>1
  <2>2. CASE queued'[i] # k
    <3>1. PICK j \in DOMAIN rest : queued'[i] = rest[j]
      BY <1>3, <2>2
    <3>2. rest[j] \in Keys \ {gone, k}
      BY <1>2, <3>1, <2>2
    <3>3. PICK m \in DOMAIN queued : rest[j] = queued[m]
      OBVIOUS
    <3> QED
      BY <1>4, <3>1, <3>2, <3>3 DEF QInv, QueueSound, Exists, Started
  <2> QED
    BY <2>1, <2>2
<1>7. StartedSound' /\ SingleFlight' /\ Slots' /\ Answering'
  <2>1. \A h \in Keys : Started(h) => h \in Keys \ {gone, k}
    BY DEF Started
  <2> QED
    BY <1>4, <2>1, ExecutorStays DEF executor, Started, Exists
<1>8. NoForgottenWaiter'
  <2> SUFFICES ASSUME NEW v \in Waiters, waiter'[v] = "pending"
               PROVE  \/ /\ jobs'[wanted'[v]] # NoJob
                         /\ v \in jobs'[wanted'[v]].waiters
                      \/ /\ waiter[v] = "pending"
                         /\ wanted'[v] = wanted[v]
                         /\ Exists(wanted[v]) /\ v \in jobs[wanted[v]].waiters =>
                               /\ jobs'[wanted[v]] # NoJob
                               /\ v \in jobs'[wanted[v]].waiters
    BY WaitersRemembered DEF executor
  <2>1. CASE v = w
    BY <1>1, <1>4, <2>1 DEF PosterTypeOK
  <2>2. CASE v # w
    <3>1. waiter[v] = "pending" /\ wanted'[v] = wanted[v] /\ wanted[v] \in Keys
      BY <1>1, <2>2 DEF PosterTypeOK
    <3>2. ASSUME Exists(wanted[v]), v \in jobs[wanted[v]].waiters
          PROVE  wanted[v] \in Keys \ {gone, k}
      BY <2>2, <3>1, <3>2
    <3> QED
      BY <1>4, <3>1, <3>2 DEF Exists
  <2> QED
    BY <2>1, <2>2
<1> QED
  BY <1>5, <1>6, <1>7, <1>8 DEF QInv

-----------------------------------------------------------------------------
(* Positions in the queue *)

LEMMA Least ==
    ASSUME NEW S \in SUBSET Nat, S # {}
    PROVE  FirstQueued(S) \in S /\ \A j \in S : FirstQueued(S) <= j
<1>1. PICK i \in S : \A j \in S : ~(<<j, i>> \in OpToRel(<, Nat))
  BY NatLessThanWellFounded, WFMin
<1>2. \A j \in S : i <= j
  <2> TAKE j \in S
  <2>1. <<j, i>> \notin OpToRel(<, Nat)
    BY <1>1
  <2>2. ~(j < i)
    BY <2>1 DEF OpToRel
  <2> QED
    BY <2>2
<1>3. \E h \in S : \A j \in S : h <= j
  BY <1>2
<1> QED
  BY <1>3 DEF FirstQueued

LEMMA Greatest ==
    ASSUME NEW n \in Nat, NEW S \in SUBSET (1..n), S # {}
    PROVE  LastQueued(S) \in S
<1> DEFINE R == {n - i : i \in S}
<1>1. R \in SUBSET Nat /\ R # {}
  <2>1. \A i \in S : n - i \in Nat
    OBVIOUS
  <2> QED
    BY <2>1
<1>2. PICK i \in S : FirstQueued(R) = n - i
  BY <1>1, Least
<1>3. \A j \in S : j <= i
  <2> TAKE j \in S
  <2>1. n - j \in R
    OBVIOUS
  <2>2. n - i <= n - j
    BY <1>1, <1>2, <2>1, Least
  <2>3. i \in Nat /\ j \in Nat
    OBVIOUS
  <2> QED
    BY <2>2, <2>3
<1>4. \E h \in S : \A j \in S : j <= h
  BY <1>3
<1> QED
  BY <1>4 DEF LastQueued

\* _take_next_job_locked finds an eligible job whenever there is one.
LEMMA NextJobIsEligible ==
    ASSUME QInv, Eligible # {}
    PROVE  NextJob \in Eligible /\ NextJob \in DOMAIN queued
<1> DEFINE normal == Eligible \cap QueuedAt(Normal)
           urgent == {i \in Eligible : \A j \in Eligible :
                        jobs[queued[i]].priority <= jobs[queued[j]].priority}
<1>1. Eligible \subseteq DOMAIN queued
  BY DEF Eligible, QueuedAt
<1>2. DOMAIN queued \in SUBSET Nat
  BY DEF QInv, PosterTypeOK
<1>3. \A i \in Eligible : jobs[queued[i]].priority \in {0, 1, 2}
  <2> TAKE i \in Eligible
  <2>1. queued[i] \in Keys /\ Exists(queued[i])
    BY <1>1 DEF QInv, PosterTypeOK, QueueSound
  <2> QED
    BY <2>1, JobRecords DEF QInv, Requested, Normal, Prewarm
<1>4. urgent # {}
  <2>1. CASE \E i \in Eligible : jobs[queued[i]].priority = 0
    BY <1>3, <2>1
  <2>2. CASE /\ ~\E i \in Eligible : jobs[queued[i]].priority = 0
             /\ \E i \in Eligible : jobs[queued[i]].priority = 1
    BY <1>3, <2>2
  <2>3. CASE \A i \in Eligible : jobs[queued[i]].priority = 2
    BY <2>3
  <2> QED
    BY <1>3, <2>1, <2>2, <2>3
<1>5. urgent \in SUBSET Nat /\ normal \in SUBSET Nat
  BY <1>1, <1>2
<1>6. CASE burst >= BurstLimit /\ normal # {}
  <2>1. FirstQueued(normal) \in normal
    BY <1>5, <1>6, Least
  <2>2. NextJob = FirstQueued(normal)
    BY <1>6 DEF NextJob
  <2> QED
    BY <1>1, <2>1, <2>2
<1>7. CASE ~(burst >= BurstLimit /\ normal # {})
  <2>1. FirstQueued(urgent) \in urgent
    BY <1>4, <1>5, Least
  <2>2. NextJob = FirstQueued(urgent)
    BY <1>7 DEF NextJob
  <2> QED
    BY <1>1, <2>1, <2>2
<1> QED
  BY <1>6, <1>7

LEMMA SubmitHolds ==
    ASSUME QInv, NEW w \in Waiters, NEW k \in Keys, NEW p \in {Requested, Normal, Prewarm},
           Submit(w, k, p)
    PROVE  QInv'
<1>1. /\ Join(w, k, p) \/ Enqueue(w, k, p) \/ EnqueueDropping(w, k, p)
      /\ wanted' = [wanted EXCEPT ![w] = k]
      /\ UNCHANGED <<active, burst, interactive, stopping, dispatching, executor>>
  BY DEF Submit
<1>2. CASE Join(w, k, p)
  BY <1>1, <1>2, JoinHolds
<1>3. CASE Enqueue(w, k, p)
  <2>1. /\ jobs' = [jobs EXCEPT ![k] = NewJob(w, p)]
        /\ queued' = Append(queued, k)
        /\ waiter' = [waiter EXCEPT ![w] = "pending"]
        /\ ~Exists(k)
    BY <1>3 DEF Enqueue
  <2>2. /\ jobs' \in [Keys -> Jobs \cup {NoJob}]
        /\ jobs'[k] = NewJob(w, p)
        /\ \A h \in Keys \ {NoKey, k} : jobs'[h] = jobs[h]
    BY <2>1, NewJobs DEF QInv, PosterTypeOK
  <2>3. waiter' \in [Waiters -> {"idle", "pending", "cancelled"}]
    BY <2>1 DEF QInv, PosterTypeOK
  <2>4. waiter'[w] = "pending" /\ \A v \in Waiters \ {w} : waiter'[v] = waiter[v]
    BY <2>1 DEF QInv, PosterTypeOK
  <2>5. /\ Distinct(queued) /\ queued \in Seq(Keys)
        /\ \A i \in DOMAIN queued : queued[i] # NoKey
        /\ \A i \in DOMAIN queued : \E j \in DOMAIN queued : queued[i] = queued[j]
        /\ NoKey \notin Keys
    BY PosterConstants DEF QInv, QueueSound, PosterTypeOK
  <2>6. Arrives(w, k, p, queued, NoKey)
    BY <1>1, <2>1, <2>2, <2>3, <2>4, <2>5 DEF Arrives
  <2> QED
    BY <1>1, <2>6, NewJobHolds
<1>4. CASE EnqueueDropping(w, k, p)
  <2> DEFINE i == LastQueued(QueuedAt(Prewarm))
             gone == queued[i]
             dropped == jobs[queued[i]].waiters
             rest == Without(queued, i)
  <2>1. /\ ~Exists(k)
        /\ QueuedAt(Prewarm) # {}
        /\ jobs' = [jobs EXCEPT ![queued[i]] = NoJob, ![k] = NewJob(w, p)]
        /\ queued' = Append(rest, k)
        /\ waiter' = [v \in Waiters |->
              IF v = w THEN "pending"
              ELSE IF v \in dropped /\ waiter[v] = "pending" THEN "idle"
              ELSE waiter[v]]
    BY <1>4 DEF EnqueueDropping
  <2>2. queued \in Seq(Keys) /\ Distinct(queued)
    BY DEF QInv, PosterTypeOK, QueueSound
  <2>3. i \in DOMAIN queued
    <3>1. Len(queued) \in Nat /\ QueuedAt(Prewarm) \in SUBSET (1..Len(queued))
      BY <2>2 DEF QueuedAt
    <3>2. i \in QueuedAt(Prewarm)
      BY <2>1, <3>1, Greatest
    <3> QED
      BY <3>2 DEF QueuedAt
  <2> HIDE DEF i
  <2>4. gone \in Keys /\ Exists(gone) /\ ~Started(gone)
    BY <2>2, <2>3 DEF QInv, QueueSound
  <2>5. /\ rest \in Seq(Keys) /\ Distinct(rest)
        /\ \A j \in DOMAIN rest : rest[j] # gone
        /\ \A j \in DOMAIN rest : \E m \in DOMAIN queued : rest[j] = queued[m]
    BY <2>2, <2>3, WithoutKeepsApart, WithoutOne
  <2>6. /\ jobs' \in [Keys -> Jobs \cup {NoJob}]
        /\ jobs'[k] = NewJob(w, p)
        /\ jobs'[gone] = NoJob
        /\ \A h \in Keys \ {gone, k} : jobs'[h] = jobs[h]
    BY <2>1, <2>4, NewJobs DEF QInv, PosterTypeOK
  <2>7. waiter' \in [Waiters -> {"idle", "pending", "cancelled"}]
    BY <2>1 DEF QInv, PosterTypeOK
  <2>8. waiter'[w] = "pending" /\ \A v \in Waiters \ {w} : waiter'[v] = "pending" =>
               /\ waiter[v] = "pending"
               /\ v \notin jobs[gone].waiters
    BY <2>1
  <2> HIDE DEF rest, gone
  <2>9. Arrives(w, k, p, rest, gone)
    BY <1>1, <2>1, <2>4, <2>5, <2>6, <2>7, <2>8 DEF Arrives
  <2> QED
    BY <1>1, <2>9, NewJobHolds
<1> QED
  BY <1>1, <1>2, <1>3, <1>4

LEMMA CancelHolds ==
    ASSUME QInv, NEW w \in Waiters, Cancel(w)
    PROVE  QInv'
<1>1. PosterTypeOK'
  BY DEF QInv, PosterTypeOK, Cancel, manager, executor
<1>2. QueueSound'
  BY DEF QInv, QueueSound, Cancel, manager, Exists, Started
<1>3. StartedSound' /\ SingleFlight' /\ Slots' /\ Answering'
  BY ExecutorStays DEF Cancel, manager, executor, Started, Exists
<1>4. \A v \in Waiters : waiter'[v] = "pending" => waiter[v] = "pending"
  BY DEF QInv, PosterTypeOK, Cancel
<1>5. NoForgottenWaiter'
  BY <1>4, WaitersRemembered DEF Cancel, manager, executor, Exists
<1> QED
  BY <1>1, <1>2, <1>3, <1>5 DEF QInv

\* _handle_waiter_done takes an unstarted job nobody waits for out of the queue.
LEMMA WaiterDoneHolds ==
    ASSUME QInv, NEW w \in Waiters, WaiterDone(w)
    PROVE  QInv'
<1> DEFINE k == wanted[w]
           job == jobs[k]
           ended == ~job.started /\ job.waiters \subseteq {w} /\ ~job.prewarm
           rest == IF k \in Queued THEN Without(queued, IndexOf(k)) ELSE queued
<1>1. /\ PosterTypeOK /\ k \in Keys
      /\ queued \in Seq(Keys) /\ Distinct(queued)
      /\ waiter' = [waiter EXCEPT ![w] = "idle"]
      /\ UNCHANGED <<active, burst, interactive, stopping, dispatching, executor, wanted>>
  BY DEF QInv, PosterTypeOK, QueueSound, WaiterDone
<1>2. /\ waiter' \in [Waiters -> {"idle", "pending", "cancelled"}]
      /\ \A v \in Waiters : waiter'[v] = "pending" => v # w /\ waiter[v] = "pending"
  BY <1>1 DEF PosterTypeOK
<1>3. CASE ~Exists(k)
  <2>1. UNCHANGED <<jobs, queued>>
    BY <1>3 DEF WaiterDone
  <2>2. PosterTypeOK'
    BY <1>1, <1>2, <2>1 DEF PosterTypeOK, executor
  <2>3. QueueSound'
    BY <2>1 DEF QInv, QueueSound, Exists, Started
  <2>4. StartedSound' /\ SingleFlight' /\ Slots' /\ Answering'
    BY <1>1, <2>1, ExecutorStays DEF executor, Started, Exists
  <2>5. NoForgottenWaiter'
    BY <1>1, <1>2, <2>1, WaitersRemembered DEF executor, Exists
  <2> QED
    BY <2>2, <2>3, <2>4, <2>5 DEF QInv
<1>4. CASE Exists(k) /\ ended
  <2>1. jobs' = [jobs EXCEPT ![k] = NoJob] /\ queued' = rest
    BY <1>4 DEF WaiterDone
  <2>2. /\ rest \in Seq(Keys) /\ Distinct(rest)
        /\ \A i \in DOMAIN rest :
               rest[i] # k /\ \E j \in DOMAIN queued : rest[i] = queued[j]
    <3>1. CASE k \in Queued
      <4>1. IndexOf(k) \in DOMAIN queued /\ queued[IndexOf(k)] = k
        BY <3>1 DEF Queued, IndexOf
      <4>2. PICK i \in DOMAIN queued : queued[i] = k /\ rest = Without(queued, i)
        BY <3>1, <4>1
      <4> HIDE DEF k, rest
      <4>3. rest \in Seq(Keys) /\ Distinct(rest)
        BY <1>1, <4>2, WithoutOne, WithoutKeepsApart
      <4>4. \A j \in DOMAIN rest : rest[j] # k
        BY <1>1, <4>2, WithoutKeepsApart
      <4>5. \A j \in DOMAIN rest : \E m \in DOMAIN queued : rest[j] = queued[m]
        BY <1>1, <4>2, WithoutOne
      <4> QED
        BY <4>3, <4>4, <4>5
    <3>2. CASE k \notin Queued
      BY <1>1, <3>2 DEF Queued
    <3> QED
      BY <3>1, <3>2
  <2> HIDE DEF rest
  <2>3. /\ jobs' \in [Keys -> Jobs \cup {NoJob}]
        /\ \A h \in Keys \ {k} : jobs'[h] = jobs[h]
    BY <1>1, <2>1 DEF PosterTypeOK
  <2>4. PosterTypeOK'
    BY <1>1, <1>2, <2>1, <2>2, <2>3 DEF PosterTypeOK, executor
  <2>5. ~Started(k)
    BY <1>4 DEF Started
  <2>6. QueueSound'
    <3>1. \A i \in DOMAIN rest : rest[i] \in Keys \ {k}
      BY <2>2
    <3> QED
      BY <2>1, <2>2, <2>3, <3>1 DEF QInv, QueueSound, Exists, Started
  <2>7. StartedSound' /\ SingleFlight' /\ Slots' /\ Answering'
    <3>1. \A h \in Keys : Started(h) => jobs'[h] # NoJob /\ jobs'[h].started
      BY <2>3, <2>5 DEF Started, Exists
    <3> QED
      BY <1>1, <3>1, ExecutorStays DEF executor
  <2>8. NoForgottenWaiter'
    <3> SUFFICES ASSUME NEW v \in Waiters, waiter'[v] = "pending",
                        Exists(wanted[v]), v \in jobs[wanted[v]].waiters
                 PROVE  /\ jobs'[wanted[v]] # NoJob
                        /\ v \in jobs'[wanted[v]].waiters
      BY <1>1, <1>2, WaitersRemembered DEF executor
    <3>1. v # w /\ wanted[v] \in Keys
      BY <1>1, <1>2 DEF PosterTypeOK
    <3>2. wanted[v] # k
      BY <1>4, <3>1
    <3> QED
      BY <2>3, <3>1, <3>2 DEF Exists
  <2> QED
    BY <2>4, <2>6, <2>7, <2>8 DEF QInv
<1>5. CASE Exists(k) /\ ~ended
  <2> DEFINE smaller == [job EXCEPT !.waiters = @ \ {w}]
  <2>1. jobs' = [jobs EXCEPT ![k] = smaller] /\ queued' = queued
    BY <1>5 DEF WaiterDone
  <2>2. job \in Jobs
    BY <1>1, <1>5, JobRecords
  <2>3. smaller \in Jobs
    BY <2>2 DEF Jobs
  <2>4. /\ smaller # NoJob /\ smaller.started = job.started
        /\ smaller.waiters = job.waiters \ {w}
    BY <2>2, <2>3, NoJobIsNone DEF Jobs
  <2> HIDE DEF smaller
  <2>5. /\ jobs' \in [Keys -> Jobs \cup {NoJob}]
        /\ jobs'[k] = smaller
        /\ \A h \in Keys \ {k} : jobs'[h] = jobs[h]
    BY <1>1, <2>1, <2>3 DEF PosterTypeOK
  <2>6. PosterTypeOK'
    BY <1>1, <1>2, <2>1, <2>5 DEF PosterTypeOK, executor
  <2>7. \A h \in Keys : /\ Started(h) => jobs'[h] # NoJob /\ jobs'[h].started
                        /\ Exists(h) => jobs'[h] # NoJob
                        /\ jobs'[h] # NoJob /\ jobs'[h].started => Started(h)
    BY <1>5, <2>4, <2>5 DEF Started, Exists
  <2>8. QueueSound'
    <3>1. \A i \in DOMAIN queued : queued[i] \in Keys
      BY <1>1
    <3> QED
      BY <2>1, <2>7, <3>1 DEF QInv, QueueSound, Distinct, Exists, Started
  <2>9. StartedSound' /\ SingleFlight' /\ Slots' /\ Answering'
    BY <1>1, <2>7, ExecutorStays DEF executor
  <2>10. NoForgottenWaiter'
    <3> SUFFICES ASSUME NEW v \in Waiters, waiter'[v] = "pending",
                        Exists(wanted[v]), v \in jobs[wanted[v]].waiters
                 PROVE  /\ jobs'[wanted[v]] # NoJob
                        /\ v \in jobs'[wanted[v]].waiters
      BY <1>1, <1>2, WaitersRemembered DEF executor
    <3>1. v # w /\ wanted[v] \in Keys
      BY <1>1, <1>2 DEF PosterTypeOK
    <3> QED
      BY <2>4, <2>5, <3>1 DEF Exists
  <2> QED
    BY <2>6, <2>8, <2>9, <2>10 DEF QInv
<1> QED
  BY <1>3, <1>4, <1>5

-----------------------------------------------------------------------------
(* The dispatcher and the executor *)

LEMMA DispatcherHolds ==
    ASSUME QInv, DispatchJob
    PROVE  QInv'
<1> DEFINE i == NextJob
           k == queued[i]
           rest == Without(queued, i)
           begun == [jobs[k] EXCEPT !.started = TRUE]
<1>1. /\ Eligible # {} /\ active < Cardinality(Threads) /\ active' = active + 1
      /\ queued' = rest
      /\ jobs' = [jobs EXCEPT ![k] = begun]
      /\ burst' = BurstAfter(jobs[k].priority)
      /\ submitted' = IF executorUp THEN Append(submitted, k) ELSE submitted
      /\ dispatching' = executorUp
      /\ UNCHANGED <<interactive, stopping, executorUp, generating, left, checked,
                     aborted, futures>>
  BY DEF DispatchJob
<1>2. i \in DOMAIN queued
  BY <1>1, NextJobIsEligible
<1> HIDE DEF i
<1>3. /\ PosterTypeOK /\ queued \in Seq(Keys) /\ Distinct(queued)
      /\ submitted \in Seq(Keys) /\ Distinct(submitted)
      /\ k \in Keys /\ Exists(k) /\ ~Started(k)
  BY <1>2 DEF QInv, PosterTypeOK, QueueSound, StartedSound
<1>4. /\ rest \in Seq(Keys) /\ Distinct(rest)
      /\ \A j \in DOMAIN rest :
             rest[j] # k /\ \E m \in DOMAIN queued : rest[j] = queued[m]
  BY <1>2, <1>3, WithoutOne, WithoutKeepsApart
<1>5. jobs[k] \in Jobs
  BY <1>3, JobRecords
<1>6. begun \in Jobs
  BY <1>5 DEF Jobs
<1>7. begun # NoJob /\ begun.started /\ begun.waiters = jobs[k].waiters
  BY <1>5, <1>6, NoJobIsNone DEF Jobs
<1> HIDE DEF begun, rest, k
<1>8. /\ jobs' \in [Keys -> Jobs \cup {NoJob}]
      /\ jobs'[k] = begun
      /\ \A h \in Keys \ {k} : jobs'[h] = jobs[h]
  BY <1>1, <1>3, <1>6 DEF PosterTypeOK
<1>9. \A j \in DOMAIN submitted : submitted[j] # k /\ submitted[j] \in Keys /\ Started(submitted[j])
  BY <1>3 DEF QInv, StartedSound
<1>10. /\ Append(submitted, k) \in Seq(Keys)
       /\ Len(Append(submitted, k)) = Len(submitted) + 1
       /\ Distinct(Append(submitted, k))
       /\ \A j \in DOMAIN Append(submitted, k) :
              \/ Append(submitted, k)[j] = k
              \/ \E m \in DOMAIN submitted : Append(submitted, k)[j] = submitted[m]
  BY <1>3, <1>9, AppendKeepsApart
<1>11. /\ submitted' \in Seq(Keys) /\ Distinct(submitted')
       /\ Len(submitted') <= Len(submitted) + 1 /\ Len(submitted') \in Nat
       /\ \A j \in DOMAIN submitted' :
              \/ submitted'[j] = k
              \/ \E m \in DOMAIN submitted : submitted'[j] = submitted[m]
  <2>1. CASE executorUp
    BY <1>1, <1>3, <1>10, <2>1
  <2>2. CASE ~executorUp
    <3>1. submitted' = submitted /\ Len(submitted) \in Nat
      BY <1>1, <1>3, <2>2
    <3> QED
      BY <1>3, <3>1
  <2> QED
    BY <2>1, <2>2
<1>12. \A h \in Keys : /\ Started(h) \/ h = k => jobs'[h] # NoJob /\ jobs'[h].started
                       /\ h # k /\ Exists(h) /\ ~Started(h)
                             => jobs'[h] # NoJob /\ ~jobs'[h].started
  BY <1>7, <1>8 DEF Started, Exists
<1>13. PosterTypeOK'
  <2>1. active' \in 0..Cardinality(Threads)
    BY <1>1, <1>3, HeldIsFinite DEF PosterTypeOK
  <2>2. burst' \in Nat
    BY <1>1, <1>3 DEF BurstAfter, PosterTypeOK
  <2> QED
    BY <1>1, <1>3, <1>4, <1>8, <1>11, <2>1, <2>2 DEF PosterTypeOK, futures
<1>14. QueueSound'
  <2>1. \A j \in DOMAIN rest : rest[j] \in Keys /\ rest[j] # k
    BY <1>4
  <2> QED
    BY <1>1, <1>4, <1>12, <2>1 DEF QInv, QueueSound, Exists, Started
<1>15. Held' = Held
  BY <1>1 DEF Held
<1>16. StartedSound'
  <2>1. ASSUME NEW j \in DOMAIN submitted'
        PROVE  jobs'[submitted'[j]] # NoJob /\ jobs'[submitted'[j]].started
    BY <1>3, <1>9, <1>11, <1>12
  <2>2. ASSUME NEW t \in Held
        PROVE  /\ jobs'[generating[t]] # NoJob /\ jobs'[generating[t]].started
               /\ \A j \in DOMAIN submitted' : submitted'[j] # generating[t]
    <3>1. generating[t] \in Keys /\ Started(generating[t]) /\ generating[t] # k
      BY <1>3 DEF QInv, PosterTypeOK, StartedSound, Held
    <3>2. \A m \in DOMAIN submitted : submitted[m] # generating[t]
      BY DEF QInv, StartedSound
    <3> QED
      BY <1>11, <1>12, <3>1, <3>2
  <2> QED
    BY <1>1, <1>11, <1>15, <2>1, <2>2 DEF StartedSound, Exists, Started
<1>17. Slots'
  <2>1. Len(submitted) \in Nat /\ Cardinality(Held) \in Nat /\ active \in Nat
    BY <1>3, HeldIsFinite DEF PosterTypeOK
  <2>2. Len(submitted) + Cardinality(Held) <= active
    BY DEF QInv, Slots
  <2> QED
    BY <1>1, <1>11, <1>15, <2>1, <2>2 DEF Slots
<1>18. SingleFlight' /\ Answering'
  BY <1>1, <1>15 DEF QInv, SingleFlight, Answering
<1>19. NoForgottenWaiter'
  <2> SUFFICES ASSUME NEW v \in Waiters, waiter'[v] = "pending",
                      Exists(wanted[v]), v \in jobs[wanted[v]].waiters
               PROVE  /\ jobs'[wanted[v]] # NoJob
                      /\ v \in jobs'[wanted[v]].waiters
    BY <1>1, WaitersRemembered DEF futures
  <2>1. wanted[v] \in Keys
    BY <1>3 DEF PosterTypeOK
  <2> QED
    BY <1>7, <1>8, <2>1 DEF Exists
<1> QED
  BY <1>13, <1>14, <1>16, <1>17, <1>18, <1>19 DEF QInv

LEMMA GenerateHolds ==
    ASSUME QInv, NEW t \in Threads, Generate(t)
    PROVE  QInv'
<1> DEFINE k == Head(submitted)
<1>1. /\ generating[t] = NoKey /\ left[t] = {} /\ checked[t] = Nobody
      /\ submitted # <<>>
      /\ generating' = [generating EXCEPT ![t] = k]
      /\ submitted' = Tail(submitted)
      /\ UNCHANGED <<manager, dispatching, executorUp, left, checked, aborted, futures>>
  BY DEF Generate, Free
<1>2. PosterTypeOK /\ submitted \in Seq(Keys) /\ Distinct(submitted)
  BY DEF QInv, PosterTypeOK, StartedSound
<1>3. /\ submitted' \in Seq(Keys) /\ Len(submitted') = Len(submitted) - 1
      /\ Distinct(submitted')
  BY <1>1, <1>2, TailKeepsApart
<1>4. k \in Keys /\ 1 \in DOMAIN submitted /\ k = submitted[1]
  BY <1>1, <1>2, TailKeepsApart
<1>5. \A i \in DOMAIN submitted' : /\ submitted'[i] # k
                                   /\ \E j \in DOMAIN submitted : submitted'[i] = submitted[j]
  BY <1>1, <1>2, TailKeepsApart
<1>6. k # NoKey /\ Started(k) /\ \A u \in Held : generating[u] # k
  BY <1>4, PosterConstants DEF QInv, StartedSound
<1> HIDE DEF k
<1>7. /\ generating' \in [Threads -> Keys \cup {NoKey}]
      /\ generating'[t] = k
      /\ \A u \in Threads \ {t} : generating'[u] = generating[u]
  BY <1>1, <1>2, <1>4 DEF PosterTypeOK
<1>8. Held' = Held \cup {t} /\ t \notin Held
  BY <1>1, <1>6, <1>7 DEF Held
<1>9. PosterTypeOK'
  BY <1>1, <1>2, <1>3, <1>7 DEF PosterTypeOK, manager, futures
<1>10. QueueSound'
  BY <1>1 DEF QInv, QueueSound, Exists, Started, manager
<1>11. StartedSound'
  <2>1. ASSUME NEW i \in DOMAIN submitted' PROVE Started(submitted'[i])
    BY <1>5 DEF QInv, StartedSound
  <2>2. ASSUME NEW u \in Held'
        PROVE  /\ Started(generating'[u])
               /\ \A i \in DOMAIN submitted' : submitted'[i] # generating'[u]
    <3>1. CASE u = t
      BY <1>5, <1>6, <1>7, <3>1
    <3>2. CASE u # t
      <4>1. u \in Held /\ generating'[u] = generating[u]
        BY <1>7, <1>8, <3>2 DEF Held
      <4> QED
        BY <1>5, <4>1 DEF QInv, StartedSound
    <3> QED
      BY <3>1, <3>2
  <2> QED
    BY <1>1, <1>3, <2>1, <2>2 DEF StartedSound, Started, Exists, manager
<1>12. SingleFlight'
  BY <1>6, <1>7 DEF QInv, SingleFlight, Held
<1>13. Slots'
  <2>1. /\ Len(submitted) \in Nat /\ Cardinality(Held) \in Nat /\ active \in Nat
        /\ IsFiniteSet(Held)
    BY <1>2, HeldIsFinite DEF PosterTypeOK
  <2>2. Len(submitted) + Cardinality(Held) <= active
    BY DEF QInv, Slots
  <2>3. Cardinality(Held \cup {t}) = Cardinality(Held) + 1
    BY <1>8, <2>1, FS_AddElement
  <2> QED
    BY <1>1, <1>3, <1>8, <2>1, <2>2, <2>3 DEF Slots, manager
<1>14. Answering'
  BY <1>1, <1>8 DEF QInv, Answering
<1>15. NoForgottenWaiter'
  BY <1>1, WaitersRemembered DEF manager, futures, Exists
<1> QED
  BY <1>9, <1>10, <1>11, <1>12, <1>13, <1>14, <1>15 DEF QInv

\* _finish_job gives the worker back and hands the thread everybody who waits.
LEMMA FinishJobHolds ==
    ASSUME QInv, NEW t \in Threads, FinishJob(t)
    PROVE  QInv'
<1> DEFINE k == generating[t]
<1>1. /\ k # NoKey
      /\ generating' = [generating EXCEPT ![t] = NoKey]
      /\ left' = [left EXCEPT ![t] = jobs[k].waiters]
      /\ jobs' = [jobs EXCEPT ![k] = NoJob]
      /\ active' = active - 1
      /\ UNCHANGED <<queued, burst, interactive, stopping, dispatching,
                     executorUp, submitted, checked, aborted, futures>>
  BY DEF FinishJob
<1>2. PosterTypeOK /\ t \in Held /\ k \in Keys /\ Started(k)
  BY <1>1 DEF QInv, PosterTypeOK, StartedSound, Held
<1>3. /\ \A i \in DOMAIN submitted : submitted[i] # k /\ submitted[i] \in Keys
      /\ \A i \in DOMAIN queued : queued[i] # k /\ queued[i] \in Keys
      /\ \A u \in Held \ {t} : generating[u] # k /\ generating[u] \in Keys
  BY <1>1, <1>2 DEF QInv, StartedSound, QueueSound, SingleFlight, Held, PosterTypeOK
<1>4. jobs[k].waiters \in SUBSET Waiters
  BY <1>2, JobRecords DEF Started
<1>5. /\ generating' \in [Threads -> Keys \cup {NoKey}]
      /\ generating'[t] = NoKey
      /\ \A u \in Threads \ {t} : generating'[u] = generating[u]
      /\ left' \in [Threads -> SUBSET Waiters]
      /\ left'[t] = jobs[k].waiters
      /\ \A u \in Threads \ {t} : left'[u] = left[u]
      /\ jobs' \in [Keys -> Jobs \cup {NoJob}]
      /\ \A h \in Keys \ {k} : jobs'[h] = jobs[h]
  BY <1>1, <1>2, <1>4 DEF PosterTypeOK
<1>6. Held' = Held \ {t}
  BY <1>1, <1>5 DEF Held
<1> HIDE DEF k
<1>7. /\ Len(submitted) \in Nat /\ Cardinality(Held) \in Nat /\ IsFiniteSet(Held)
      /\ active \in 0..Cardinality(Threads) /\ Cardinality(Threads) \in Nat
      /\ Len(submitted) + Cardinality(Held) <= active
      /\ Cardinality(Held \ {t}) = Cardinality(Held) - 1
      /\ Cardinality(Held \ {t}) \in Nat
  <2>1. IsFiniteSet(Held) /\ Cardinality(Held) \in Nat /\ Cardinality(Threads) \in Nat
    BY <1>2, HeldIsFinite
  <2>2. Cardinality(Held \ {t}) = Cardinality(Held) - 1 /\ IsFiniteSet(Held \ {t})
    BY <1>2, <2>1, FS_RemoveElement
  <2> QED
    BY <1>2, <2>1, <2>2, FS_CardinalityType DEF QInv, Slots, PosterTypeOK
<1>8. PosterTypeOK'
  <2>1. active' \in 0..Cardinality(Threads)
    BY <1>1, <1>7
  <2> QED
    BY <1>1, <1>2, <1>5, <2>1 DEF PosterTypeOK, futures
<1>9. QueueSound'
  BY <1>1, <1>3, <1>5 DEF QInv, QueueSound, Exists, Started
<1>10. StartedSound'
  <2>1. ASSUME NEW i \in DOMAIN submitted
        PROVE  jobs'[submitted[i]] # NoJob /\ jobs'[submitted[i]].started
    BY <1>3, <1>5 DEF QInv, StartedSound, Started, Exists
  <2>2. ASSUME NEW u \in Held \ {t}
        PROVE  /\ jobs'[generating'[u]] # NoJob /\ jobs'[generating'[u]].started
               /\ \A i \in DOMAIN submitted : submitted[i] # generating'[u]
    <3>1. generating'[u] = generating[u]
      BY <1>5 DEF Held
    <3> QED
      BY <1>3, <1>5, <3>1 DEF QInv, StartedSound, Started, Exists
  <2> QED
    BY <1>1, <1>6, <2>1, <2>2 DEF QInv, StartedSound, Started, Exists
<1>11. SingleFlight'
  BY <1>5 DEF QInv, SingleFlight
<1>12. Slots'
  BY <1>1, <1>6, <1>7 DEF Slots
<1>13. Answering'
  BY <1>1, <1>5, <1>6 DEF QInv, Answering, Held
<1>14. NoForgottenWaiter'
  <2> SUFFICES ASSUME NEW w \in Waiters, waiter[w] = "pending", ~aborted
               PROVE  \/ jobs'[wanted[w]] # NoJob /\ w \in jobs'[wanted[w]].waiters
                      \/ \E u \in Threads : w \in left'[u] \/ w = checked[u]
    BY <1>1 DEF NoForgottenWaiter, Exists, futures
  <2>1. wanted[w] \in Keys
    BY <1>2 DEF PosterTypeOK
  <2>2. CASE Exists(wanted[w]) /\ w \in jobs[wanted[w]].waiters
    <3>1. CASE wanted[w] = k
      BY <1>5, <2>2, <3>1
    <3>2. CASE wanted[w] # k
      BY <1>5, <2>1, <2>2, <3>2 DEF Exists
    <3> QED
      BY <3>1, <3>2
  <2>3. ASSUME NEW u \in Threads, w \in left[u] \/ w = checked[u]
        PROVE  w \in left'[u] \/ w = checked[u]
    <3>1. CASE u = t
      <4>1. left[t] = {} /\ checked[t] = Nobody /\ w # Nobody
        BY <1>2, PosterConstants DEF QInv, Answering, Waiters
      <4> QED
        BY <2>3, <3>1, <4>1
    <3>2. CASE u # t
      BY <1>5, <2>3, <3>2
    <3> QED
      BY <3>1, <3>2
  <2> QED
    BY <2>2, <2>3 DEF QInv, NoForgottenWaiter
<1> QED
  BY <1>8, <1>9, <1>10, <1>11, <1>12, <1>13, <1>14 DEF QInv

\* The steps of a thread that answers change what it has left, what it looks at
\* and one future.
LEMMA AnswersHold ==
    ASSUME QInv, NEW t \in Threads, CheckWaiter(t) \/ AnswerWaiter(t)
    PROVE  QInv'
<1>1. /\ UNCHANGED <<manager, dispatching, executorUp, submitted, generating, wanted>>
      /\ PosterTypeOK
  BY DEF QInv, CheckWaiter, AnswerWaiter, futures
<1>2. t \notin Held
  BY PosterConstants DEF QInv, Answering, CheckWaiter, AnswerWaiter
<1>3. PosterTypeOK'
  <2>1. CASE CheckWaiter(t)
    <3>1. PICK w \in left[t] :
            /\ left' = [left EXCEPT ![t] = @ \ {w}]
            /\ checked' = [checked EXCEPT ![t] =
                              IF waiter[w] = "pending" THEN w ELSE Nobody]
      BY <2>1 DEF CheckWaiter
    <3>2. w \in Waiters
      BY <1>1 DEF PosterTypeOK
    <3>3. aborted' = aborted /\ waiter' = waiter
      BY <2>1 DEF CheckWaiter, futures
    <3>4. left' \in [Threads -> SUBSET Waiters] /\ checked' \in [Threads -> Waiters \cup {Nobody}]
      BY <1>1, <3>1, <3>2 DEF PosterTypeOK
    <3> QED
      BY <1>1, <3>3, <3>4 DEF PosterTypeOK, manager
  <2>2. CASE AnswerWaiter(t)
    <3>1. /\ left' \in [Threads -> SUBSET Waiters]
          /\ checked' \in [Threads -> Waiters \cup {Nobody}]
          /\ waiter' \in [Waiters -> {"idle", "pending", "cancelled"}]
          /\ aborted' \in BOOLEAN
      BY <1>1, <2>2 DEF AnswerWaiter, PosterTypeOK
    <3> QED
      BY <1>1, <3>1 DEF PosterTypeOK, manager
  <2> QED
    BY <2>1, <2>2
<1>4. QueueSound' /\ StartedSound' /\ SingleFlight' /\ Slots' /\ Held' = Held
  BY <1>1 DEF QInv, QueueSound, StartedSound, SingleFlight, Slots, Exists, Started,
              Held, Distinct, manager
<1>5. \A u \in Threads \ {t} : left'[u] = left[u] /\ checked'[u] = checked[u]
  BY <1>1 DEF CheckWaiter, AnswerWaiter, PosterTypeOK
<1>6. Answering'
  <2>1. \A u \in Held : u \in Threads \ {t}
    BY <1>2 DEF Held
  <2> QED
    BY <1>4, <1>5, <2>1 DEF QInv, Answering
<1>7. NoForgottenWaiter'
  <2> SUFFICES ASSUME NEW v \in Waiters, waiter'[v] = "pending", ~aborted',
                      ~(Exists(wanted[v]) /\ v \in jobs[wanted[v]].waiters)
               PROVE  \E u \in Threads : v \in left'[u] \/ v = checked'[u]
    BY <1>1 DEF NoForgottenWaiter, Exists, manager
  <2>1. waiter[v] = "pending" /\ ~aborted
    BY <1>1 DEF CheckWaiter, AnswerWaiter, futures, PosterTypeOK
  <2>2. PICK u \in Threads : v \in left[u] \/ v = checked[u]
    BY <2>1 DEF QInv, NoForgottenWaiter
  <2>3. CASE u # t
    BY <1>5, <2>2, <2>3
  <2>4. CASE u = t /\ CheckWaiter(t)
    <3>1. v \in left[t]
      BY <2>2, <2>4, PosterConstants DEF CheckWaiter, Waiters
    <3>2. PICK w \in left[t] :
            /\ left' = [left EXCEPT ![t] = @ \ {w}]
            /\ checked' = [checked EXCEPT ![t] =
                              IF waiter[w] = "pending" THEN w ELSE Nobody]
      BY <2>4 DEF CheckWaiter
    <3>3. CASE v = w
      BY <1>1, <2>1, <3>2, <3>3 DEF PosterTypeOK
    <3>4. CASE v # w
      BY <1>1, <3>1, <3>2, <3>4 DEF PosterTypeOK
    <3> QED
      BY <3>3, <3>4
  <2>5. CASE u = t /\ AnswerWaiter(t)
    <3>1. waiter[checked[t]] = "pending" /\ waiter' = [waiter EXCEPT ![checked[t]] = "idle"]
          /\ left' = left
      BY <2>1, <2>5 DEF AnswerWaiter
    <3>2. v # checked[t]
      BY <1>1, <3>1 DEF PosterTypeOK
    <3> QED
      BY <2>2, <2>5, <3>1, <3>2
  <2> QED
    BY <2>3, <2>4, <2>5
<1> QED
  BY <1>3, <1>4, <1>6, <1>7 DEF QInv

LEMMA OthersHold ==
    ASSUME QInv,
           \/ DispatcherEnds \/ EnterInteractiveWindow \/ InteractiveWindowEnds
           \/ Shutdown \/ ShutdownExecutor \/ UNCHANGED posterVars
    PROVE  QInv'
<1> USE DEF DispatcherEnds, EnterInteractiveWindow, InteractiveWindowEnds, Shutdown,
            ShutdownExecutor, posterVars, manager, executor, futures
<1>1. PosterTypeOK'
  BY DEF QInv, PosterTypeOK
<1>2. /\ UNCHANGED <<jobs, queued, active, submitted, generating, left, checked,
                     aborted, waiter, wanted>>
  OBVIOUS
<1>3. QueueSound' /\ StartedSound' /\ SingleFlight' /\ Slots' /\ Answering'
  BY <1>2 DEF QInv, QueueSound, StartedSound, SingleFlight, Slots, Answering,
              Exists, Started, Held, Distinct
<1>4. NoForgottenWaiter'
  BY <1>2 DEF QInv, NoForgottenWaiter, Exists
<1> QED
  BY <1>1, <1>3, <1>4 DEF QInv

\* The inductive invariant of the poster queue (submit_result,
\* _drop_queued_prewarm_locked, _dispatch_loop, _run_job, _finish_job).
THEOREM QueueInvariant == PosterSpec => []QInv
<1>1. QInv /\ [PosterNext]_posterVars => QInv'
  <2> SUFFICES ASSUME QInv, [PosterNext]_posterVars PROVE QInv'
    OBVIOUS
  <2>1. ASSUME NEW w \in Waiters, NEW k \in Keys, Ask(w, k) \/ Warm(w, k)
        PROVE  QInv'
    <3>1. \E p \in {Requested, Normal, Prewarm} : Submit(w, k, p)
      BY <2>1, PosterConstants DEF Ask, Warm
    <3> QED
      BY <3>1, SubmitHolds
  <2>2. ASSUME NEW w \in Waiters, Cancel(w) \/ WaiterDone(w) PROVE QInv'
    BY <2>2, CancelHolds, WaiterDoneHolds
  <2>3. ASSUME NEW t \in Threads, ExecutorStep(t) PROVE QInv'
    BY <2>3, GenerateHolds, FinishJobHolds, AnswersHold DEF ExecutorStep
  <2> QED
    BY <2>1, <2>2, <2>3, DispatcherHolds, OthersHold DEF PosterNext
<1> QED
  BY <1>1, QueueStarts, PTL DEF PosterSpec

\* Types of the manager, its executor and the futures.
THEOREM PosterTyping == PosterSpec => []PosterTypeOK
BY QueueInvariant, PTL DEF QInv

\* No two threads generate the same poster: a job stays in _jobs, started,
\* until _finish_job, so whoever asks again joins it (submit_result).
THEOREM PostersAreGeneratedOnce == PosterSpec => []SingleFlight
BY QueueInvariant, PTL DEF QInv

\* A future that is not done is one of a job's waiters, or a thread is about to
\* answer it, unless a thread was stopped half way: a dropped prewarm answers its
\* waiters, a cancelled request takes only itself away, and _finish_job takes
\* the waiters along with the job.
THEOREM WaitersAreRemembered == PosterSpec => []NoForgottenWaiter
BY QueueInvariant, PTL DEF QInv

-----------------------------------------------------------------------------
(* The library scan: what is invariant *)

\* A caller past the acquisition of _job_lock, or its scan, holds the lock.
HoldsJobLock(t) ==
    \/ pc[t] = "start"
    \/ t = Main /\ pc[t] \in {"sample", "compare"}
    \/ scan[t] # "none"

\* Who works under the job lock is its holder, and the holder's scan has not
\* started while its request is still deciding.
JobLockInv ==
    /\ \A t \in Callers : HoldsJobLock(t) => jobLock = t
    /\ \A t \in Callers : pc[t] = "start" => scan[t] = "none"
    /\ pc[Main] \in {"sample", "compare"} => scan[Main] = "none"
    /\ pc[Main] # "check"
    /\ pc[Main] # "idle" => phase = "starting"
    /\ phase # "up" => \A t \in RequestThreads : pc[t] = "idle"

\* Every variable keeps its type (the fields of ScanService and of the settings
\* rows it stores).
THEOREM ScanTyping == ScanSpec => []ScanTypeOK
<1> USE ScanConstants, NoSnapshotIsNone DEF Callers
<1>0. NothingSampled \in Snapshots
  BY DEF NothingSampled, Snapshots
<1>1. ScanInit => ScanTypeOK
  <2> SUFFICES ASSUME ScanInit PROVE ScanTypeOK
    OBVIOUS
  <2>1. /\ cooling \in 0..Cooldown
        /\ changes \in 0..MaxChanges
        /\ failures \in 0..MaxFailures
        /\ crashes \in 0..MaxCrashes
    BY DEF ScanInit
  <2>2. /\ pc \in [Callers -> RequestPhases]
        /\ sampled \in [Callers -> Snapshots]
        /\ scan \in [Callers -> ScanPhases]
        /\ walked \in [Callers -> SUBSET Entries]
    BY <1>0 DEF ScanInit, RequestPhases, ScanPhases
  <2> QED
    BY <2>1, <2>2 DEF ScanInit, ScanTypeOK
<1>2. ScanTypeOK /\ [ScanNext]_scanVars => ScanTypeOK'
  <2> SUFFICES ASSUME ScanTypeOK, [ScanNext]_scanVars PROVE ScanTypeOK'
    OBVIOUS
  <2> USE DEF ScanTypeOK, RequestPhases, ScanPhases
  <2>0. ScanTypeOK => CurrentSnapshot \in Snapshots /\ CurrentSnapshot.entries \in SUBSET Entries
    BY DEF CurrentSnapshot, Snapshots
  <2>1. ASSUME NEW b \in BOOLEAN, Boot(b) PROVE ScanTypeOK'
    BY <2>1 DEF Boot, environment, settings
  <2>2. ASSUME NEW t \in RequestThreads, RequestScan(t) PROVE ScanTypeOK'
    BY <2>2 DEF RequestScan, environment, settings
  <2>3. ASSUME NEW t \in RequestThreads, RequestProbe(t) PROVE ScanTypeOK'
    BY <2>3 DEF RequestProbe, environment, settings
  <2>4. ASSUME NEW t \in Callers, CheckProbe(t) PROVE ScanTypeOK'
    BY <2>4 DEF CheckProbe, Return, environment, settings
  <2>5. ASSUME NEW t \in Callers, SampleDisk(t) PROVE ScanTypeOK'
    BY <2>0, <2>5 DEF SampleDisk, environment, settings
  <2>6. ASSUME NEW t \in Callers, CompareProbe(t) PROVE ScanTypeOK'
    BY <1>0, <2>6 DEF CompareProbe, Return, environment
  <2>7. ASSUME NEW t \in Callers, AcquireJobLock(t) PROVE ScanTypeOK'
    BY <2>7 DEF AcquireJobLock, Return, environment, settings
  <2>8. ASSUME NEW t \in Callers, StartWorker(t) PROVE ScanTypeOK'
    BY <2>8 DEF StartWorker, Return, environment, settings
  <2>9. ASSUME NEW t \in Callers, ScanStep(t) PROVE ScanTypeOK'
    <3>1. CASE Walk(t)
      BY <2>0, <3>1 DEF Walk, environment, settings
    <3>2. CASE CommitScan(t)
      BY <3>2 DEF CommitScan, environment, settings
    <3>3. CASE FailScan(t)
      <4>1. failures' \in 0..MaxFailures
        BY <3>3 DEF FailScan
      <4>2. scan' \in [Callers -> ScanPhases]
        BY <3>3 DEF FailScan
      <4> QED
        BY <3>3, <4>1, <4>2 DEF FailScan, environment, settings
    <3>4. ASSUME NEW b \in BOOLEAN, StoreSnapshot(t, b) PROVE ScanTypeOK'
      BY <2>0, <3>4 DEF StoreSnapshot, environment
    <3>5. CASE ReportScan(t)
      BY <3>5 DEF ReportScan, environment, settings
    <3>6. CASE ReleaseJobLock(t)
      BY <3>6 DEF ReleaseJobLock, environment, settings
    <3> QED
      BY <2>9, <3>1, <3>2, <3>3, <3>4, <3>5, <3>6 DEF ScanStep
  <2>10. CASE CompareStartup
    BY <1>0, <2>10 DEF CompareStartup, Return, environment, settings
  <2>11. CASE ChangeDisk
    BY <2>11 DEF ChangeDisk, settings, volatile
  <2>12. CASE ToggleMount
    BY <2>12 DEF ToggleMount, settings, volatile
  <2>13. CASE Tick
    BY <2>13 DEF Tick, environment, volatile
  <2>14. CASE Crash
    <3>1. crashes' \in 0..MaxCrashes
      BY <2>14 DEF Crash
    <3>2. /\ pc' \in [Callers -> RequestPhases]
          /\ sampled' \in [Callers -> Snapshots]
          /\ scan' \in [Callers -> ScanPhases]
          /\ walked' \in [Callers -> SUBSET Entries]
      BY <1>0, <2>14 DEF Crash, ProcessGone
    <3> QED
      BY <2>14, <3>1, <3>2 DEF Crash, ProcessGone, environment, settings
  <2>15. CASE UNCHANGED scanVars
    BY <2>15 DEF scanVars, environment, settings, volatile
  <2>16. ASSUME NEW t \in Callers, StartWorkerFails(t) PROVE ScanTypeOK'
    <3>1. failures' \in 0..MaxFailures
      BY <2>16 DEF StartWorkerFails
    <3>2. CASE t = Main
      <4>1. /\ pc' \in [Callers -> RequestPhases]
            /\ sampled' \in [Callers -> Snapshots]
            /\ scan' \in [Callers -> ScanPhases]
            /\ walked' \in [Callers -> SUBSET Entries]
        BY <1>0, <2>16, <3>2 DEF StartWorkerFails, ProcessGone
      <4> QED
        BY <2>16, <3>1, <3>2, <4>1 DEF StartWorkerFails, ProcessGone, environment, settings
    <3>3. CASE t # Main
      BY <2>16, <3>1, <3>3 DEF StartWorkerFails, Return, environment, settings
    <3> QED
      BY <3>2, <3>3
  <2> QED
    BY <2>1, <2>2, <2>3, <2>4, <2>5, <2>6, <2>7, <2>8, <2>9, <2>10, <2>11,
       <2>12, <2>13, <2>14, <2>15, <2>16 DEF ScanNext, RequestStep
<1> QED
  BY <1>1, <1>2, PTL DEF ScanSpec

\* The job lock protects what it is meant to: JobLockInv is inductive.
THEOREM JobLockInvariance == ScanSpec => []JobLockInv
<1> USE ScanConstants DEF Callers, HoldsJobLock
<1>1. ScanInit => JobLockInv
  BY DEF ScanInit, JobLockInv
<1>2. ScanTypeOK /\ JobLockInv /\ [ScanNext]_scanVars => JobLockInv'
  <2> SUFFICES ASSUME ScanTypeOK, JobLockInv, [ScanNext]_scanVars PROVE JobLockInv'
    OBVIOUS
  <2> USE DEF ScanTypeOK, JobLockInv, RequestPhases, ScanPhases
  <2>1. ASSUME NEW b \in BOOLEAN, Boot(b) PROVE JobLockInv'
    BY <2>1 DEF Boot
  <2>2. ASSUME NEW t \in RequestThreads, RequestScan(t) PROVE JobLockInv'
    BY <2>2 DEF RequestScan
  <2>3. ASSUME NEW t \in RequestThreads, RequestProbe(t) PROVE JobLockInv'
    BY <2>3 DEF RequestProbe
  <2>4. ASSUME NEW t \in Callers, CheckProbe(t) PROVE JobLockInv'
    BY <2>4 DEF CheckProbe, Return
  <2>5. ASSUME NEW t \in Callers, SampleDisk(t) PROVE JobLockInv'
    BY <2>5 DEF SampleDisk
  <2>6. ASSUME NEW t \in Callers, CompareProbe(t) PROVE JobLockInv'
    BY <2>6 DEF CompareProbe, Return
  <2>7. ASSUME NEW t \in Callers, AcquireJobLock(t) PROVE JobLockInv'
    BY <2>7 DEF AcquireJobLock, Return
  <2>8. ASSUME NEW t \in Callers, StartWorker(t) PROVE JobLockInv'
    BY <2>8 DEF StartWorker, Return
  <2>9. ASSUME NEW t \in Callers, ScanStep(t) PROVE JobLockInv'
    <3>1. CASE Walk(t)
      BY <3>1 DEF Walk
    <3>2. CASE CommitScan(t)
      BY <3>2 DEF CommitScan
    <3>3. CASE FailScan(t)
      BY <3>3 DEF FailScan
    <3>4. ASSUME NEW b \in BOOLEAN, StoreSnapshot(t, b) PROVE JobLockInv'
      BY <3>4 DEF StoreSnapshot
    <3>5. CASE ReportScan(t)
      BY <3>5 DEF ReportScan
    <3>6. CASE ReleaseJobLock(t)
      BY <3>6 DEF ReleaseJobLock
    <3> QED
      BY <2>9, <3>1, <3>2, <3>3, <3>4, <3>5, <3>6 DEF ScanStep
  <2>10. CASE CompareStartup
    BY <2>10 DEF CompareStartup, Return
  <2>11. CASE ChangeDisk
    BY <2>11 DEF ChangeDisk, volatile
  <2>12. CASE ToggleMount
    BY <2>12 DEF ToggleMount, volatile
  <2>13. CASE Tick
    BY <2>13 DEF Tick, volatile
  <2>14. CASE Crash
    BY <2>14 DEF Crash, ProcessGone
  <2>15. CASE UNCHANGED scanVars
    BY <2>15 DEF scanVars, volatile
  <2>16. ASSUME NEW t \in Callers, StartWorkerFails(t) PROVE JobLockInv'
    <3>1. CASE t = Main
      BY <2>16, <3>1 DEF StartWorkerFails, ProcessGone
    <3>2. CASE t # Main
      BY <2>16, <3>2 DEF StartWorkerFails, Return
    <3> QED
      BY <3>1, <3>2
  <2> QED
    BY <2>1, <2>2, <2>3, <2>4, <2>5, <2>6, <2>7, <2>8, <2>9, <2>10, <2>11,
       <2>12, <2>13, <2>14, <2>15, <2>16 DEF ScanNext, RequestStep
<1> QED
  BY <1>1, <1>2, ScanTyping, PTL DEF ScanSpec

\* No two scans overlap: whichever request started it, a scan owns _job_lock
\* until its last step, and there is one lock.
THEOREM ScansDoNotOverlap == ScanSpec => []OneScanAtATime
<1>1. JobLockInv => OneScanAtATime
  BY DEF JobLockInv, HoldsJobLock, OneScanAtATime
<1> QED
  BY <1>1, JobLockInvariance, PTL

\* RunningMeansScanning without its quantifier: the scan that is announced is
\* that of the lock's holder. A thread that could not start leaves a caller who
\* holds the lock for ever.
HolderIsScanning ==
    /\ unstarted => /\ jobLock \in Callers
                    /\ \A t \in Callers : ~HoldsJobLock(t)
    /\ running => /\ jobLock \in Callers
                  /\ \/ unstarted
                     \/ scan[jobLock] \in {"walk", "commit", "snapshot", "report"}

\* The running flag never outlives its scan, although it is set and cleared
\* apart from the lock: every step between holds the lock, and whoever gives it
\* back has cleared the flag before (enqueue_scan, _run_scan). Only where
\* worker.start() raised does it stay, with the lock, until the restart.
THEOREM RunningFlagIsTruthful == ScanSpec => []RunningMeansScanning
<1> USE ScanConstants DEF Callers, HoldsJobLock
<1>1. ScanInit => HolderIsScanning
  BY DEF ScanInit, HolderIsScanning
<1>2. ScanTypeOK /\ JobLockInv /\ HolderIsScanning /\ [ScanNext]_scanVars => HolderIsScanning'
  <2> SUFFICES ASSUME ScanTypeOK, JobLockInv, HolderIsScanning, [ScanNext]_scanVars
               PROVE  HolderIsScanning'
    OBVIOUS
  <2> USE DEF ScanTypeOK, JobLockInv, HolderIsScanning, RequestPhases, ScanPhases
  <2>1. ASSUME NEW b \in BOOLEAN, Boot(b) PROVE HolderIsScanning'
    BY <2>1 DEF Boot
  <2>2. ASSUME NEW t \in RequestThreads, RequestScan(t) \/ RequestProbe(t)
        PROVE  HolderIsScanning'
    BY <2>2 DEF RequestScan, RequestProbe
  <2>3. ASSUME NEW t \in Callers, CheckProbe(t) \/ SampleDisk(t) \/ CompareProbe(t)
        PROVE  HolderIsScanning'
    <3>1. CASE CheckProbe(t)
      BY <3>1 DEF CheckProbe, Return
    <3>2. CASE SampleDisk(t)
      BY <3>2 DEF SampleDisk
    <3>3. CASE CompareProbe(t)
      BY <3>3 DEF CompareProbe, Return
    <3> QED
      BY <2>3, <3>1, <3>2, <3>3
  <2>4. ASSUME NEW t \in Callers, AcquireJobLock(t) PROVE HolderIsScanning'
    BY <2>4 DEF AcquireJobLock, Return
  <2>5. ASSUME NEW t \in Callers, StartWorker(t) PROVE HolderIsScanning'
    BY <2>5 DEF StartWorker
  <2>6. ASSUME NEW t \in Callers, ScanStep(t) PROVE HolderIsScanning'
    <3>1. jobLock = t
      BY <2>6 DEF ScanStep, Walk, CommitScan, FailScan, StoreSnapshot, ReportScan,
                  ReleaseJobLock
    <3>2. CASE Walk(t)
      BY <3>1, <3>2 DEF Walk
    <3>3. CASE CommitScan(t)
      BY <3>1, <3>3 DEF CommitScan
    <3>4. CASE FailScan(t) \/ ReportScan(t)
      BY <3>4 DEF FailScan, ReportScan
    <3>5. ASSUME NEW b \in BOOLEAN, StoreSnapshot(t, b) PROVE HolderIsScanning'
      BY <3>1, <3>5 DEF StoreSnapshot
    <3>6. CASE ReleaseJobLock(t)
      BY <3>1, <3>6 DEF ReleaseJobLock
    <3> QED
      BY <2>6, <3>2, <3>3, <3>4, <3>5, <3>6 DEF ScanStep
  <2>7. CASE CompareStartup
    BY <2>7 DEF CompareStartup
  <2>8. CASE ChangeDisk \/ ToggleMount \/ Tick
    BY <2>8 DEF ChangeDisk, ToggleMount, Tick, volatile
  <2>9. CASE Crash
    BY <2>9 DEF Crash, ProcessGone
  <2>10. CASE UNCHANGED scanVars
    BY <2>10 DEF scanVars, volatile
  <2>11. ASSUME NEW t \in Callers, StartWorkerFails(t) PROVE HolderIsScanning'
    <3>1. CASE t = Main
      BY <2>11, <3>1 DEF StartWorkerFails, ProcessGone
    <3>2. CASE t # Main
      BY <2>11, <3>2 DEF StartWorkerFails, Return
    <3> QED
      BY <3>1, <3>2
  <2> QED
    BY <2>1, <2>2, <2>3, <2>4, <2>5, <2>6, <2>7, <2>8, <2>9, <2>10, <2>11
       DEF ScanNext, RequestStep
<1>3. HolderIsScanning => RunningMeansScanning
  BY DEF HolderIsScanning, RunningMeansScanning
<1> QED
  BY <1>1, <1>2, <1>3, ScanTyping, JobLockInvariance, PTL DEF ScanSpec

=============================================================================
