------------------------ MODULE TranscodeJobsProofs ------------------------
(***************************************************************************)
(* Proofs about the HLS transcode manager, for every set of items, users   *)
(* and threads and every cap: a registered job is reported by somebody, a  *)
(* thread ends only jobs it is entitled to, and a start that nothing       *)
(* overlaps keeps to the cap.                                              *)
(***************************************************************************)
EXTENDS TranscodeJobs, TLAPS, FiniteSetTheorems

\* The table lists a job under its own item.
Filed == \A i \in Items : table[i] # None => job[table[i]].item = i

\* A job object has an item, a process and a watcher only once it is registered.
Created ==
    \A n \in Ids :
        IF n <= started THEN job[n].item \in Items
        ELSE job[n].item = None /\ process[n] = "none" /\ watcher[n] = None

\* What a request thread holds at each of its steps.
Holding ==
    /\ \A t \in Actors : thread[t].mine # None => thread[t].mine <= started
    /\ \A t \in Threads :
          /\ thread[t].pc \in {"spawn", "popen", "record"} <=> thread[t].mine # None
          /\ thread[t].pc # "idle" => thread[t].call.item \in Items

\* Only a job that is in the table, hence registered, is listed.
Known == \A i \in Items : table[i] # None => table[i] <= started

\* A job that is starting has no process yet.
NotYet == \A n \in Ids : job[n].state = "starting" => job[n].process = None

\* An item changes no more often than there is trouble.
Changes == \A i \in Items : version[i] <= trouble

\* A listed job has a process that was spawned for its item.
Paired == \A n \in Listed :
    job[n].process # None => job[job[n].process].item = job[n].item

IInv == /\ TypeOK
        /\ Filed
        /\ Created
        /\ Holding
        /\ Known
        /\ NotYet
        /\ Changes
        /\ Paired
        /\ SomebodyReports

-----------------------------------------------------------------------------

LEMMA InitHolds == Init => IInv
<1> SUFFICES ASSUME Init PROVE IInv
  OBVIOUS
<1> USE TranscodeConstants
<1>1. TypeOK
  <2>1. job \in [Ids -> Jobs]
    BY DEF Init, Jobs, Versions, Lately, Stale
  <2>2. thread \in [Actors -> ThreadStates]
    BY DEF Init, ThreadStates, Calls, Steps, NoCall, Versions
  <2>3. /\ process \in [Ids -> {"none", "running"} \cup Outcomes]
        /\ version \in [Items -> Versions]
        /\ watcher \in [Ids -> Ids \cup {None, New, Over}]
        /\ table \in [Items -> Ids \cup {None}]
    BY DEF Init, Versions
  <2>4. started \in 0..MaxStarts /\ trouble \in 0..MaxTrouble /\ raised \subseteq Ids
    BY DEF Init
  <2> QED
    BY <2>1, <2>2, <2>3, <2>4 DEF Init, TypeOK
<1>2. Filed /\ Created /\ Holding /\ Known /\ NotYet /\ Changes
  BY DEF Init, Filed, Created, Holding, Known, NotYet, Changes, Ids, Actors
<1>3. Paired /\ SomebodyReports
  BY DEF Init, Paired, SomebodyReports, Listed
<1> QED
  BY <1>1, <1>2, <1>3 DEF IInv

LEMMA ListedJobs ==
    ASSUME IInv
    PROVE  \A k \in Listed : /\ k \in Ids /\ k # None
                             /\ job[k].item \in Items /\ table[job[k].item] = k
                             /\ job[k].process \in Ids \cup {None}
<1> SUFFICES ASSUME NEW i \in Items, table[i] # None
             PROVE  LET k == table[i]
                    IN /\ k \in Ids /\ job[k].item = i
                       /\ job[k].process \in Ids \cup {None}
  BY DEF Listed
<1> QED
  BY DEF IInv, TypeOK, Filed, Jobs

\* What it takes for a thread to move on.
LEMMA MovesThread ==
    ASSUME IInv, NEW t \in Actors, NEW pc \in Steps, NEW call \in Calls,
           NEW mine \in Ids \cup {None}, NEW doomed \in SUBSET Ids,
           Moves(t, pc, call, mine, doomed)
    PROVE  /\ thread' \in [Actors -> ThreadStates]
           /\ thread'[t] = [pc |-> pc, call |-> call, mine |-> mine,
                            doomed |-> doomed]
           /\ \A a \in Actors \ {t} : thread'[a] = thread[a]
<1>1. thread \in [Actors -> ThreadStates]
  BY DEF IInv, TypeOK
<1>2. [pc |-> pc, call |-> call, mine |-> mine, doomed |-> doomed] \in ThreadStates
  BY DEF ThreadStates
<1> QED
  BY <1>1, <1>2 DEF Moves

\* What an error leaves behind.
LEMMA RaiseThread ==
    ASSUME IInv, NEW t \in Actors, Raise(t)
    PROVE  /\ thread' \in [Actors -> ThreadStates]
           /\ \A a \in Actors \ {t} : thread'[a] = thread[a]
           /\ thread'[t].doomed = {}
           /\ raised' \subseteq Ids /\ raised \subseteq raised'
           /\ thread[t].mine # None => thread[t].mine \in raised'
           /\ UNCHANGED started => Holding'
<1> USE TranscodeConstants
<1> DEFINE pc == IF t = Cleaner THEN "gone" ELSE "idle"
<1>1. pc \in Steps /\ NoCall \in Calls
  BY DEF Steps, NoCall, Calls, Versions
<1>2. Moves(t, pc, NoCall, None, {})
  BY DEF Raise
<1>3. t \in Threads => pc = "idle"
  OBVIOUS
<1> HIDE DEF pc
<1>4. /\ thread' \in [Actors -> ThreadStates]
      /\ thread'[t] = [pc |-> pc, call |-> NoCall, mine |-> None, doomed |-> {}]
      /\ \A a \in Actors \ {t} : thread'[a] = thread[a]
  <2>1. None \in Ids \cup {None} /\ {} \in SUBSET Ids
    OBVIOUS
  <2> QED
    BY <1>1, <1>2, <2>1, MovesThread
<1>5. thread[t].mine \in Ids \cup {None}
  BY DEF IInv, TypeOK, ThreadStates
<1>6. /\ raised' \subseteq Ids /\ raised \subseteq raised'
      /\ thread[t].mine # None => thread[t].mine \in raised'
  BY <1>5 DEF Raise, IInv, TypeOK
<1>7. UNCHANGED started => Holding'
  BY <1>3, <1>4 DEF IInv, Holding, Actors
<1> QED
  BY <1>4, <1>6, <1>7

\* cleanup_stale, whoever calls it
LEMMA CleanupSteps ==
    ASSUME IInv, NEW t \in Actors, NEW next,
           \/ t = Cleaner /\ next = "dirs"
           \/ t \in Threads /\ next = "snapshot" /\ thread[t].pc = "cleanup",
           Cleanup(t, next)
    PROVE  IInv'
<1> USE TranscodeConstants
<1>1. Removable \in SUBSET Ids
  BY DEF IInv, TypeOK, Removable, Listed
<1>2. table' \in [Items -> Ids \cup {None}]
  BY DEF IInv, TypeOK, Cleanup, Forget
<1>3. next \in Steps /\ thread[t].call \in Calls
  BY DEF Steps, IInv, TypeOK, ThreadStates
<1>4. Moves(t, next, thread[t].call, None, Removable)
  BY DEF Cleanup
<1>5. /\ thread' \in [Actors -> ThreadStates]
      /\ thread'[t] = [pc |-> next, call |-> thread[t].call, mine |-> None,
                       doomed |-> Removable]
      /\ \A a \in Actors \ {t} : thread'[a] = thread[a]
  BY <1>1, <1>3, <1>4, MovesThread
<1>6. UNCHANGED <<job, started, process, manifests, version, watcher, stopping,
                  trouble, raised>>
  BY DEF Cleanup
<1>7. TypeOK'
  BY <1>2, <1>5, <1>6 DEF IInv, TypeOK
<1>8. (Filed /\ Created /\ Known /\ NotYet /\ Changes)'
  BY <1>6 DEF IInv, TypeOK, Filed, Created, Known, NotYet, Changes, Cleanup, Forget
<1>9. Holding'
  BY <1>5, <1>6 DEF IInv, Holding, Actors
<1>10. t \in Threads => thread[t].mine = None
  BY DEF IInv, Holding
<1>11. (Paired /\ SomebodyReports)'
  BY <1>5, <1>6, <1>10 DEF IInv, TypeOK, Paired, SomebodyReports, Listed, Cleanup, Forget,
                           Actors
<1> QED
  BY <1>7, <1>8, <1>9, <1>11 DEF IInv

\* Steps that change neither the table nor a job, a process, a watcher or the
\* job a thread starts.
LEMMA WorldSteps ==
    ASSUME IInv,
           \/ \E i \in Items : Rescan(i)
           \/ CleanerRound \/ RemoveOldDirs \/ Shutdown
    PROVE  IInv'
<1> USE TranscodeConstants
<1>1. CASE \E i \in Items : Rescan(i)
  <2> PICK i \in Items : Rescan(i)
    BY <1>1
  <2>1. TypeOK'
    <3>1. version' \in [Items -> Versions] /\ trouble' \in 0..MaxTrouble
      BY DEF IInv, TypeOK, Changes, Rescan, Versions
    <3>2. UNCHANGED <<table, job, started, process, manifests, thread, watcher,
                      stopping, raised>>
      BY DEF Rescan
    <3> QED
      BY <3>1, <3>2 DEF IInv, TypeOK
  <2>2. Changes'
    BY DEF IInv, TypeOK, Changes, Rescan, Versions
  <2>3. (Filed /\ Created /\ Holding /\ Known /\ NotYet)'
    BY DEF IInv, Filed, Created, Holding, Known, NotYet, Rescan
  <2>4. (Paired /\ SomebodyReports)'
    BY DEF IInv, Paired, SomebodyReports, Listed, Rescan
  <2> QED
    BY <2>1, <2>2, <2>3, <2>4 DEF IInv
<1>2. CASE CleanerRound
  BY <1>2, CleanupSteps DEF CleanerRound, Actors
<1>3. CASE RemoveOldDirs
  <2>1. PICK pc \in {"idle", "gone"} : thread' = [thread EXCEPT ![Cleaner].pc = pc]
    BY <1>3 DEF RemoveOldDirs, Goto
  <2>2. manifests' \subseteq manifests
    BY <1>3 DEF RemoveOldDirs
  <2>3. UNCHANGED <<table, job, started, process, version, watcher, stopping,
                    trouble, raised>>
    BY <1>3 DEF RemoveOldDirs
  <2>4. thread' \in [Actors -> ThreadStates]
    BY <2>1 DEF IInv, TypeOK, Actors, Steps, ThreadStates
  <2>5. /\ \A a \in Threads : thread'[a] = thread[a]
        /\ \A a \in Actors : thread'[a].mine = thread[a].mine
    BY <2>1 DEF IInv, TypeOK, Actors, ThreadStates
  <2>6. TypeOK'
    BY <2>2, <2>3, <2>4 DEF IInv, TypeOK
  <2>7. (Filed /\ Created /\ Known /\ NotYet /\ Changes)'
    BY <2>3 DEF IInv, Filed, Created, Known, NotYet, Changes
  <2>8. Holding'
    BY <2>3, <2>5 DEF IInv, Holding
  <2>9. (Paired /\ SomebodyReports)'
    BY <2>3, <2>5 DEF IInv, Paired, SomebodyReports, Listed
  <2> QED
    BY <2>6, <2>7, <2>8, <2>9 DEF IInv
<1>4. CASE Shutdown
  <2>1. TypeOK'
    BY <1>4 DEF IInv, TypeOK, Shutdown, Listed, Actors, ThreadStates
  <2>2. (Filed /\ Created /\ Holding /\ Known /\ NotYet /\ Changes)'
    BY <1>4 DEF IInv, TypeOK, Filed, Created, Holding, Known, NotYet, Changes,
                Shutdown, Actors
  <2>3. (Paired /\ SomebodyReports)'
    BY <1>4 DEF Paired, SomebodyReports, Listed, Shutdown
  <2> QED
    BY <2>1, <2>2, <2>3 DEF IInv
<1> QED
  BY <1>1, <1>2, <1>3, <1>4

\* Time, ffmpeg, and requests for segments, which only touch a job.
LEMMA OutsideSteps ==
    ASSUME IInv,
           \/ \E n \in Ids : Age(n) \/ FfmpegEnds(n)
           \/ \E i \in Items : Serve(i)
    PROVE  IInv'
<1> USE TranscodeConstants
<1>1. ASSUME NEW n \in Ids, Age(n) PROVE IInv'
  <2>1. PICK idle \in (job[n].idle + 1)..Stale : job' = [job EXCEPT ![n].idle = idle]
    BY <1>1 DEF Age
  <2>2. job' \in [Ids -> Jobs]
    <3>1. job \in [Ids -> Jobs] /\ job[n] \in Jobs
      BY DEF IInv, TypeOK
    <3>2. job[n].idle \in Lately..Stale
      BY <3>1 DEF Jobs
    <3>3. idle \in Lately..Stale
      BY <3>2 DEF Lately, Stale
    <3>4. [job[n] EXCEPT !.idle = idle] \in Jobs
      BY <3>1, <3>3 DEF Jobs
    <3> QED
      BY <2>1, <3>1, <3>4
  <2>3. TypeOK'
    BY <1>1, <2>2 DEF IInv, TypeOK, Age
  <2>4. \A k \in Ids : /\ job'[k].item = job[k].item
                       /\ job'[k].state = job[k].state
                       /\ job'[k].process = job[k].process
    BY <2>1 DEF IInv, TypeOK, Jobs
  <2>6. (Filed /\ Created /\ Holding /\ Known /\ NotYet)'
    BY <1>1, <2>4 DEF IInv, TypeOK, Filed, Created, Holding, Known, NotYet, Age
  <2>7. Changes'
    BY <1>1 DEF IInv, TypeOK, Changes, Age, Versions
  <2>5. (Paired /\ SomebodyReports)'
    BY <1>1, <2>4 DEF IInv, TypeOK, Paired, SomebodyReports, Listed, Age
  <2> QED
    BY <2>3, <2>5, <2>6, <2>7 DEF IInv
<1>2. ASSUME NEW p \in Ids, FfmpegEnds(p) PROVE IInv'
  <2>1. Dir(p) \in Items \X Versions
    BY <1>2 DEF IInv, TypeOK, Jobs, Created, FfmpegEnds, Dir
  <2>2. TypeOK'
    BY <1>2, <2>1 DEF IInv, TypeOK, FfmpegEnds
  <2>3. (Filed /\ Created /\ Holding /\ Known /\ NotYet /\ Changes)'
    BY <1>2 DEF IInv, TypeOK, Filed, Created, Holding, Known, NotYet, Changes,
                FfmpegEnds
  <2>4. (Paired /\ SomebodyReports)'
    BY <1>2 DEF IInv, Paired, SomebodyReports, Listed, FfmpegEnds
  <2> QED
    BY <2>2, <2>3, <2>4 DEF IInv
<1>3. ASSUME NEW i \in Items, Serve(i) PROVE IInv'
  <2>1. job' \in [Ids -> Jobs]
    BY <1>3 DEF IInv, TypeOK, Jobs, Serve, Lately, Stale
  <2>2. TypeOK'
    BY <1>3, <2>1 DEF IInv, TypeOK, Serve
  <2>3. (Filed /\ Created /\ Holding /\ Known /\ NotYet /\ Changes)'
    BY <1>3 DEF IInv, TypeOK, Jobs, Filed, Created, Holding, Known, NotYet, Changes,
                Serve
  <2>4. (Paired /\ SomebodyReports)'
    BY <1>3 DEF IInv, TypeOK, Jobs, Paired, SomebodyReports, Listed, Serve
  <2> QED
    BY <2>2, <2>3, <2>4 DEF IInv
<1> QED
  BY <1>1, <1>2, <1>3

-----------------------------------------------------------------------------
(* The request threads *)

LEMMA RequestSteps ==
    ASSUME IInv, NEW a \in Asked, Request(a.thread, a.user, a.item, a.op)
    PROVE  IInv'
<1> USE TranscodeConstants
<1> DEFINE t == a.thread
           pc == IF a.op = "stop" THEN "admit" ELSE "cleanup"
           call == [op |-> a.op, user |-> a.user, item |-> a.item,
                    seen |-> version[a.item]]
<1>1. /\ t \in Threads /\ t \in Actors
      /\ a.item \in Items /\ a.user \in Users /\ a.op \in Ops
  BY DEF Actors
<1>2. /\ pc \in Steps /\ call \in Calls /\ call.item \in Items
      /\ pc \in {"cleanup", "admit"}
  BY <1>1 DEF Steps, Calls, IInv, TypeOK
<1>3. Moves(t, pc, call, None, {}) /\ thread[t].pc = "idle"
  BY DEF Request, At
<1> HIDE DEF t, pc, call
<1>4. /\ thread' \in [Actors -> ThreadStates]
      /\ thread'[t] = [pc |-> pc, call |-> call, mine |-> None, doomed |-> {}]
      /\ \A b \in Actors \ {t} : thread'[b] = thread[b]
  <2>1. None \in Ids \cup {None} /\ {} \in SUBSET Ids
    OBVIOUS
  <2> QED
    BY <1>1, <1>2, <1>3, <2>1, MovesThread
<1>5. thread[t].mine = None
  BY <1>1, <1>3 DEF IInv, Holding
<1>6. UNCHANGED <<table, job, started, process, manifests, version, watcher,
                  stopping, raised>> /\ trouble' \in {trouble, trouble + 1}
  BY DEF Request
<1>7. trouble' \in 0..MaxTrouble
  BY DEF Request, IInv, TypeOK
<1>8. TypeOK'
  BY <1>4, <1>6, <1>7 DEF IInv, TypeOK
<1>9. (Filed /\ Created /\ Known /\ NotYet)'
  BY <1>6 DEF IInv, Filed, Created, Known, NotYet
<1>10. Holding'
  BY <1>1, <1>2, <1>4, <1>6 DEF IInv, Holding, Actors
<1>11. Changes'
  BY <1>6 DEF IInv, TypeOK, Changes, Versions
<1>12. (Paired /\ SomebodyReports)'
  BY <1>1, <1>4, <1>5, <1>6 DEF IInv, Paired, SomebodyReports, Listed, Actors
<1> QED
  BY <1>8, <1>9, <1>10, <1>11, <1>12 DEF IInv

\* A terminated process leaves its watcher behind.
LEMMA TerminateSteps ==
    ASSUME IInv, NEW t \in Actors, NEW n \in Ids, Terminate(t, n)
    PROVE  IInv'
<1> USE TranscodeConstants
<1>1. thread' = [thread EXCEPT ![t].doomed = thread[t].doomed \ {n}]
  BY DEF Terminate, IInv, TypeOK
<1>2. thread' \in [Actors -> ThreadStates]
  BY <1>1 DEF IInv, TypeOK, ThreadStates
<1>3. \A a \in Actors : /\ thread'[a].pc = thread[a].pc
                        /\ thread'[a].call = thread[a].call
                        /\ thread'[a].mine = thread[a].mine
  BY <1>1 DEF IInv, TypeOK, ThreadStates
<1>4. UNCHANGED <<table, job, started, version, watcher, stopping, trouble,
                  raised>>
  BY DEF Terminate
<1>5. process' \in [Ids -> {"none", "running"} \cup Outcomes]
  BY DEF Terminate, IInv, TypeOK, Outcomes
<1>6. manifests' \subseteq Items \X Versions
  BY DEF Terminate, IInv, TypeOK
<1>7. TypeOK'
  BY <1>2, <1>4, <1>5, <1>6 DEF IInv, TypeOK
<1>8. \A p \in Ids : process[p] = "none" => process'[p] = "none"
  BY DEF Terminate, IInv, TypeOK, Alive
<1>9. (Filed /\ Created /\ Known /\ NotYet /\ Changes)'
  BY <1>4, <1>8 DEF IInv, TypeOK, Filed, Created, Known, NotYet, Changes
<1>10. Holding'
  BY <1>3, <1>4 DEF IInv, Holding, Actors
<1>11. (Paired /\ SomebodyReports)'
  BY <1>3, <1>4 DEF IInv, Paired, SomebodyReports, Listed, Actors
<1> QED
  BY <1>7, <1>9, <1>10, <1>11 DEF IInv

\* An error before Popen or while a process is terminated: the job of the start
\* keeps its state and counts as raised from now on.
LEMMA ErrorSteps ==
    ASSUME IInv, NEW t \in Actors, Raise(t), manifests' \subseteq manifests,
           UNCHANGED <<table, job, started, process, version, watcher, stopping,
                       trouble>>
    PROVE  IInv'
<1> USE TranscodeConstants
<1>1. /\ thread' \in [Actors -> ThreadStates]
      /\ \A a \in Actors \ {t} : thread'[a] = thread[a]
      /\ raised' \subseteq Ids /\ raised \subseteq raised'
      /\ thread[t].mine # None => thread[t].mine \in raised'
      /\ Holding'
  BY RaiseThread
<1>2. TypeOK'
  BY <1>1 DEF IInv, TypeOK
<1>3. (Filed /\ Created /\ Known /\ NotYet /\ Changes)'
  BY DEF IInv, TypeOK, Filed, Created, Known, NotYet, Changes
<1>4. \A n \in Listed : n # None
  BY DEF Listed
<1>5. (Paired /\ SomebodyReports)'
  BY <1>1, <1>4 DEF IInv, Paired, SomebodyReports, Listed, Actors
<1> QED
  BY <1>1, <1>2, <1>3, <1>5 DEF IInv

\* get_job_snapshot: a job that is starting has no process, so that it is not
\* made a running one here.
LEMMA SnapshotSteps ==
    ASSUME IInv, NEW t \in Threads, Snapshot(t)
    PROVE  IInv'
<1> USE TranscodeConstants
<1> DEFINE n == table[thread[t].call.item]
           known == n # None /\ job[n].version = thread[t].call.seen
<1>1. /\ thread[t].call.item \in Items /\ t \in Actors /\ n \in Ids \cup {None}
      /\ thread[t].mine = None
  BY DEF IInv, TypeOK, Holding, Snapshot, At, Actors
<1>2. thread[t].call \in Calls /\ NoCall \in Calls
      /\ "idle" \in Steps /\ "admit" \in Steps
  BY <1>1 DEF IInv, TypeOK, ThreadStates, Calls, Steps, NoCall, Versions
<1>3. \/ Moves(t, "admit", thread[t].call, None, {})
      \/ Moves(t, "idle", NoCall, None, {})
  BY DEF Snapshot
<1>4. job' = IF known
             THEN [job EXCEPT ![n].state = Settled(n), ![n].idle = Lately]
             ELSE job
  BY DEF Snapshot
<1>5. known => job[n].state # "starting" \/ job[n].process = None
  BY <1>1 DEF IInv, NotYet
<1>6. known => /\ Settled(n) \in {job[n].state, "failed"}
               /\ Settled(n) \in {"starting", "running", "completed", "failed"}
  BY <1>1, <1>5 DEF Settled, Alive, IInv, TypeOK, Jobs
<1> HIDE DEF n
<1>7. job' \in [Ids -> Jobs]
  BY <1>1, <1>4, <1>6 DEF IInv, TypeOK, Jobs, Lately, Stale
<1>8. \A k \in Ids : /\ job'[k].item = job[k].item
                     /\ job'[k].process = job[k].process
                     /\ job'[k].state \in {job[k].state, "failed"}
  BY <1>1, <1>4, <1>6 DEF IInv, TypeOK, Jobs
<1>9. /\ thread' \in [Actors -> ThreadStates]
      /\ \/ thread'[t].pc = "admit" /\ thread'[t].call = thread[t].call
         \/ thread'[t].pc = "idle"
      /\ thread'[t].mine = None
      /\ \A b \in Actors \ {t} : thread'[b] = thread[b]
  <2>1. PICK pc \in Steps, call \in Calls, doomed \in SUBSET Ids :
           /\ Moves(t, pc, call, None, doomed)
           /\ (pc = "admit" /\ call = thread[t].call) \/ pc = "idle"
    BY <1>2, <1>3
  <2>2. None \in Ids \cup {None}
    OBVIOUS
  <2>3. /\ thread' \in [Actors -> ThreadStates]
        /\ thread'[t] = [pc |-> pc, call |-> call, mine |-> None,
                         doomed |-> doomed]
        /\ \A b \in Actors \ {t} : thread'[b] = thread[b]
    BY <1>1, <2>1, <2>2, MovesThread
  <2> QED
    BY <2>1, <2>3
<1>10. UNCHANGED <<table, started, process, manifests, version, watcher,
                   stopping, trouble, raised>>
  BY DEF Snapshot
<1>11. TypeOK'
  BY <1>7, <1>9, <1>10 DEF IInv, TypeOK
<1>12. (Filed /\ Created /\ Known /\ NotYet /\ Changes)'
  BY <1>8, <1>10 DEF IInv, TypeOK, Filed, Created, Known, NotYet, Changes
<1>13. Holding'
  BY <1>1, <1>9, <1>10 DEF IInv, Holding, Actors
<1>14. SomebodyReports'
  BY <1>1, <1>8, <1>9, <1>10 DEF IInv, TypeOK, SomebodyReports, Listed, Actors
<1>15. Paired'
  BY <1>8, <1>10, ListedJobs DEF IInv, Paired, Listed
<1> QED
  BY <1>11, <1>12, <1>13, <1>14, <1>15 DEF IInv

\* Admit and AdmitReplacing
LEMMA RegisterSteps ==
    ASSUME IInv, NEW t \in Threads, NEW popped \in SUBSET Ids,
           thread[t].pc = "admit", Register(t, popped),
           UNCHANGED <<process, manifests, version, watcher, stopping, trouble,
                       raised>>
    PROVE  IInv'
<1> USE TranscodeConstants
<1> DEFINE call == thread[t].call
           n == started + 1
           fresh == [item |-> call.item, user |-> call.user, version |-> call.seen,
                     idle |-> Lately, state |-> "starting", process |-> None]
<1>1. /\ t \in Actors /\ call \in Calls /\ call.item \in Items
      /\ thread[t].mine = None
  BY DEF IInv, TypeOK, ThreadStates, Holding, Actors
<1>2. n \in Ids /\ started' = n /\ n \in 0..MaxStarts
  BY DEF Register, IInv, TypeOK, Ids
<1>3. fresh \in Jobs
  BY <1>1 DEF Jobs, Calls, Lately, Stale
<1>4. /\ job' = [job EXCEPT ![n] = fresh]
      /\ table' = [Forget(popped) EXCEPT ![call.item] = n]
      /\ Moves(t, "spawn", call, n, popped)
  BY DEF Register
<1>5. /\ fresh.item = call.item /\ fresh.state = "starting" /\ fresh.process = None
  OBVIOUS
<1> HIDE DEF n, call, fresh
<1>6. /\ thread' \in [Actors -> ThreadStates]
      /\ thread'[t].pc = "spawn" /\ thread'[t].mine = n /\ thread'[t].call = call
      /\ \A b \in Actors \ {t} : thread'[b] = thread[b]
  <2>1. "spawn" \in Steps /\ n \in Ids \cup {None}
    BY <1>2 DEF Steps
  <2>2. /\ thread' \in [Actors -> ThreadStates]
        /\ thread'[t] = [pc |-> "spawn", call |-> call, mine |-> n,
                         doomed |-> popped]
        /\ \A b \in Actors \ {t} : thread'[b] = thread[b]
    BY <1>1, <1>4, <2>1, MovesThread
  <2> QED
    BY <2>2
<1>7. job' \in [Ids -> Jobs] /\ job'[n] = fresh
      /\ \A k \in Ids \ {n} : job'[k] = job[k]
  BY <1>2, <1>3, <1>4 DEF IInv, TypeOK
<1>8. /\ table' \in [Items -> Ids \cup {None}]
      /\ table'[call.item] = n
      /\ \A i \in Items \ {call.item} : table'[i] \in {table[i], None}
  BY <1>1, <1>2, <1>4 DEF IInv, TypeOK, Forget
<1>9. TypeOK'
  BY <1>2, <1>6, <1>7, <1>8 DEF IInv, TypeOK
<1>10. \A k \in Ids : k <= n <=> k <= started \/ k = n
  BY <1>2 DEF IInv, TypeOK, Ids, n
<1>11. \A i \in Items : table[i] # None => table[i] \in Ids /\ table[i] # n
  BY <1>2 DEF IInv, TypeOK, Known, Ids, n
<1>12. Filed'
  BY <1>1, <1>5, <1>7, <1>8, <1>11 DEF IInv, Filed
<1>13. Created'
  BY <1>1, <1>2, <1>5, <1>7, <1>10 DEF IInv, Created
<1>14. Holding'
  <2>1. \A a \in Actors : thread'[a].mine # None => thread'[a].mine <= started'
    <3>1. ASSUME NEW a \in Actors, a # t, thread[a].mine # None
          PROVE  thread[a].mine \in Ids /\ thread[a].mine <= started
      BY <3>1 DEF IInv, TypeOK, ThreadStates, Holding
    <3> QED
      BY <3>1, <1>2, <1>6, <1>10 DEF Ids
  <2>2. None # n
    BY <1>2
  <2> QED
    BY <2>1, <2>2, <1>1, <1>6 DEF IInv, Holding, Actors
<1>15. Known'
  BY <1>2, <1>8, <1>10, <1>11 DEF IInv, Known
<1>16. NotYet' /\ Changes'
  BY <1>2, <1>5, <1>7 DEF IInv, NotYet, Changes
<1>17. \A p \in Ids : job[p].item \in Items => p # n
  BY <1>2 DEF IInv, TypeOK, Created, Ids, n
<1>18. ASSUME NEW k \in Listed', k # n
       PROVE  /\ k \in Listed /\ k \in Ids /\ job'[k] = job[k]
              /\ job[k].item \in Items
              /\ job[k].process # None =>
                    job[k].process \in Ids /\ job'[job[k].process] = job[job[k].process]
  <2>1. k \in Listed /\ k \in Ids /\ job'[k] = job[k] /\ job[k].item \in Items
    BY <1>7, <1>8, <1>18 DEF Listed, IInv, TypeOK, Filed
  <2>2. job[k].process \in Ids \cup {None}
    BY <2>1 DEF IInv, TypeOK, Jobs
  <2> QED
    BY <1>7, <1>17, <2>1, <2>2 DEF IInv, Paired
<1>19. Paired'
  <2> SUFFICES ASSUME NEW k \in Listed', job'[k].process # None
               PROVE  job'[job'[k].process].item = job'[k].item
    BY DEF Paired
  <2>1. k # n
    BY <1>5, <1>7
  <2> QED
    BY <1>18, <2>1 DEF IInv, Paired
<1>20. SomebodyReports'
  <2> SUFFICES ASSUME NEW k \in Listed'
               PROVE  /\ job'[k].state = "starting" =>
                            k \in raised' \/ \E a \in Threads : thread'[a].mine = k
                      /\ job'[k].state = "running" =>
                            /\ job'[k].process # None
                            /\ \/ job'[k].process \in raised'
                               \/ watcher'[job'[k].process] \in {New, job'[k].process}
    BY DEF SomebodyReports
  <2>1. CASE k = n
    BY <2>1, <1>5, <1>6, <1>7
  <2>2. CASE k # n
    <3>1. k \in Listed /\ k \in Ids /\ job'[k] = job[k]
      BY <2>2, <1>18
    <3>2. /\ job[k].state = "starting" =>
                k \in raised \/ \E a \in Threads : thread[a].mine = k
          /\ job[k].state = "running" =>
                /\ job[k].process # None
                /\ \/ job[k].process \in raised
                   \/ watcher[job[k].process] \in {New, job[k].process}
      BY <3>1 DEF IInv, SomebodyReports
    <3>3. ASSUME NEW a \in Threads, thread[a].mine = k PROVE thread'[a].mine = k
      <4>1. a # t /\ a \in Actors
        BY <3>1, <3>3, <1>1 DEF Ids, Actors
      <4> QED
        BY <3>3, <4>1, <1>6
    <3>4. UNCHANGED <<watcher, raised>>
      BY DEF Register
    <3> QED
      BY <3>1, <3>2, <3>3, <3>4
  <2> QED
    BY <2>1, <2>2
<1> QED
  BY <1>9, <1>12, <1>13, <1>14, <1>15, <1>16, <1>19, <1>20 DEF IInv

\* Steps after which a thread holds no job and the table holds less.
LEMMA RefusingSteps ==
    ASSUME IInv, NEW t \in Threads, Busy(t) \/ Stop(t)
    PROVE  IInv'
<1> USE TranscodeConstants
<1>1. /\ t \in Actors /\ thread[t].mine = None /\ thread[t].call.item \in Items
      /\ NoCall \in Calls /\ "idle" \in Steps /\ None \in Ids \cup {None}
  BY DEF Busy, Stop, At, IInv, Holding, Actors, NoCall, Calls, Steps, Versions
<1>2. PICK doomed \in SUBSET Ids : Moves(t, "idle", NoCall, None, doomed)
  BY <1>1 DEF Busy, Stop, IInv, TypeOK
<1>3. /\ thread' \in [Actors -> ThreadStates]
      /\ thread'[t].pc = "idle" /\ thread'[t].mine = None
      /\ \A b \in Actors \ {t} : thread'[b] = thread[b]
  <2>1. /\ thread' \in [Actors -> ThreadStates]
        /\ thread'[t] = [pc |-> "idle", call |-> NoCall, mine |-> None,
                         doomed |-> doomed]
        /\ \A b \in Actors \ {t} : thread'[b] = thread[b]
    BY <1>1, <1>2, MovesThread
  <2> QED
    BY <2>1
<1>4. /\ table' \in [Items -> Ids \cup {None}]
      /\ \A i \in Items : table'[i] \in {table[i], None}
  BY DEF Busy, Stop, IInv, TypeOK
<1>5. UNCHANGED <<job, started, process, manifests, version, watcher, stopping,
                  trouble, raised>>
  BY DEF Busy, Stop
<1>6. TypeOK'
  BY <1>3, <1>4, <1>5 DEF IInv, TypeOK
<1>7. (Filed /\ Created /\ Known /\ NotYet /\ Changes)'
  BY <1>4, <1>5 DEF IInv, TypeOK, Filed, Created, Known, NotYet, Changes
<1>8. Holding'
  BY <1>1, <1>3, <1>5 DEF IInv, Holding, Actors
<1>9. (Paired /\ SomebodyReports)'
  BY <1>1, <1>3, <1>4, <1>5 DEF IInv, TypeOK, Paired, SomebodyReports, Listed, Actors
<1> QED
  BY <1>6, <1>7, <1>8, <1>9 DEF IInv

\* Steps that only bring the thread on its way to Popen, or behind it.
LEMMA SpawnSteps ==
    ASSUME IInv, NEW t \in Threads, MakeDir(t) \/ Spawn(t)
    PROVE  IInv'
<1> USE TranscodeConstants
<1> DEFINE n == thread[t].mine
<1>1. /\ t \in Actors /\ n \in Ids /\ n <= started
      /\ n # None
  BY DEF IInv, TypeOK, ThreadStates, Holding, MakeDir, Spawn, At, Actors
<1>2. PICK pc \in {"popen", "record"} : thread' = [thread EXCEPT ![t].pc = pc]
  BY DEF MakeDir, Spawn, Goto
<1>3. thread' \in [Actors -> ThreadStates]
  BY <1>2 DEF IInv, TypeOK, ThreadStates, Steps
<1>4. \A a \in Actors : /\ thread'[a].call = thread[a].call
                        /\ thread'[a].mine = thread[a].mine
                        /\ thread'[a].pc = IF a = t THEN pc ELSE thread[a].pc
  BY <1>1, <1>2 DEF IInv, TypeOK, ThreadStates
<1>5. /\ process' = process \/ process' = [process EXCEPT ![n] = "running"]
      /\ manifests' \subseteq manifests
  BY DEF MakeDir, Spawn
<1>6. UNCHANGED <<table, job, started, version, watcher, stopping, trouble,
                  raised>>
  BY DEF MakeDir, Spawn
<1> HIDE DEF n
<1>7. TypeOK'
  BY <1>1, <1>3, <1>5, <1>6 DEF IInv, TypeOK
<1>8. (Filed /\ Created /\ Known /\ NotYet /\ Changes)'
  BY <1>1, <1>5, <1>6 DEF IInv, TypeOK, Filed, Created, Known, NotYet, Changes
<1>9. Holding'
  BY <1>1, <1>2, <1>4, <1>6 DEF IInv, Holding, Actors, n
<1>10. (Paired /\ SomebodyReports)'
  BY <1>4, <1>6 DEF IInv, Paired, SomebodyReports, Listed, Actors
<1> QED
  BY <1>7, <1>8, <1>9, <1>10 DEF IInv

\* What SpawnFails and Record have in common: the thread lets its job go.  When
\* that job is still in the table, it is the one whose state is set.
LEMMA LetsGo ==
    ASSUME IInv, NEW t \in Threads, thread[t].pc \in {"popen", "record"},
           ThenSnapshot(t)
    PROVE  /\ thread[t].mine \in Ids /\ thread[t].mine <= started
           /\ job[thread[t].mine].item \in Items
           /\ thread' \in [Actors -> ThreadStates]
           /\ UNCHANGED started => Holding'
           /\ \A a \in Threads \ {t} : thread'[a] = thread[a]
           /\ \A k \in Listed : thread[t].mine = k => table[job[k].item] = k
<1> USE TranscodeConstants
<1>1. /\ t \in Actors /\ thread[t].mine \in Ids /\ thread[t].mine <= started
      /\ thread[t].mine # None
  BY DEF IInv, TypeOK, ThreadStates, Holding, Actors
<1>2. job[thread[t].mine].item \in Items
  BY <1>1 DEF IInv, Created
<1> DEFINE call == [thread[t].call EXCEPT !.op = "poll"]
<1>3. thread[t].call \in Calls
  BY <1>1 DEF IInv, TypeOK, ThreadStates
<1>4. call \in Calls /\ call.item = thread[t].call.item
  BY <1>3 DEF Calls, Ops
<1>5. Moves(t, "cleanup", call, None, {})
  BY DEF ThenSnapshot
<1> HIDE DEF call
<1>6. /\ "cleanup" \in Steps /\ None \in Ids \cup {None} /\ {} \in SUBSET Ids
  BY DEF Steps
<1>7. /\ thread' \in [Actors -> ThreadStates]
      /\ thread'[t] = [pc |-> "cleanup", call |-> call, mine |-> None,
                       doomed |-> {}]
      /\ \A b \in Actors \ {t} : thread'[b] = thread[b]
  BY <1>1, <1>4, <1>5, <1>6, MovesThread
<1>8. thread[t].call.item \in Items
  BY DEF IInv, Holding
<1>9. UNCHANGED started => Holding'
  BY <1>1, <1>4, <1>7, <1>8 DEF IInv, Holding, Actors
<1>10. \A k \in Listed : table[job[k].item] = k
  BY DEF IInv, TypeOK, Listed, Filed
<1> QED
  BY <1>1, <1>2, <1>7, <1>9, <1>10 DEF Actors

LEMMA SpawnFailsSteps ==
    ASSUME IInv, NEW t \in Threads, SpawnFails(t)
    PROVE  IInv'
<1> USE TranscodeConstants
<1> DEFINE n == thread[t].mine
           stored == table[job[n].item]
<1>1. /\ n \in Ids /\ job[n].item \in Items /\ stored \in Ids \cup {None}
      /\ thread' \in [Actors -> ThreadStates]
      /\ Holding'
      /\ \A a \in Threads \ {t} : thread'[a] = thread[a]
      /\ \A k \in Listed : n = k => stored = k
  BY LetsGo DEF SpawnFails, At, IInv, TypeOK
<1>2. job' = IF stored = None THEN job ELSE [job EXCEPT ![stored].state = "failed"]
  BY DEF SpawnFails
<1>3. UNCHANGED <<table, started, process, manifests, version, watcher, stopping,
                  trouble, raised>>
  BY DEF SpawnFails
<1> HIDE DEF n, stored
<1>4. job' \in [Ids -> Jobs]
  BY <1>1, <1>2 DEF IInv, TypeOK, Jobs
<1>5. \A k \in Ids :
         /\ job'[k].item = job[k].item /\ job'[k].process = job[k].process
         /\ job'[k].state = IF k = stored THEN "failed" ELSE job[k].state
  BY <1>1, <1>2 DEF IInv, TypeOK, Jobs, Ids
<1>6. TypeOK'
  BY <1>1, <1>3, <1>4 DEF IInv, TypeOK
<1>7. (Filed /\ Created /\ Known /\ NotYet /\ Changes)'
  BY <1>3, <1>5 DEF IInv, TypeOK, Filed, Created, Known, NotYet, Changes
<1>8. SomebodyReports'
  BY <1>1, <1>3, <1>5 DEF IInv, TypeOK, SomebodyReports, Listed, n
<1>9. Paired'
  BY <1>3, <1>5, ListedJobs DEF IInv, Paired, Listed
<1> QED
  BY <1>1, <1>6, <1>7, <1>8, <1>9 DEF IInv

\* The process is filed; either it is watched from now on or its start counts as
\* raised.
LEMMA FileSteps ==
    ASSUME IInv, NEW t \in Threads, File(t),
           thread' \in [Actors -> ThreadStates], Holding',
           \A a \in Threads \ {t} : thread'[a] = thread[a],
           raised \subseteq raised', raised' \subseteq Ids,
           \/ watcher' = [watcher EXCEPT ![thread[t].mine] = New]
           \/ watcher' = watcher /\ thread[t].mine \in raised'
    PROVE  IInv'
<1> USE TranscodeConstants
<1> DEFINE n == thread[t].mine
           stored == table[job[n].item]
<1>1. /\ n \in Ids /\ n <= started /\ job[n].item \in Items
      /\ stored \in Ids \cup {None}
      /\ \A k \in Listed : n = k => stored = k
  <2>1. n \in Ids /\ n <= started
    BY DEF IInv, TypeOK, ThreadStates, Holding, File, At, Actors
  <2>2. job[n].item \in Items
    BY <2>1 DEF IInv, Created
  <2>3. \A k \in Listed : table[job[k].item] = k
    BY DEF IInv, TypeOK, Listed, Filed
  <2> QED
    BY <2>1, <2>2, <2>3 DEF IInv, TypeOK
<1>2. stored # None => job[stored].item = job[n].item
  BY <1>1 DEF IInv, Filed
<1>3. job' = IF stored = None THEN job
             ELSE [job EXCEPT ![stored].process = n, ![stored].state = "running"]
  BY DEF File
<1>4. UNCHANGED <<table, started, process, manifests, version, stopping, trouble>>
  BY DEF File
<1>5. \/ watcher' = [watcher EXCEPT ![n] = New]
      \/ watcher' = watcher /\ n \in raised'
  OBVIOUS
<1> HIDE DEF n, stored
<1>6. job' \in [Ids -> Jobs]
  BY <1>1, <1>3 DEF IInv, TypeOK, Jobs
<1>7. \A k \in Ids :
         /\ job'[k].item = job[k].item
         /\ job'[k].process = IF k = stored THEN n ELSE job[k].process
         /\ job'[k].state = IF k = stored THEN "running" ELSE job[k].state
  BY <1>1, <1>3 DEF IInv, TypeOK, Jobs, Ids
<1>8. TypeOK'
  BY <1>1, <1>4, <1>5, <1>6 DEF IInv, TypeOK
<1>9. (Filed /\ Created /\ Known /\ NotYet /\ Changes)'
  BY <1>1, <1>4, <1>5, <1>7 DEF IInv, TypeOK, Filed, Created, Known, NotYet, Changes
<1>10. Paired'
  <2> SUFFICES ASSUME NEW k \in Listed, job'[k].process # None
               PROVE  job'[job'[k].process].item = job'[k].item
    BY <1>4 DEF Paired, Listed
  <2>1. k \in Ids
    BY DEF IInv, TypeOK, Listed
  <2>2. CASE k = stored
    BY <1>1, <1>2, <1>7, <2>1, <2>2 DEF Ids
  <2>3. CASE k # stored
    <3>1. job'[k].process = job[k].process /\ job[k].process \in Ids
      BY <1>7, <2>1, <2>3 DEF IInv, TypeOK, Jobs
    <3> QED
      BY <1>7, <2>1, <3>1 DEF IInv, Paired
  <2> QED
    BY <2>2, <2>3
<1>11. /\ watcher'[n] = New \/ n \in raised'
       /\ \A p \in Ids : watcher'[p] \in {watcher[p], New}
       /\ n # None
  BY <1>1, <1>5 DEF IInv, TypeOK, Ids
<1>12. ASSUME NEW k \in Listed, k \in Ids
       PROVE  /\ job'[k].state = "starting" =>
                    k \in raised' \/ \E a \in Threads : thread'[a].mine = k
              /\ job'[k].state = "running" =>
                    /\ job'[k].process # None
                    /\ \/ job'[k].process \in raised'
                       \/ watcher'[job'[k].process] \in {New, job'[k].process}
  <2>1. CASE k = stored
    BY <1>1, <1>7, <1>11, <1>12, <2>1
  <2>2. CASE k # stored
    <3>1. /\ job'[k].process = job[k].process /\ job'[k].state = job[k].state
          /\ job[k].process \in Ids \cup {None}
      BY <1>7, <1>12, <2>2 DEF IInv, TypeOK, Jobs
    <3>2. job[k].state = "starting" =>
              k \in raised' \/ \E a \in Threads : thread'[a].mine = k
      BY <1>1, <1>12, <2>2 DEF IInv, SomebodyReports, n
    <3>3. job[k].state = "running" =>
              /\ job[k].process # None
              /\ \/ job[k].process \in raised
                 \/ watcher[job[k].process] \in {New, job[k].process}
      BY <1>12 DEF IInv, SomebodyReports
    <3> QED
      BY <1>11, <3>1, <3>2, <3>3
  <2> QED
    BY <2>1, <2>2
<1>13. SomebodyReports'
  BY <1>4, <1>12 DEF SomebodyReports, Listed, IInv, TypeOK
<1> QED
  BY <1>8, <1>9, <1>10, <1>13 DEF IInv

LEMMA RecordSteps ==
    ASSUME IInv, NEW t \in Threads, Record(t) \/ RecordUnwatched(t)
    PROVE  IInv'
<1> USE TranscodeConstants
<1>1. t \in Actors /\ thread[t].pc = "record" /\ UNCHANGED started /\ File(t)
  BY DEF Record, RecordUnwatched, File, At, Actors
<1>2. CASE Record(t)
  BY <1>1, <1>2, LetsGo, FileSteps DEF Record, IInv, TypeOK
<1>3. CASE RecordUnwatched(t)
  <2>1. thread[t].mine # None
    BY <1>1 DEF IInv, Holding
  <2> QED
    BY <1>1, <1>3, <2>1, RaiseThread, FileSteps DEF RecordUnwatched, Actors
<1> QED
  BY <1>2, <1>3

-----------------------------------------------------------------------------
(* The watchers *)

LEMMA WatchBeginsSteps ==
    ASSUME IInv, NEW p \in Ids, WatchBegins(p)
    PROVE  IInv'
<1> USE TranscodeConstants
<1> DEFINE n == table[job[p].item]
<1>1. p <= started /\ job[p].item \in Items /\ n \in Ids \cup {None}
  BY DEF IInv, TypeOK, Created, WatchBegins
<1>2. watcher' = [watcher EXCEPT ![p] =
            IF n # None /\ job[n].process # None THEN job[n].process ELSE Over]
      /\ UNCHANGED <<table, job, started, process, manifests, version, thread,
                     stopping, trouble, raised>>
  BY DEF WatchBegins
<1> HIDE DEF n
<1>3. n # None => job[n].process \in Ids \cup {None}
  BY <1>1 DEF IInv, TypeOK, Jobs
<1>4. TypeOK'
  BY <1>2, <1>3 DEF IInv, TypeOK
<1>5. (Filed /\ Created /\ Holding /\ Known /\ NotYet /\ Changes)'
  BY <1>1, <1>2 DEF IInv, TypeOK, Filed, Created, Holding, Known, NotYet, Changes
<1>6. ASSUME NEW k \in Listed, job[k].state = "running",
             job[k].process \notin raised
      PROVE  watcher'[job[k].process] \in {New, job[k].process}
  <2>1. /\ job[k].process \in Ids
        /\ watcher[job[k].process] \in {New, job[k].process}
    <3>1. k \in Ids
      BY DEF IInv, TypeOK, Listed
    <3> QED
      BY <1>6, <3>1 DEF IInv, TypeOK, Jobs, SomebodyReports
  <2>2. CASE job[k].process # p
    BY <1>2, <2>1, <2>2 DEF IInv, TypeOK
  <2>3. CASE job[k].process = p
    <3>1. k = n /\ k # None /\ p # None
      BY <2>1, <2>3, ListedJobs DEF IInv, Paired, n, Ids
    <3>2. watcher' = [watcher EXCEPT ![p] = p]
      BY <1>2, <2>3, <3>1
    <3> QED
      BY <2>3, <3>2 DEF IInv, TypeOK
  <2> QED
    BY <2>2, <2>3
<1>7. Paired' /\ SomebodyReports'
  BY <1>2, <1>6 DEF IInv, Paired, SomebodyReports, Listed
<1> QED
  BY <1>4, <1>5, <1>7 DEF IInv

\* Only the process it was started for counts as unwatched from now on.
LEMMA WatchRaisesSteps ==
    ASSUME IInv, NEW p \in Ids, WatchRaises(p)
    PROVE  IInv'
<1> USE TranscodeConstants
<1>1. /\ watcher' = [watcher EXCEPT ![p] = Over] /\ raised' = raised \cup {p}
      /\ UNCHANGED <<table, job, started, process, manifests, version, thread,
                     stopping, trouble>>
  BY DEF WatchRaises
<1>2. TypeOK'
  BY <1>1 DEF IInv, TypeOK
<1>3. p <= started
  BY DEF IInv, TypeOK, Created, WatchRaises, Ids
<1>4. (Filed /\ Created /\ Holding /\ Known /\ NotYet /\ Changes)'
  BY <1>1, <1>3 DEF IInv, TypeOK, Filed, Created, Holding, Known, NotYet, Changes
<1>5. \A q \in Ids \cup {None} : q \in raised' \/ watcher'[q] = watcher[q]
  BY <1>1 DEF IInv, TypeOK
<1>6. \A n \in Listed : job[n].process \in Ids \cup {None}
  BY DEF IInv, TypeOK, Listed, Jobs
<1>7. (Paired /\ SomebodyReports)'
  BY <1>1, <1>5, <1>6 DEF IInv, Paired, SomebodyReports, Listed
<1> QED
  BY <1>2, <1>4, <1>7 DEF IInv

LEMMA WatchEndsSteps ==
    ASSUME IInv, NEW p \in Ids, WatchEnds(p)
    PROVE  IInv'
<1> USE TranscodeConstants
<1> DEFINE n == table[job[p].item]
           state == IF process[watcher[p]] = "done" THEN "completed" ELSE "failed"
<1>1. p <= started /\ job[p].item \in Items /\ n \in Ids \cup {None}
  BY DEF IInv, TypeOK, Created, WatchEnds, Ids
<1>2. /\ job' = IF n = None THEN job
                ELSE [job EXCEPT ![n].process = None, ![n].state = state]
      /\ watcher' = [watcher EXCEPT ![p] = Over]
      /\ UNCHANGED <<table, started, process, manifests, version, thread,
                     stopping, trouble, raised>>
  BY DEF WatchEnds
<1>3. state \in {"completed", "failed"}
  OBVIOUS
<1> HIDE DEF n, state
<1>4. job' \in [Ids -> Jobs]
  BY <1>1, <1>2, <1>3 DEF IInv, TypeOK, Jobs
<1>5. \A k \in Ids :
         /\ job'[k].item = job[k].item
         /\ job'[k].process = IF k = n THEN None ELSE job[k].process
         /\ job'[k].state = IF k = n THEN state ELSE job[k].state
  BY <1>1, <1>2 DEF IInv, TypeOK, Jobs, Ids
<1>6. TypeOK'
  BY <1>2, <1>4 DEF IInv, TypeOK
<1>7. (Filed /\ Created /\ Holding /\ Known /\ NotYet /\ Changes)'
  BY <1>1, <1>2, <1>3, <1>5 DEF IInv, TypeOK, Filed, Created, Holding, Known,
                               NotYet, Changes
<1>8. ASSUME NEW k \in Listed, k # n
      PROVE  k \in Ids /\ job[k].process \in Ids \cup {None} /\ job[k].process # p
  <2>1. k \in Ids /\ job[k].process \in Ids \cup {None}
    BY DEF IInv, TypeOK, Listed, Jobs
  <2>2. k = table[job[k].item]
    BY DEF IInv, Filed, Listed
  <2> QED
    BY <1>8, <2>1, <2>2 DEF IInv, Paired, Ids, n
<1>9. Paired'
  BY <1>2, <1>5, <1>8 DEF IInv, TypeOK, Paired, Listed
<1>10. SomebodyReports'
  <2>1. \A q \in Ids \ {p} : watcher'[q] = watcher[q]
    BY <1>2 DEF IInv, TypeOK
  <2>0. Listed' = Listed /\ raised' = raised /\ thread' = thread
    BY <1>2 DEF Listed
  <2> SUFFICES ASSUME NEW k \in Listed
               PROVE  /\ job'[k].state = "starting" =>
                            k \in raised \/ \E a \in Threads : thread[a].mine = k
                      /\ job'[k].state = "running" =>
                            /\ job'[k].process # None
                            /\ \/ job'[k].process \in raised
                               \/ watcher'[job'[k].process] \in {New, job'[k].process}
    BY <2>0 DEF SomebodyReports
  <2>2. CASE k = n
    <3>1. k \in Ids
      BY DEF IInv, TypeOK, Listed
    <3> QED
      BY <1>3, <1>5, <2>2, <3>1
  <2>3. CASE k # n
    <3>1. /\ job'[k].state = job[k].state /\ job'[k].process = job[k].process
          /\ job[k].process \in (Ids \ {p}) \cup {None}
      BY <1>5, <1>8, <2>3
    <3>2. /\ job[k].state = "starting" =>
                k \in raised \/ \E a \in Threads : thread[a].mine = k
          /\ job[k].state = "running" =>
                /\ job[k].process # None
                /\ \/ job[k].process \in raised
                   \/ watcher[job[k].process] \in {New, job[k].process}
      BY DEF IInv, SomebodyReports
    <3> QED
      BY <2>1, <3>1, <3>2
  <2> QED
    BY <2>2, <2>3
<1> QED
  BY <1>6, <1>7, <1>9, <1>10 DEF IInv

-----------------------------------------------------------------------------

LEMMA Inductive == IInv /\ [Next]_vars => IInv'
<1> SUFFICES ASSUME IInv, [Next]_vars PROVE IInv'
  OBVIOUS
<1>1. ASSUME NEW t \in Threads, ThreadStep(t) PROVE IInv'
  <2>1. CASE CleanupFirst(t)
    BY <2>1, CleanupSteps DEF CleanupFirst, At, Actors
  <2>2. CASE Admit(t) \/ AdmitReplacing(t)
    <3>1. PICK popped : /\ Register(t, popped)
                        /\ popped \subseteq Listed \cup ({table[thread[t].call.item]} \ {None})
      BY <2>2 DEF Admit, AdmitReplacing, Replaceable, OwnJobs, Others
    <3>2. thread[t].pc = "admit" /\ thread[t].call.item \in Items
      BY <2>2 DEF Admit, AdmitReplacing, At, IInv, Holding
    <3>3. popped \in SUBSET Ids
      BY <3>1, <3>2 DEF IInv, TypeOK, Listed
    <3> QED
      BY <2>2, <3>1, <3>2, <3>3, RegisterSteps DEF Admit, AdmitReplacing
  <2>3. CASE MakeDirFails(t)
    BY <2>3, ErrorSteps DEF MakeDirFails, Actors
  <2> QED
    BY <1>1, <2>1, <2>2, <2>3, SnapshotSteps, RefusingSteps, SpawnSteps,
       SpawnFailsSteps, RecordSteps DEF ThreadStep
<1>2. CASE UNCHANGED vars
  BY <1>2 DEF vars, IInv, TypeOK, Filed, Created, Holding, Known, NotYet, Changes,
              Paired, SomebodyReports, Listed
<1>3. ASSUME NEW t \in Actors, NEW n \in Ids, TerminateFails(t, n) PROVE IInv'
  BY <1>3, ErrorSteps DEF TerminateFails
<1> QED
  BY <1>1, <1>2, <1>3, WorldSteps, OutsideSteps, RequestSteps, TerminateSteps,
     WatchBeginsSteps, WatchEndsSteps, WatchRaisesSteps DEF Next

\* Types, for every step of every thread.
THEOREM TypeCorrect == Spec => []TypeOK
<1>1. IInv => TypeOK
  BY DEF IInv
<1> QED
  BY <1>1, InitHolds, Inductive, PTL DEF Spec

\* A job that is shown as starting or running is about to change, unless the
\* thread that was to start it, to have it watched or to watch it ended with an
\* error: races, stops and replacements alone leave nobody looking at a job that
\* no thread and no watcher will settle (_start_process, _watch_process).
THEOREM JobsAreReported == Spec => []SomebodyReports
<1>1. IInv => SomebodyReports
  BY DEF IInv
<1> QED
  BY <1>1, InitHolds, Inductive, PTL DEF Spec

-----------------------------------------------------------------------------
(* Whom a thread ends: the jobs it takes out of the table to terminate. *)

Entitled(t, n) ==
    \/ job[n].idle >= Abandoned
    \/ job[n].user = thread[t].call.user
    \/ thread[t].call.op = "start" /\ thread[t].call.item = job[n].item

EndsEntitled ==
    \A t \in Threads, n \in Ids :
        n \in thread'[t].doomed \ thread[t].doomed => Entitled(t, n)

\* One thread moves on; what it takes is Entitled, the others take nothing.
LEMMA OneTakes ==
    ASSUME IInv, NEW t \in Actors, NEW pc, NEW call, NEW mine, NEW D,
           Moves(t, pc, call, mine, D),
           t \in Threads => \A n \in D \cap Ids : Entitled(t, n)
    PROVE  EndsEntitled
<1>1. \A a \in Actors :
          thread'[a] = IF a = t THEN [pc |-> pc, call |-> call, mine |-> mine,
                                      doomed |-> D]
                       ELSE thread[a]
  BY DEF Moves, IInv, TypeOK
<1> QED
  BY <1>1 DEF EndsEntitled, Actors

LEMMA RemovedAreAbandoned ==
    ASSUME IInv
    PROVE  \A n \in Removable : n \in Ids /\ job[n].idle >= Abandoned
<1>1. Listed \subseteq Ids
  BY DEF IInv, TypeOK, Listed
<1>2. \A n \in Ids : job[n].idle \in 0..2
  BY DEF IInv, TypeOK, Jobs, Lately, Stale
<1> QED
  BY <1>1, <1>2 DEF Removable, Abandoned, Stale

\* A start takes the job of its own item and, when the cap is reached, one more
\* of its own user.
LEMMA RegisteredIsEntitled ==
    ASSUME IInv, NEW t \in Threads, Admit(t) \/ AdmitReplacing(t)
    PROVE  EndsEntitled
<1> DEFINE call == thread[t].call
<1>1. call.op = "start" /\ call.item \in Items /\ t \in Actors
  BY DEF Admit, AdmitReplacing, At, IInv, Holding, Actors
<1>2. \A n \in {table[call.item]} \ {None} : job[n].item = call.item
  BY <1>1 DEF IInv, Filed
<1>3. \A n \in Replaceable(call.item, call.user) : job[n].user = call.user
  BY DEF Replaceable, OwnJobs
<1>4. \E popped : /\ Register(t, popped)
                  /\ \A n \in popped : Entitled(t, n)
  <2>1. CASE Admit(t)
    BY <2>1, <1>1, <1>2 DEF Admit, Entitled
  <2>2. CASE AdmitReplacing(t)
    <3>1. PICK n \in Replaceable(call.item, call.user) :
              Register(t, ({table[call.item]} \ {None}) \cup {n})
      BY <2>2 DEF AdmitReplacing
    <3> QED
      BY <3>1, <1>1, <1>2, <1>3 DEF Entitled
  <2> QED
    BY <2>1, <2>2
<1>5. PICK popped : Register(t, popped) /\ \A n \in popped : Entitled(t, n)
  BY <1>4
<1>6. Moves(t, "spawn", thread[t].call, started + 1, popped)
  BY <1>5 DEF Register
<1> QED
  BY <1>1, <1>5, <1>6, OneTakes

LEMMA StepsAreEntitled == IInv /\ [Next]_vars => EndsEntitled
<1> SUFFICES ASSUME IInv, [Next]_vars PROVE EndsEntitled
  OBVIOUS
<1> USE TranscodeConstants
<1>1. ASSUME UNCHANGED thread PROVE EndsEntitled
  BY <1>1 DEF EndsEntitled
<1>2. \A t \in Threads : t \in Actors
  BY DEF Actors
<1>3. ASSUME NEW t \in Threads, NEW pc, NEW call, NEW mine,
             Moves(t, pc, call, mine, {})
      PROVE  EndsEntitled
  BY <1>2, <1>3, OneTakes
<1>4. ASSUME NEW t \in Actors, NEW pc, Goto(t, pc) PROVE EndsEntitled
  <2>1. \A a \in Actors : thread'[a].doomed = thread[a].doomed
    BY <1>4 DEF Goto, IInv, TypeOK, ThreadStates
  <2> QED
    BY <1>2, <2>1 DEF EndsEntitled
<1>5. ASSUME NEW i \in Items, Rescan(i) \/ Serve(i) PROVE EndsEntitled
  BY <1>1, <1>5 DEF Rescan, Serve
<1>6. ASSUME NEW n \in Ids,
             \/ Age(n) \/ FfmpegEnds(n)
             \/ WatchBegins(n) \/ WatchEnds(n) \/ WatchRaises(n)
      PROVE  EndsEntitled
  BY <1>1, <1>6 DEF Age, FfmpegEnds, WatchBegins, WatchEnds, WatchRaises
<1>7. ASSUME NEW a \in Asked, Request(a.thread, a.user, a.item, a.op)
      PROVE  EndsEntitled
  BY <1>3, <1>7 DEF Request
<1>8. ASSUME NEW t \in Threads, ThreadStep(t) PROVE EndsEntitled
  <2>1. CASE CleanupFirst(t)
    BY <1>2, <2>1, RemovedAreAbandoned, OneTakes
    DEF CleanupFirst, Cleanup, Entitled
  <2>2. CASE Snapshot(t) \/ Busy(t) \/ SpawnFails(t) \/ Record(t)
    BY <1>3, <2>2 DEF Snapshot, Busy, SpawnFails, Record, ThenSnapshot
  <2>6. CASE MakeDirFails(t) \/ RecordUnwatched(t)
    BY <1>3, <2>6 DEF MakeDirFails, RecordUnwatched, Raise
  <2>3. CASE Admit(t) \/ AdmitReplacing(t)
    BY <2>3, RegisteredIsEntitled
  <2>4. CASE Stop(t)
    <3> DEFINE n == table[thread[t].call.item]
               own == /\ n # None /\ job[n].version = thread[t].call.seen
                      /\ job[n].user = thread[t].call.user
    <3>1. Moves(t, "idle", NoCall, None, IF own THEN {n} ELSE {})
      BY <2>4 DEF Stop
    <3>2. \A k \in IF own THEN {n} ELSE {} : Entitled(t, k)
      BY DEF Entitled
    <3> QED
      BY <1>2, <3>1, <3>2, OneTakes
  <2>5. CASE MakeDir(t) \/ Spawn(t)
    BY <1>2, <1>4, <2>5 DEF MakeDir, Spawn
  <2> QED
    BY <1>8, <2>1, <2>2, <2>3, <2>4, <2>5, <2>6 DEF ThreadStep
<1>9. ASSUME NEW t \in Actors, NEW n \in Ids, Terminate(t, n)
      PROVE  EndsEntitled
  <2>1. thread' = [thread EXCEPT ![t].doomed = thread[t].doomed \ {n}]
    BY <1>9 DEF Terminate, IInv, TypeOK
  <2>2. \A a \in Actors : thread'[a].doomed \subseteq thread[a].doomed
    BY <2>1 DEF IInv, TypeOK, ThreadStates
  <2> QED
    BY <1>2, <2>2 DEF EndsEntitled
<1>10. CASE CleanerRound
  BY <1>10, OneTakes DEF CleanerRound, Cleanup, Actors
<1>11. CASE RemoveOldDirs
  BY <1>4, <1>11 DEF RemoveOldDirs, Actors
<1>12. CASE Shutdown
  <2>1. \A t \in Threads : thread'[t] = thread[t]
    BY <1>12 DEF Shutdown, IInv, TypeOK, Actors
  <2> QED
    BY <2>1 DEF EndsEntitled
<1>13. CASE UNCHANGED vars
  BY <1>1, <1>13 DEF vars
<1>14. ASSUME NEW t \in Actors, NEW n \in Ids, TerminateFails(t, n)
       PROVE  EndsEntitled
  BY <1>14, OneTakes DEF TerminateFails, Raise
<1> QED
  BY <1>5, <1>6, <1>7, <1>8, <1>9, <1>10, <1>11, <1>12, <1>13, <1>14 DEF Next

-----------------------------------------------------------------------------
(* The cap *)

AliveJobs == {n \in Listed : Alive(n)}

LEMMA ListedIsFinite ==
    ASSUME IInv
    PROVE  /\ Listed \subseteq Ids /\ IsFiniteSet(Ids)
           /\ \A S \in SUBSET Ids : IsFiniteSet(S) /\ Cardinality(S) \in Nat
<1>1. Listed \subseteq Ids
  BY DEF IInv, TypeOK, Listed
<1>2. IsFiniteSet(Ids)
  BY FS_Interval, TranscodeConstants DEF Ids
<1> QED
  BY <1>1, <1>2, FS_Subset, FS_CardinalityType

\* After a start the jobs with a running encoder are those it left in the table.
LEMMA AliveAfterStart ==
    ASSUME IInv, NEW t \in Threads, NEW popped \in SUBSET Ids,
           thread[t].pc = "admit", Register(t, popped), UNCHANGED process
    PROVE  /\ AliveJobs' \subseteq {n \in Listed \ popped : Alive(n)}
           /\ AliveJobs' \subseteq
                  {n \in Listed : n # table[thread[t].call.item] /\ Alive(n)}
           /\ Pending = {} => Cardinality(Pending') = 1
<1> USE TranscodeConstants
<1> DEFINE call == thread[t].call
<1>1. t \in Actors /\ call.item \in Items /\ started + 1 \in Ids
  BY DEF IInv, TypeOK, Holding, Actors, Register, Ids
<1>0. PICK new \in Ids : new = started + 1
  BY <1>1
<1> DEFINE fresh == [item |-> call.item, user |-> call.user, version |-> call.seen,
                     idle |-> Lately, state |-> "starting", process |-> None]
<1>2. /\ job' = [job EXCEPT ![new] = fresh]
      /\ table' = [Forget(popped) EXCEPT ![call.item] = new]
      /\ Moves(t, "spawn", call, new, popped)
  BY <1>0 DEF Register
<1>3. fresh.process = None
  OBVIOUS
<1> HIDE DEF fresh
<1>4. /\ job'[new].process = None
      /\ \A k \in Ids \ {new} : job'[k] = job[k]
  BY <1>2, <1>3 DEF IInv, TypeOK
<1>5. new \notin Listed
  <2>1. \A k \in Listed : k <= started
    BY DEF IInv, Known, Listed
  <2> QED
    BY <1>0, <2>1 DEF IInv, TypeOK
<1>6. /\ table' \in [Items -> Ids \cup {None}]
      /\ table'[call.item] = new
      /\ \A i \in Items \ {call.item} :
             table'[i] # None => table'[i] = table[i] /\ table[i] \notin popped
  BY <1>1, <1>2 DEF IInv, TypeOK, Forget
<1> HIDE DEF call
<1>7. /\ ~Alive(new)'
      /\ \A k \in Ids \ {new} : Alive(k)' <=> Alive(k)
  <2>1. ~Alive(new)'
    BY <1>4 DEF Alive
  <2>2. ASSUME NEW k \in Ids \ {new} PROVE Alive(k)' <=> Alive(k)
    BY <1>4, <2>2 DEF Alive
  <2> QED
    BY <2>1, <2>2
<1>8. \A k \in Listed' : k = new \/ \E i \in Items \ {call.item} :
          k = table[i] /\ k \in Listed \ popped
  BY <1>6 DEF Listed
<1>9. \A i \in Items \ {call.item} : table[i] # None => table[i] # table[call.item]
  BY <1>1 DEF IInv, Filed
<1>10. Listed \subseteq Ids
  BY ListedIsFinite
<1>11. ASSUME NEW k \in AliveJobs'
       PROVE  /\ k \in Listed \ popped /\ Alive(k)
              /\ k # table[call.item]
  <2>1. k \in Listed' /\ Alive(k)'
    BY <1>11 DEF AliveJobs
  <2>2. k # new
    BY <1>7, <2>1
  <2>3. PICK i \in Items \ {call.item} : k = table[i] /\ k \in Listed \ popped
    BY <1>8, <2>1, <2>2
  <2>4. k # None
    BY <2>3 DEF Listed
  <2> QED
    BY <1>7, <1>9, <1>10, <2>1, <2>2, <2>3, <2>4
<1>12. Pending = {} => Cardinality(Pending') = 1
  <2>1. \A a \in Actors :
            thread'[a] = IF a = t THEN [pc |-> "spawn", call |-> call,
                                        mine |-> new, doomed |-> popped]
                         ELSE thread[a]
    BY <1>2 DEF Moves, IInv, TypeOK
  <2>2. new # None
    BY <1>0 DEF Ids
  <2>3. Pending = {} => Pending' = {t}
    BY <2>1, <2>2 DEF Pending, Actors
  <2> QED
    BY <2>3, FS_Singleton
<1> QED
  BY <1>11, <1>12 DEF call

LEMMA StartKeepsTheCap ==
    ASSUME IInv, NEW t \in Threads, Admit(t) \/ AdmitReplacing(t), Pending = {}
    PROVE  Load' <= MaxJobs \/ Load' <= Load
<1> USE TranscodeConstants
<1> DEFINE item == thread[t].call.item
<1>1. thread[t].pc = "admit" /\ item \in Items /\ UNCHANGED process
  BY DEF Admit, AdmitReplacing, At, IInv, Holding
<1>2. AliveJobs \subseteq Ids /\ Others(item) \subseteq Ids
  BY ListedIsFinite DEF AliveJobs, Others
<1>3. /\ IsFiniteSet(AliveJobs) /\ Cardinality(AliveJobs) \in Nat
      /\ IsFiniteSet(Others(item)) /\ Cardinality(Others(item)) \in Nat
  BY <1>2, ListedIsFinite
<1>4. Load' = Cardinality(AliveJobs') + Cardinality(Pending')
  BY DEF Load, AliveJobs
<1>5. Load = Cardinality(AliveJobs)
  <2>1. Cardinality(Pending) = 0
    BY FS_EmptySet
  <2> QED
    BY <1>3, <2>1 DEF Load, AliveJobs
<1>6. {n \in Listed : n # table[item] /\ Alive(n)} \subseteq Others(item)
  <2> SUFFICES ASSUME NEW i \in Items, table[i] # None, table[i] # table[item]
               PROVE  job[table[i]].item # item
    BY DEF Others, Listed
  <2> QED
    BY DEF IInv, Filed
<1>7. CASE Admit(t)
  <2> DEFINE popped == {table[item]} \ {None}
  <2>1. Register(t, popped) /\ Cardinality(Others(item)) < MaxJobs
    BY <1>7 DEF Admit
  <2>2. popped \in SUBSET Ids
    BY <1>1 DEF IInv, TypeOK
  <2>3. AliveJobs' \subseteq Others(item) /\ Cardinality(Pending') = 1
    BY <1>1, <1>6, <2>1, <2>2, AliveAfterStart
  <2>4. /\ Cardinality(AliveJobs') <= Cardinality(Others(item))
        /\ Cardinality(AliveJobs') \in Nat
    BY <1>3, <2>3, FS_Subset, FS_CardinalityType
  <2> QED
    BY <1>3, <1>4, <2>1, <2>3, <2>4
<1>8. CASE AdmitReplacing(t)
  <2>1. PICK n \in Replaceable(item, thread[t].call.user) :
            Register(t, ({table[item]} \ {None}) \cup {n})
    BY <1>8 DEF AdmitReplacing
  <2> DEFINE popped == ({table[item]} \ {None}) \cup {n}
  <2>2. n \in AliveJobs /\ n \in Ids
    BY <1>2 DEF Replaceable, OwnJobs, Others, AliveJobs
  <2>3. popped \in SUBSET Ids
    BY <1>1, <2>2 DEF IInv, TypeOK
  <2>4. /\ AliveJobs' \subseteq {k \in Listed \ popped : Alive(k)}
        /\ Cardinality(Pending') = 1
    BY <1>1, <2>1, <2>3, AliveAfterStart
  <2>5. AliveJobs' \subseteq AliveJobs \ {n}
    BY <2>4 DEF AliveJobs
  <2>6. /\ IsFiniteSet(AliveJobs \ {n})
        /\ Cardinality(AliveJobs \ {n}) = Cardinality(AliveJobs) - 1
    BY <1>3, <2>2, FS_RemoveElement
  <2>7. /\ Cardinality(AliveJobs') <= Cardinality(AliveJobs \ {n})
        /\ Cardinality(AliveJobs') \in Nat
    BY <2>5, <2>6, FS_Subset, FS_CardinalityType
  <2> QED
    BY <1>3, <1>4, <1>5, <2>4, <2>6, <2>7
<1> QED
  BY <1>7, <1>8

\* Nothing but an admitted start counts a job.
LEMMA OnlyStartsStart ==
    ASSUME IInv, [Next]_vars, started' # started
    PROVE  \E t \in Threads : Admit(t) \/ AdmitReplacing(t)
<1>1. QED
  BY DEF Next, Rescan, Serve, Age, FfmpegEnds, WatchBegins, WatchEnds, WatchRaises,
         Request,
         ThreadStep, CleanupFirst, Cleanup, Snapshot, Busy, Stop, MakeDir,
         MakeDirFails, Spawn, SpawnFails, File, Record, RecordUnwatched,
         Terminate, TerminateFails, CleanerRound, RemoveOldDirs, Shutdown, vars

-----------------------------------------------------------------------------
\* A request thread ends a job that its own user had started, the job of the item
\* it starts anew, or one nobody uses: ensure_started, stop_item_for_owner and
\* cleanup_stale under the lock, whatever was filed or forgotten since the
\* thread looked.
THEOREM OthersStreamsGoOn == Spec => StopsOwnJobsOnly
<1>1. IInv /\ [Next]_vars =>
          [\A t \in Threads, n \in Ids :
              n \in thread'[t].doomed \ thread[t].doomed =>
                 \/ job[n].idle >= Abandoned
                 \/ job[n].user = thread[t].call.user
                 \/ thread[t].call.op = "start" /\ thread[t].call.item = job[n].item]_vars
  BY StepsAreEntitled DEF EndsEntitled, Entitled
<1> QED
  BY <1>1, InitHolds, Inductive, PTL DEF Spec, StopsOwnJobsOnly

\* ensure_started compares the cap with the jobs that have a process: a start
\* that is alone leaves no more encoders and starts than the cap allows, or no
\* more than there were.
THEOREM LoneStartsAreCapped == Spec => LoneStartsKeepTheCap
<1>1. IInv /\ [Next]_vars =>
          [(started' > started /\ Pending = {}) =>
              Load' <= MaxJobs \/ Load' <= Load]_vars
  <2> SUFFICES ASSUME IInv, [Next]_vars, started' > started, Pending = {}
               PROVE  Load' <= MaxJobs \/ Load' <= Load
    OBVIOUS
  <2>1. started' # started
    BY DEF IInv, TypeOK
  <2>2. PICK t \in Threads : Admit(t) \/ AdmitReplacing(t)
    BY <2>1, OnlyStartsStart
  <2> QED
    BY <2>2, StartKeepsTheCap
<1> QED
  BY <1>1, InitHolds, Inductive, PTL DEF Spec, LoneStartsKeepTheCap
=============================================================================
