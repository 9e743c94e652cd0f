-------------------------- MODULE BackupJobsProofs --------------------------
(***************************************************************************)
(* Theorems about backup jobs, for every number of jobs and processes.     *)
(***************************************************************************)
EXTENDS BackupJobs, TLAPS

\* Where a worker may be while its staging directory is on disk, and where it
\* is after it has completed.
Keeping == {"mayStage", "stage", "mayWork", "work", "archive", "unstage", "dead"}
Finished == {"release", "over", "dead"}

\* A thread has a row; only a worker at its end has completed; a staging
\* directory has a worker that will remove it, unless it died.
Phases ==
    \A j \in Ids :
        /\ thread[j].pc # "none" => row[j].state # None
        /\ row[j].state = "completed" => thread[j].pc \in Finished
        /\ j \in staging => thread[j].pc \in Keeping

\* Whoever clears up after job i has i's lease out of the way, so that i cannot
\* enter the catalog any more, and a file is doomed only if it is not there.
Bygone(i) == i \in Ids /\ row[i].state # None /\ lease.job # i
Claims ==
    /\ lease.job # None => row[lease.job].state # None
    /\ \A j \in Ids :
          /\ thread[j].pc = "unlink" /\ "file" \in thread[j].doomed => j \notin ofJob
          /\ thread[j].pc \in {"reclaim", "sweep"} => Bygone(thread[j].stale)
          /\ thread[j].pc = "sweep" /\ "file" \in thread[j].doomed
                => thread[j].stale \notin ofJob
    /\ janitor.step # "idle" => Bygone(janitor.job)
    /\ janitor.step = "unlink" /\ "file" \in janitor.doomed => janitor.job \notin ofJob

IInv == TypeOK /\ Phases /\ Claims

-----------------------------------------------------------------------------

LEMMA InitHolds == Init => IInv
<1> SUFFICES ASSUME Init PROVE IInv
  OBVIOUS
<1> USE BackupConstants
<1>1. TypeOK
  <2>1. row \in [Ids -> Rows] /\ lease \in Leases /\ janitor \in JanitorStates
    BY DEF Init, Rows, States, Active, Leases, NoLease, JanitorStates, Idle, Artefacts
  <2>2. thread \in [Ids -> ThreadStates]
    BY DEF Init, ThreadStates, Steps, Artefacts
  <2>3. /\ catalog \in [Ids -> {None, "unverified", "valid", "missing"}]
        /\ ofJob \subseteq Ids /\ staging \subseteq Ids /\ file \subseteq Ids
        /\ remover \in Ids \cup {None}
        /\ trouble \in 0..MaxTrouble
    BY DEF Init
  <2> QED
    BY <2>1, <2>2, <2>3 DEF TypeOK
<1>2. Phases /\ Claims
  BY DEF Init, Phases, Claims, NoLease, Idle, Ids, Finished, Keeping
<1> QED
  BY <1>1, <1>2 DEF IInv

LEMMA MovesThread ==
    ASSUME TypeOK, NEW j \in Ids, NEW pc \in Steps,
           NEW raised \in {"no", "lost", "error"}, NEW doomed \in SUBSET Artefacts,
           Moves(j, pc, raised, doomed)
    PROVE  /\ thread' \in [Ids -> ThreadStates]
           /\ thread'[j] = [pc |-> pc, stale |-> thread[j].stale,
                            raised |-> raised, doomed |-> doomed]
           /\ \A k \in Ids \ {j} : thread'[k] = thread[k]
<1>1. thread \in [Ids -> ThreadStates]
  BY DEF TypeOK
<1>2. [pc |-> pc, stale |-> thread[j].stale, raised |-> raised,
       doomed |-> doomed] \in ThreadStates
  BY <1>1 DEF ThreadStates
<1> QED
  BY <1>1, <1>2 DEF Moves

\* What a step of one thread, to pc, has to respect.
Allowed(j, pc, doomed) ==
    /\ row' \in [Ids -> Rows]
    /\ \A k \in Ids : row[k].state # None => row'[k].state # None
    /\ \A k \in Ids \ {j} : row'[k].state = "completed" => row[k].state = "completed"
    /\ row'[j].state = "completed" => pc \in Finished
    /\ lease' \in Leases
    /\ lease'.job \in {lease.job, None}
    /\ ofJob' \subseteq ofJob \cup {j}
    /\ j \in ofJob' \ ofJob => lease.job = j /\ pc # "unlink"
    /\ staging' \subseteq staging \cup {j}
    /\ j \in staging' => pc \in Keeping
    /\ file' \subseteq Ids
    /\ catalog' \in [Ids -> {None, "unverified", "valid", "missing"}]
    /\ janitor' = janitor
    /\ remover' = remover
    /\ trouble' \in 0..MaxTrouble
    /\ pc = "unlink" /\ "file" \in doomed => j \notin ofJob'
    /\ pc = "sweep" => /\ thread[j].pc = "reclaim"
                       /\ "file" \in doomed => thread[j].stale \notin ofJob'

LEMMA ThreadMoves ==
    ASSUME IInv, NEW j \in Ids, NEW pc \in Steps \ {"none", "reclaim"},
           NEW raised \in {"no", "lost", "error"}, NEW doomed \in SUBSET Artefacts,
           thread[j].pc # "none",
           Moves(j, pc, raised, doomed),
           Allowed(j, pc, doomed)
    PROVE  IInv'
<1> USE BackupConstants DEF Allowed
<1>1. /\ thread' \in [Ids -> ThreadStates]
      /\ thread'[j] = [pc |-> pc, stale |-> thread[j].stale,
                       raised |-> raised, doomed |-> doomed]
      /\ \A k \in Ids \ {j} : thread'[k] = thread[k]
  BY MovesThread DEF IInv
<1>2. TypeOK'
  BY <1>1 DEF IInv, TypeOK
<1>3. Phases'
  BY <1>1 DEF IInv, Phases
<1>4. lease'.job # None => row'[lease'.job].state # None
  BY DEF IInv, Claims, TypeOK, Leases, NoLease
<1>5. \A i : Bygone(i) => (Bygone(i))'
  BY DEF Bygone, Ids
<1>6. \A i : Bygone(i) /\ i \notin ofJob => i \notin ofJob'
  BY DEF Bygone
<1>7. ASSUME NEW k \in Ids
      PROVE  /\ thread'[k].pc = "unlink" /\ "file" \in thread'[k].doomed
                   => k \notin ofJob'
             /\ thread'[k].pc \in {"reclaim", "sweep"} => (Bygone(thread[k].stale))'
             /\ thread'[k].pc = "sweep" /\ "file" \in thread'[k].doomed
                   => thread'[k].stale \notin ofJob'
  <2>1. CASE k = j
    <3>1. pc = "sweep" => Bygone(thread[j].stale)
      BY DEF IInv, Claims
    <3>2. thread'[k].stale = thread[j].stale /\ thread'[k].pc = pc
          /\ thread'[k].doomed = doomed
      BY <1>1, <2>1
    <3>3. thread'[k].pc \in {"reclaim", "sweep"} => (Bygone(thread[k].stale))'
      BY <1>5, <3>1, <3>2 DEF Bygone
    <3> QED
      BY <2>1, <3>2, <3>3
  <2>2. CASE k # j
    <3>1. thread'[k] = thread[k]
      BY <1>1, <2>2
    <3>2. thread'[k].pc \in {"reclaim", "sweep"} => (Bygone(thread[k].stale))'
      BY <1>5, <3>1 DEF IInv, Claims, Bygone
    <3>3. thread'[k].pc = "sweep" => Bygone(thread[k].stale)
      BY <3>1 DEF IInv, Claims
    <3>4. thread'[k].pc = "unlink" /\ "file" \in thread'[k].doomed => k \notin ofJob'
      BY <2>2, <3>1 DEF IInv, Claims
    <3>5. thread'[k].pc = "sweep" /\ "file" \in thread'[k].doomed
             => thread'[k].stale \notin ofJob'
      BY <1>6, <3>1, <3>3 DEF IInv, Claims
    <3> QED
      BY <3>2, <3>4, <3>5
  <2> QED
    BY <2>1, <2>2
<1>8. /\ janitor'.step # "idle" => (Bygone(janitor.job))'
      /\ janitor'.step = "unlink" /\ "file" \in janitor'.doomed
            => janitor'.job \notin ofJob'
  <2>1. janitor.step # "idle" => Bygone(janitor.job)
    BY DEF IInv, Claims
  <2>2. janitor'.step # "idle" => (Bygone(janitor.job))'
    BY <1>5, <2>1 DEF Bygone
  <2> QED
    BY <1>6, <2>1, <2>2 DEF IInv, Claims
<1>9. Claims'
  BY <1>4, <1>7, <1>8 DEF Claims
<1> QED
  BY <1>2, <1>3, <1>9 DEF IInv
LEMMA ThreadSteps ==
    ASSUME IInv, NEW j \in Ids, ThreadStep(j)
    PROVE  IInv'
<1> USE BackupConstants
<1>1. /\ thread[j].raised \in {"no", "lost", "error"} /\ thread[j].pc \in Steps
      /\ {} \in SUBSET Artefacts
      /\ "no" \in {"no", "lost", "error"} /\ "lost" \in {"no", "lost", "error"}
      /\ "error" \in {"no", "lost", "error"}
  BY DEF IInv, TypeOK, ThreadStates
<1>2. lease \in Leases /\ NoLease \in Leases /\ NoLease.job = None
  BY DEF IInv, TypeOK, Leases, NoLease
<1>3. \A i : Artifacts(i) \in SUBSET Artefacts
             /\ ("file" \in Artifacts(i) => i \notin ofJob)
  BY DEF Artifacts, Artefacts
\* An exception moves the worker to a place where its staging directory is
\* still its own.
<1>4. ASSUME NEW why \in {"no", "lost", "error"}, Raise(j, why),
             thread[j].pc \in Main,
             UNCHANGED <<row, lease, catalog, ofJob, staging, file, janitor,
                         remover, trouble>>
      PROVE  IInv'
  <2> DEFINE pc == IF thread[j].pc \in InCreate THEN "unstage" ELSE "cleanup"
  <2>1. Allowed(j, pc, {})
    BY <1>2, <1>4 DEF Allowed, Raise, IInv, TypeOK, Phases, Keeping, Finished,
                      InCreate, Main
  <2>2. Moves(j, pc, why, {}) /\ thread[j].pc # "none"
    BY <1>4 DEF Raise, Main, InCreate
  <2>3. pc \in Steps \ {"none", "reclaim"}
    BY DEF Steps, Main, InCreate, Handling
  <2> HIDE DEF pc
  <2> QED
    BY <1>1, <1>4, <2>1, <2>2, <2>3, ThreadMoves
<1>5. CASE Reclaim(j)
  <2>1. Allowed(j, "sweep", Artifacts(thread[j].stale))
    BY <1>2, <1>3, <1>5 DEF Allowed, Reclaim, IInv, TypeOK, Phases, Keeping,
       Finished, InCreate
  <2>2. Moves(j, "sweep", "no", Artifacts(thread[j].stale)) /\ thread[j].pc # "none"
    BY <1>5 DEF Reclaim
  <2>3. "sweep" \in Steps \ {"none", "reclaim"}
    BY DEF Steps, Main
  <2> QED
    BY <1>1, <1>3, <2>1, <2>2, <2>3, ThreadMoves
<1>6. CASE Sweep(j)
  <2>1. Allowed(j, "begin", {})
    BY <1>2, <1>3, <1>6 DEF Allowed, Sweep, Remove, Goto, IInv, TypeOK, Phases, Keeping,
       Finished, InCreate
  <2>2. Moves(j, "begin", thread[j].raised, {}) /\ thread[j].pc # "none"
    BY <1>6 DEF Sweep, Remove, Goto
  <2>3. "begin" \in Steps \ {"none", "reclaim"}
    BY DEF Steps, Main
  <2> QED
    BY <1>1, <1>3, <2>1, <2>2, <2>3, ThreadMoves
<1>7. CASE AssertLease(j)
  <2>1. CASE Owned(j)
    <3>1. Goto(j, Then[thread[j].pc]) /\ thread[j].pc \in DOMAIN Then
      BY <1>7, <2>1 DEF AssertLease
    <3>2. /\ thread[j].pc \in {"begin", "mayStage", "mayWork", "mayVerify", "mayRecord",
                               "mayCatalog", "mayComplete"}
          /\ Then[thread[j].pc] \in {"mkdir", "stage", "work", "verify", "record",
                                     "catalog", "complete"}
          /\ thread[j].pc \in Keeping => Then[thread[j].pc] \in Keeping
      BY <3>1 DEF Then, InCreate, Keeping
    <3>3. Allowed(j, Then[thread[j].pc], {})
      BY <1>2, <1>7, <3>2 DEF Allowed, AssertLease, IInv, TypeOK, Phases, Keeping,
                              Finished, InCreate
    <3>4. Moves(j, Then[thread[j].pc], thread[j].raised, {}) /\ thread[j].pc # "none"
      BY <3>1, <3>2 DEF Goto
    <3>5. Then[thread[j].pc] \in Steps \ {"none", "reclaim"}
      BY <3>2 DEF Steps, Main, InCreate
    <3> QED
      BY <1>1, <3>3, <3>4, <3>5, ThreadMoves
  <2>2. CASE ~Owned(j)
    <3>1. thread[j].pc \in Main
      BY <1>7 DEF AssertLease, Then, Main, InCreate
    <3> QED
      BY <1>1, <1>4, <1>7, <2>2, <3>1 DEF AssertLease
  <2> QED
    BY <2>1, <2>2
<1>8. CASE MakeStaging(j)
  <2>1. Allowed(j, "mayStage", {})
    BY <1>2, <1>3, <1>8 DEF Allowed, MakeStaging, Goto, IInv, TypeOK, Phases, Keeping,
       Finished, InCreate
  <2>2. Moves(j, "mayStage", thread[j].raised, {}) /\ thread[j].pc # "none"
    BY <1>8 DEF MakeStaging, Goto
  <2>3. "mayStage" \in Steps \ {"none", "reclaim"}
    BY DEF Steps, Main, InCreate
  <2> QED
    BY <1>1, <1>3, <2>1, <2>2, <2>3, ThreadMoves
<1>9. CASE WriteRow(j)
  <2>1. thread[j].pc \in {"stage", "work", "verify", "record"}
    BY <1>9 DEF WriteRow, Writes
  <2>2. /\ Writes[thread[j].pc] \in {"mayWork", "archive", "mayRecord", "mayCatalog"}
        /\ thread[j].pc \in {"stage", "work"} => Writes[thread[j].pc] \in Keeping
        /\ thread[j].pc = "verify" => Writes[thread[j].pc] = "mayRecord"
    BY <2>1 DEF Writes, InCreate, Keeping
  <2>3. /\ row' \in [Ids -> Rows]
        /\ \A k \in Ids : /\ row[k].state # None => row'[k].state # None
                          /\ row'[k].state = "completed" => row[k].state = "completed"
    <3>1. CASE thread[j].pc = "stage"
      BY <1>9, <3>1 DEF WriteRow, IInv, TypeOK, Rows
    <3>2. CASE thread[j].pc = "record"
      BY <1>9, <3>2 DEF WriteRow, IInv, TypeOK, Rows
    <3>3. CASE thread[j].pc = "work"
      BY <1>9, <3>3 DEF WriteRow, IInv, TypeOK, Rows, States, Active
    <3>4. CASE thread[j].pc = "verify"
      BY <1>9, <3>4 DEF WriteRow, IInv, TypeOK, Rows, States, Active
    <3> QED
      BY <2>1, <3>1, <3>2, <3>3, <3>4
  <2>4. row[j].state # "completed" /\ (j \in staging => thread[j].pc \notin {"verify", "record"})
    BY <2>1 DEF IInv, Phases, Finished, Keeping, InCreate
  <2>5. Allowed(j, Writes[thread[j].pc], {})
    BY <1>2, <1>9, <2>1, <2>2, <2>3, <2>4 DEF Allowed, WriteRow, IInv, TypeOK
  <2>6. Moves(j, Writes[thread[j].pc], thread[j].raised, {}) /\ thread[j].pc # "none"
    BY <1>9, <2>1 DEF WriteRow, Goto
  <2>7. Writes[thread[j].pc] \in Steps \ {"none", "reclaim"}
    BY <2>2 DEF Steps, Main, InCreate
  <2> QED
    BY <1>1, <2>5, <2>6, <2>7, ThreadMoves
<1>10. CASE Archive(j)
  <2>1. CASE /\ file' = file \cup {j}
             /\ staging' \in {staging, staging \cup {j}}
             /\ Goto(j, "unstage")
    <3>1. Allowed(j, "unstage", {})
      BY <1>2, <1>10, <2>1 DEF Allowed, Archive, IInv, TypeOK, Phases, Keeping, Finished
    <3>2. Moves(j, "unstage", thread[j].raised, {}) /\ thread[j].pc # "none"
      BY <1>10, <2>1 DEF Archive, Goto
    <3>3. "unstage" \in Steps \ {"none", "reclaim"}
      BY DEF Steps, Main, InCreate
    <3> QED
      BY <1>1, <3>1, <3>2, <3>3, ThreadMoves
  <2>2. CASE Raise(j, "error") /\ UNCHANGED <<staging, file>>
    BY <1>1, <1>4, <1>10, <2>2 DEF Archive, Main, InCreate
  <2> QED
    BY <1>10, <2>1, <2>2 DEF Archive
<1>11. CASE Unstage(j)
  <2>1. PICK pc \in {"cleanup", "mayVerify"}, raised \in {"no", "lost", "error"} :
           Moves(j, pc, raised, {})
    BY <1>1, <1>11 DEF Unstage, Goto
  <2>2. Allowed(j, pc, {})
    BY <1>2, <1>11, <2>1 DEF Allowed, Unstage, IInv, TypeOK, Phases, Keeping, Finished
  <2>3. pc \in Steps \ {"none", "reclaim"} /\ thread[j].pc # "none"
    BY <1>11 DEF Unstage, Steps, Main, InCreate, Handling
  <2> QED
    BY <1>1, <2>1, <2>2, <2>3, ThreadMoves
<1>12. CASE Catalog(j)
  <2>1. Allowed(j, "mayComplete", {})
    BY <1>2, <1>3, <1>12 DEF Allowed, Catalog, Goto, Owned, IInv, TypeOK, Phases, Keeping,
       Finished, InCreate
  <2>2. Moves(j, "mayComplete", thread[j].raised, {}) /\ thread[j].pc # "none"
    BY <1>12 DEF Catalog, Goto, Owned
  <2>3. "mayComplete" \in Steps \ {"none", "reclaim"}
    BY DEF Steps, Main
  <2> QED
    BY <1>1, <1>3, <2>1, <2>2, <2>3, ThreadMoves
<1>13. CASE CatalogFails(j)
  <2>1. thread[j].pc \in Main
    BY <1>13 DEF CatalogFails, Main
  <2> QED
    BY <1>1, <1>4, <1>13, <2>1 DEF CatalogFails
<1>14. CASE Complete(j)
  <2>1. row' \in [Ids -> Rows]
    BY <1>14 DEF Complete, IInv, TypeOK, Rows, States
  <2>2. \A k \in Ids : /\ row[k].state # None => row'[k].state # None
                      /\ k # j => row'[k] = row[k]
    BY <1>14 DEF Complete, IInv, TypeOK, Rows
  <2>3. Allowed(j, "release", {})
    BY <1>2, <1>14, <2>1, <2>2 DEF Allowed, Complete, IInv, TypeOK, Phases, Keeping, Finished
  <2>4. Moves(j, "release", thread[j].raised, {}) /\ thread[j].pc # "none"
    BY <1>14 DEF Complete, Goto
  <2>5. "release" \in Steps \ {"none", "reclaim"}
    BY DEF Steps
  <2> QED
    BY <1>1, <2>3, <2>4, <2>5, ThreadMoves
<1>15. CASE CompleteFails(j)
  <2>1. thread[j].pc \in Main
    BY <1>15 DEF CompleteFails, Main
  <2> QED
    BY <1>1, <1>4, <1>15, <2>1 DEF CompleteFails
<1>16. CASE CleanupReads(j)
  <2>1. Allowed(j, "unlink", Artifacts(j))
    BY <1>2, <1>3, <1>16 DEF Allowed, CleanupReads, IInv, TypeOK, Phases, Keeping,
       Finished, InCreate
  <2>2. Moves(j, "unlink", thread[j].raised, Artifacts(j)) /\ thread[j].pc # "none"
    BY <1>16 DEF CleanupReads
  <2>3. "unlink" \in Steps \ {"none", "reclaim"}
    BY DEF Steps, Handling
  <2> QED
    BY <1>1, <1>3, <2>1, <2>2, <2>3, ThreadMoves
<1>17. CASE CleanupUnlinks(j)
  <2>1. Allowed(j, "settle", {})
    BY <1>2, <1>3, <1>17 DEF Allowed, CleanupUnlinks, Remove, Goto, IInv, TypeOK, Phases, Keeping,
       Finished, InCreate
  <2>2. Moves(j, "settle", thread[j].raised, {}) /\ thread[j].pc # "none"
    BY <1>17 DEF CleanupUnlinks, Remove, Goto
  <2>3. "settle" \in Steps \ {"none", "reclaim"}
    BY DEF Steps, Handling
  <2> QED
    BY <1>1, <1>3, <2>1, <2>2, <2>3, ThreadMoves
<1>18. CASE SettleLost(j)
  <2>1. Allowed(j, "release", {})
    BY <1>2, <1>3, <1>18 DEF Allowed, SettleLost, Goto, IInv, TypeOK, Phases, Keeping,
       Finished, InCreate
  <2>2. Moves(j, "release", thread[j].raised, {}) /\ thread[j].pc # "none"
    BY <1>18 DEF SettleLost, Goto
  <2>3. "release" \in Steps \ {"none", "reclaim"}
    BY DEF Steps, Main
  <2> QED
    BY <1>1, <1>3, <2>1, <2>2, <2>3, ThreadMoves
<1>19. CASE SettleFailed(j)
  <2>1. row' \in [Ids -> Rows]
    BY <1>19 DEF SettleFailed, IInv, TypeOK, Rows, States
  <2>2. /\ \A k \in Ids : row[k].state # None => row'[k].state # None
        /\ \A k \in Ids \ {j} : row'[k] = row[k]
        /\ row'[j].state = "failed"
    BY <1>19 DEF SettleFailed, IInv, TypeOK, Rows
  <2>6. /\ UNCHANGED <<lease, catalog, ofJob, staging, file, janitor, remover, trouble>>
        /\ thread[j].pc = "settle"
    BY <1>19 DEF SettleFailed
  <2>3. Allowed(j, "release", {})
    <3>1. /\ \A k \in Ids \ {j} : row'[k].state = "completed" => row[k].state = "completed"
          /\ row'[j].state # "completed"
      BY <2>2
    <3>2. j \notin staging
      BY <2>6 DEF IInv, Phases, Keeping
    <3> QED
      BY <1>2, <2>1, <2>2, <2>6, <3>1, <3>2 DEF Allowed, IInv, TypeOK
  <2>4. Moves(j, "release", thread[j].raised, {}) /\ thread[j].pc # "none"
    BY <1>19 DEF SettleFailed, Goto
  <2>5. "release" \in Steps \ {"none", "reclaim"}
    BY DEF Steps
  <2> QED
    BY <1>1, <2>3, <2>4, <2>5, ThreadMoves
<1>20. CASE Release(j)
  <2>1. Allowed(j, "over", {})
    BY <1>2, <1>3, <1>20 DEF Allowed, Release, Goto, IInv, TypeOK, Phases, Keeping,
       Finished, InCreate
  <2>2. Moves(j, "over", thread[j].raised, {}) /\ thread[j].pc # "none"
    BY <1>20 DEF Release, Goto
  <2>3. "over" \in Steps \ {"none", "reclaim"}
    BY DEF Steps, Main
  <2> QED
    BY <1>1, <1>3, <2>1, <2>2, <2>3, ThreadMoves
<1> QED
  BY <1>5, <1>6, <1>7, <1>8, <1>9, <1>10, <1>11, <1>12, <1>13, <1>14, <1>15, <1>16, <1>17, <1>18, <1>19, <1>20 DEF ThreadStep

\* A start gives the lease to a job that nobody has begun.
LEMMA StartSteps ==
    ASSUME IInv, NEW j \in Ids, StartJob(j)
    PROVE  IInv'
<1> USE BackupConstants
<1>1. PICK stale \in StaleJobs :
         /\ row' = [Interrupted({stale}) EXCEPT
                      ![j] = [state |-> "queued", staging |-> FALSE,
                              backup |-> FALSE, checkpoint |-> FALSE]]
         /\ thread' = [thread EXCEPT ![j] =
                         [pc |-> IF stale = None THEN "begin" ELSE "reclaim",
                          stale |-> stale, raised |-> "no", doomed |-> {}]]
  BY DEF StartJob
<1>2. row[j].state = None /\ lease' = [job |-> j, live |-> TRUE]
  BY DEF StartJob
<1>3. UNCHANGED <<catalog, ofJob, staging, file, janitor, remover, trouble>>
  BY DEF StartJob
<1>4. stale \in Ids \cup {None} /\ (stale # None => row[stale].state # None)
  BY DEF StaleJobs, ActiveJobs, Active, IInv, TypeOK, Leases, NoLease, Claims
<1>5. /\ row' \in [Ids -> Rows]
      /\ row'[j].state = "queued"
      /\ \A k \in Ids \ {j} : /\ row[k].state # None => row'[k].state # None
                              /\ row'[k].state = "completed" => row[k].state = "completed"
  BY <1>1 DEF Interrupted, IInv, TypeOK, Rows, States, Active
<1>6. /\ thread' \in [Ids -> ThreadStates]
      /\ \A k \in Ids \ {j} : thread'[k] = thread[k]
      /\ thread'[j].pc \in {"begin", "reclaim"} /\ thread'[j].stale = stale
      /\ thread'[j].pc = "reclaim" => stale # None
  <2>1. [pc |-> IF stale = None THEN "begin" ELSE "reclaim", stale |-> stale,
         raised |-> "no", doomed |-> {}] \in ThreadStates
    BY <1>4 DEF ThreadStates, Steps, Main
  <2> QED
    BY <1>1, <2>1 DEF IInv, TypeOK
<1>7. TypeOK'
  BY <1>2, <1>3, <1>5, <1>6 DEF IInv, TypeOK, Leases
<1>8. Phases'
  BY <1>2, <1>3, <1>5, <1>6 DEF IInv, Phases, Keeping
<1>9. \A i : Bygone(i) => (Bygone(i))'
  BY <1>2, <1>5 DEF Bygone
<1>10. (stale # None => Bygone(stale))'
  BY <1>2, <1>4, <1>5 DEF Bygone, Ids
<1>11. ASSUME NEW k \in Ids
       PROVE  /\ thread'[k].pc = "unlink" /\ "file" \in thread'[k].doomed
                    => k \notin ofJob'
              /\ thread'[k].pc \in {"reclaim", "sweep"} => (Bygone(thread[k].stale))'
              /\ thread'[k].pc = "sweep" /\ "file" \in thread'[k].doomed
                    => thread'[k].stale \notin ofJob'
  <2>1. CASE k = j
    BY <1>4, <1>5, <1>2, <1>6, <2>1 DEF Bygone, Ids
  <2>2. CASE k # j
    <3>1. thread'[k] = thread[k]
      BY <1>6, <2>2
    <3>2. thread'[k].pc \in {"reclaim", "sweep"} => (Bygone(thread[k].stale))'
      BY <1>9, <3>1 DEF IInv, Claims, Bygone
    <3> QED
      BY <1>3, <3>1, <3>2 DEF IInv, Claims
  <2> QED
    BY <2>1, <2>2
<1>12. /\ janitor'.step # "idle" => (Bygone(janitor.job))'
       /\ janitor'.step = "unlink" /\ "file" \in janitor'.doomed
             => janitor'.job \notin ofJob'
  BY <1>3, <1>9 DEF IInv, Claims, Bygone
<1>13. lease'.job # None => row'[lease'.job].state # None
  BY <1>2, <1>5
<1>14. Claims'
  BY <1>11, <1>12, <1>13 DEF Claims
<1> QED
  BY <1>7, <1>8, <1>14 DEF IInv

\* active_job and the deletion by the administrator
LEMMA JanitorSteps ==
    ASSUME IInv, ActiveJob \/ JanitorReads \/ JanitorUnlinks
    PROVE  IInv'
<1> USE BackupConstants
<1>1. CASE ActiveJob
  <2>1. lease.job \in Ids /\ row[lease.job].state # None
    BY <1>1 DEF ActiveJob, Expired, IInv, TypeOK, Leases, NoLease, Claims
  <2>2. /\ row' \in [Ids -> Rows]
        /\ \A k \in Ids : /\ row[k].state # None => row'[k].state # None
                          /\ row'[k].state = "completed" => row[k].state = "completed"
    BY <1>1 DEF ActiveJob, Interrupted, IInv, TypeOK, Rows, States, Active
  <2>3. janitor' = [job |-> lease.job, step |-> "read", doomed |-> {}]
        /\ janitor' \in JanitorStates
    BY <1>1, <2>1 DEF ActiveJob, JanitorStates
  <2>4. lease' = NoLease /\ lease'.job = None /\ lease' \in Leases
    BY <1>1 DEF ActiveJob, NoLease, Leases
  <2>5. UNCHANGED <<catalog, ofJob, staging, file, thread, remover, trouble>>
    BY <1>1 DEF ActiveJob
  <2>6. TypeOK' /\ Phases'
    BY <2>2, <2>3, <2>4, <2>5 DEF IInv, TypeOK, Phases
  <2>7. \A i : Bygone(i) => (Bygone(i))'
    BY <2>2, <2>4 DEF Bygone, Ids
  <2>8. (Bygone(janitor.job))'
    BY <2>1, <2>2, <2>3, <2>4 DEF Bygone, Ids
  <2>9. Claims'
    BY <2>3, <2>4, <2>5, <2>7, <2>8 DEF IInv, Claims, Bygone
  <2> QED
    BY <2>6, <2>9 DEF IInv
<1>2. CASE JanitorReads
  <2>1. /\ janitor' = [job |-> janitor.job, step |-> "unlink",
                       doomed |-> Artifacts(janitor.job)]
        /\ janitor.step = "read"
    BY <1>2 DEF JanitorReads
  <2>2. UNCHANGED <<row, lease, catalog, ofJob, staging, file, thread, remover,
                    trouble>>
    BY <1>2 DEF JanitorReads
  <2>3. janitor' \in JanitorStates
    BY <2>1 DEF IInv, TypeOK, JanitorStates, Artifacts, Artefacts
  <2>4. "file" \in Artifacts(janitor.job) => janitor.job \notin ofJob
    BY DEF Artifacts
  <2>5. TypeOK' /\ Phases'
    BY <2>2, <2>3 DEF IInv, TypeOK, Phases
  <2>6. Bygone(janitor.job)
    BY <2>1 DEF IInv, Claims
  <2>7. Claims'
    BY <2>1, <2>2, <2>4, <2>6 DEF IInv, Claims, Bygone
  <2> QED
    BY <2>5, <2>7 DEF IInv
<1>3. CASE JanitorUnlinks
  <2>1. staging' \subseteq staging /\ file' \subseteq file
    BY <1>3 DEF JanitorUnlinks, Remove
  <2>2. janitor' = Idle /\ janitor' \in JanitorStates /\ janitor'.step = "idle"
    BY <1>3 DEF JanitorUnlinks, Idle, JanitorStates
  <2>3. UNCHANGED <<row, lease, catalog, ofJob, thread, remover, trouble>>
    BY <1>3 DEF JanitorUnlinks
  <2>4. TypeOK' /\ Phases'
    BY <2>1, <2>2, <2>3 DEF IInv, TypeOK, Phases
  <2>5. Claims'
    BY <2>2, <2>3 DEF IInv, Claims, Bygone
  <2> QED
    BY <2>4, <2>5 DEF IInv
<1> QED
  BY <1>1, <1>2, <1>3

\* Steps that move no thread and change no row.
LEMMA OtherSteps ==
    ASSUME IInv,
           \/ \E j \in Ids : Heartbeat(j) \/ DeleteCheckpoint(j)
           \/ ListCatalog \/ ForgetCheckpoint \/ DeletionFails \/ LeaseExpires
    PROVE  IInv'
<1> USE BackupConstants
<1>1. UNCHANGED <<row, thread, staging, janitor>>
  BY DEF Heartbeat, DeleteCheckpoint, ListCatalog, ForgetCheckpoint, DeletionFails,
         LeaseExpires
<1>2. lease' \in Leases /\ lease'.job = lease.job
  <2>1. CASE lease' = [lease EXCEPT !.live = TRUE] /\ lease.job \in Ids
    BY <2>1 DEF IInv, TypeOK, Leases, NoLease
  <2>2. CASE lease' = [lease EXCEPT !.live = FALSE] /\ lease.live
    <3>1. lease \in [job : Ids, live : BOOLEAN]
      BY <2>2 DEF IInv, TypeOK, Leases, NoLease
    <3> QED
      BY <2>2, <3>1 DEF Leases
  <2>3. CASE UNCHANGED lease
    BY <2>3 DEF IInv, TypeOK
  <2>4. ASSUME NEW j \in Ids, Heartbeat(j)
        PROVE  lease' = [lease EXCEPT !.live = TRUE] /\ lease.job \in Ids
    BY <2>4 DEF Heartbeat
  <2>5. CASE LeaseExpires
    BY <2>2, <2>5 DEF LeaseExpires
  <2>6. CASE \/ \E j \in Ids : DeleteCheckpoint(j)
             \/ ListCatalog \/ ForgetCheckpoint \/ DeletionFails
    BY <2>3, <2>6 DEF DeleteCheckpoint, ListCatalog, ForgetCheckpoint, DeletionFails
  <2>7. ASSUME NEW j \in Ids, Heartbeat(j)
        PROVE  lease' \in Leases /\ lease'.job = lease.job
    BY <2>1, <2>4, <2>7
  <2> QED
    BY <2>5, <2>6, <2>7
<1>3. ofJob' \subseteq ofJob
  BY DEF Heartbeat, DeleteCheckpoint, ListCatalog, ForgetCheckpoint, DeletionFails,
         LeaseExpires
<1>4. catalog' \in [Ids -> {None, "unverified", "valid", "missing"}]
  <2>1. CASE ListCatalog
    BY <2>1 DEF ListCatalog, IInv, TypeOK
  <2>2. CASE ForgetCheckpoint
    BY <2>2 DEF ForgetCheckpoint, IInv, TypeOK
  <2>3. CASE UNCHANGED catalog
    BY <2>3 DEF IInv, TypeOK
  <2> QED
    BY <2>1, <2>2, <2>3 DEF Heartbeat, DeleteCheckpoint, DeletionFails, LeaseExpires
<1>5. file' \subseteq Ids /\ remover' \in Ids \cup {None}
  BY DEF IInv, TypeOK, Heartbeat, DeleteCheckpoint, ListCatalog, ForgetCheckpoint,
         DeletionFails, LeaseExpires
<1>6. trouble' \in 0..MaxTrouble
  BY DEF IInv, TypeOK, Heartbeat, DeleteCheckpoint, ListCatalog, ForgetCheckpoint,
         DeletionFails, LeaseExpires
<1>7. TypeOK' /\ Phases'
  BY <1>1, <1>2, <1>3, <1>4, <1>5, <1>6 DEF IInv, TypeOK, Phases
<1>8. Claims'
  BY <1>1, <1>2, <1>3 DEF IInv, Claims, Bygone
<1> QED
  BY <1>7, <1>8 DEF IInv

\* Steps in which something goes wrong with a thread.
LEMMA TroubleSteps ==
    ASSUME IInv, (\E j \in Ids : Error(j)) \/ (\E p \in Processes : Crash(p))
    PROVE  IInv'
<1> USE BackupConstants
<1>1. ASSUME NEW j \in Ids, Error(j)
      PROVE  IInv'
  <2>1. /\ UNCHANGED <<row, lease, catalog, ofJob, staging, file, janitor, remover>>
        /\ trouble' \in 0..MaxTrouble
    BY <1>1 DEF Error, IInv, TypeOK
  <2>2. PICK pc \in {"unstage", "cleanup", "release"}, raised \in {"no", "lost", "error"} :
           /\ Moves(j, pc, raised, {})
           /\ thread[j].pc \in Main \cup Handling
           /\ pc = "release" => thread[j].pc \in Handling
           /\ thread[j].pc \in InCreate => pc = "unstage"
    <3>1. thread[j].raised \in {"no", "lost", "error"}
      BY DEF IInv, TypeOK, ThreadStates
    <3>2. CASE thread[j].pc \in Main /\ Raise(j, "error")
      BY <3>2 DEF Raise
    <3>3. CASE thread[j].pc \in Handling /\ Goto(j, "release")
      BY <3>1, <3>3 DEF Goto, Handling, InCreate
    <3> QED
      BY <1>1, <3>2, <3>3 DEF Error
  <2>3. /\ row[j].state # "completed" /\ thread[j].pc # "none"
        /\ j \in staging => pc \in Keeping
    BY <2>2 DEF IInv, Phases, Finished, Main, InCreate, Handling, Keeping
  <2>4. Allowed(j, pc, {})
    BY <2>1, <2>2, <2>3 DEF Allowed, IInv, TypeOK
  <2>5. pc \in Steps \ {"none", "reclaim"} /\ {} \in SUBSET Artefacts
    BY DEF Steps, Main, InCreate, Handling
  <2> QED
    BY <2>2, <2>3, <2>4, <2>5, ThreadMoves
<1>2. ASSUME NEW p \in Processes, Crash(p)
      PROVE  IInv'
  <2>1. /\ UNCHANGED <<row, lease, catalog, ofJob, staging, file>>
        /\ trouble' \in 0..MaxTrouble /\ remover' \in Ids \cup {None}
        /\ janitor' \in {janitor, Idle}
    <3>1. trouble \in 0..MaxTrouble /\ trouble < MaxTrouble /\ trouble' = trouble + 1
      BY <1>2 DEF Crash, IInv, TypeOK
    <3>2. trouble' \in 0..MaxTrouble
      BY <3>1
    <3>3. remover' \in {remover, None} /\ remover \in Ids \cup {None}
      BY <1>2 DEF Crash, IInv, TypeOK
    <3> QED
      BY <1>2, <3>2, <3>3 DEF Crash
  <2>2. \A k \in Ids :
           \/ thread'[k] = thread[k]
           \/ /\ thread'[k] = [thread[k] EXCEPT !.pc = "dead", !.doomed = {}]
              /\ thread[k].pc # "none"
    <3>1. thread' = [k \in Ids |-> IF Home[k] = p /\ thread[k].pc \notin {"none", "over"}
                                  THEN [thread[k] EXCEPT !.pc = "dead", !.doomed = {}]
                                  ELSE thread[k]]
      BY <1>2 DEF Crash
    <3> QED
      BY <3>1
  <2>3. \A k \in Ids : \/ thread'[k] = thread[k]
                       \/ thread'[k].pc = "dead" /\ thread[k].pc # "none"
    <3> SUFFICES ASSUME NEW k \in Ids
                 PROVE  \/ thread'[k] = thread[k]
                        \/ thread'[k].pc = "dead" /\ thread[k].pc # "none"
      OBVIOUS
    <3>1. thread[k] \in ThreadStates
      BY DEF IInv, TypeOK
    <3>2. [thread[k] EXCEPT !.pc = "dead", !.doomed = {}].pc = "dead"
      BY <3>1 DEF ThreadStates
    <3> QED
      BY <2>2, <3>2
  <2>4. thread' \in [Ids -> ThreadStates]
    <3>1. \A k \in Ids : thread[k] \in ThreadStates
      BY DEF IInv, TypeOK
    <3>2. \A k \in Ids : [thread[k] EXCEPT !.pc = "dead", !.doomed = {}] \in ThreadStates
      BY <3>1 DEF ThreadStates, Steps
    <3> QED
      BY <1>2, <3>1, <3>2 DEF Crash
  <2>5. janitor' \in JanitorStates /\ (janitor' = janitor \/ janitor'.step = "idle")
    BY <2>1 DEF IInv, TypeOK, Idle, JanitorStates
  <2>6. TypeOK' /\ Phases'
    BY <2>1, <2>3, <2>4, <2>5 DEF IInv, TypeOK, Phases, Finished, Keeping
  <2>7. Claims'
    BY <2>1, <2>3, <2>5 DEF IInv, Claims, Bygone
  <2> QED
    BY <2>6, <2>7 DEF IInv
<1> QED
  BY <1>1, <1>2

LEMMA InvariantHolds == Spec => []IInv
<1>1. ASSUME IInv, [Next]_vars PROVE IInv'
  <2>1. CASE UNCHANGED vars
    BY <1>1, <2>1 DEF vars, IInv, TypeOK, Phases, Claims, Bygone
  <2>2. CASE Next
    BY <1>1, <2>2, ThreadSteps, StartSteps, JanitorSteps, OtherSteps, TroubleSteps
       DEF Next
  <2> QED
    BY <1>1, <2>1, <2>2
<1> QED
  BY InitHolds, <1>1, PTL DEF Spec

-----------------------------------------------------------------------------

\* Every reachable state is well typed; in particular the lease is one row or
\* none, and never a renewed row of nobody (_heartbeat_loop).
THEOREM TypeCorrect == Spec => []TypeOK
<1>1. IInv => TypeOK
  BY DEF IInv
<1> QED
  BY InvariantHolds, <1>1, PTL

\* A worker that has ended has removed its staging directory, wherever in
\* create_backup_checkpoint an exception or a cleanup by others met it.
THEOREM StagingIsRemoved == Spec => []NoStagingLeftBehind
<1>1. IInv => NoStagingLeftBehind
  BY DEF IInv, Phases, NoStagingLeftBehind, Keeping
<1> QED
  BY InvariantHolds, <1>1, PTL

\* None of those who run _cleanup_job_artifacts, at the same time and from what
\* they read before, deletes a file that the catalog lists for its job.
THEOREM CatalogedFilesAreSafe == Spec => CatalogedFileStays
<1> DEFINE Step == \A j \in Ids : j \in file \ file' /\ j \in ofJob => remover' = j
<1>1. ASSUME IInv, [Next]_vars PROVE [Step]_vars
  <2> USE BackupConstants
  <2> SUFFICES ASSUME NEW i \in Ids, i \in file, i \notin file', i \in ofJob
               PROVE  remover' = i
    BY DEF Step
  <2>1. ASSUME NEW j \in Ids, Sweep(j) PROVE FALSE
    BY <1>1, <2>1 DEF Sweep, Remove, IInv, Claims
  <2>2. ASSUME NEW j \in Ids, CleanupUnlinks(j) PROVE FALSE
    BY <1>1, <2>2 DEF CleanupUnlinks, Remove, IInv, Claims
  <2>3. CASE JanitorUnlinks
    BY <1>1, <2>3 DEF JanitorUnlinks, Remove, IInv, Claims
  <2>4. ASSUME NEW j \in Ids, DeleteCheckpoint(j) PROVE remover' = i
    BY <2>4 DEF DeleteCheckpoint
  <2>5. CASE UNCHANGED file \/ \E j : file' = file \cup {j}
    BY <2>5
  <2>6. ASSUME NEW j \in Ids, ThreadStep(j) \/ Heartbeat(j) \/ Error(j) \/ StartJob(j)
        PROVE  remover' = i
    BY <2>1, <2>2, <2>5, <2>6
       DEF ThreadStep, Reclaim, AssertLease, MakeStaging, WriteRow, Archive, Unstage,
           Catalog, CatalogFails, Complete, CompleteFails, CleanupReads, SettleLost,
           SettleFailed, Release, Heartbeat, Error, StartJob
  <2>7. CASE \/ ActiveJob \/ JanitorReads \/ ListCatalog \/ ForgetCheckpoint
             \/ DeletionFails \/ LeaseExpires \/ (\E p \in Processes : Crash(p))
             \/ UNCHANGED vars
    BY <2>5, <2>7 DEF ActiveJob, JanitorReads, ListCatalog, ForgetCheckpoint,
                      DeletionFails, LeaseExpires, Crash, vars
  <2> QED
    BY <1>1, <2>3, <2>4, <2>6, <2>7 DEF Next
<1> QED
  BY InvariantHolds, <1>1, PTL DEF Spec, CatalogedFileStays

-----------------------------------------------------------------------------
(* Backup jobs implement the abstract writer. *)

Completed == {j \in Ids : row[j].state = "completed"}

LEMMA WriterInit == Init => Writer!Init
<1> SUFFICES ASSUME Init PROVE Writer!Init
  OBVIOUS
<1> QED
  BY BackupConstants DEF Init, NoLease, Begun, Writer!Init

\* A step of a thread that leaves the row's meaning to the writer as it is.
LEMMA WriterStutters ==
    ASSUME lease'.job = lease.job,
           \A k \in Ids : /\ (row'[k].state # None) <=> (row[k].state # None)
                          /\ (row'[k].state = "completed") <=> (row[k].state = "completed")
    PROVE  UNCHANGED Writer!vars
  BY DEF Writer!vars, Begun

\* Threads: the last transaction publishes, the end of a failed job gives up,
\* and nothing else of a thread matters to the abstract writer.
LEMMA WriterOfThreads ==
    ASSUME IInv, NEW j \in Ids, ThreadStep(j)
    PROVE  [Writer!Next]_(Writer!vars)
<1> USE BackupConstants
<1>1. lease \in Leases /\ row \in [Ids -> Rows] /\ j # None
  BY DEF IInv, TypeOK, Ids
<1>2. CASE Complete(j)
  <2>1. lease.job = j /\ lease'.job = None
    BY <1>2 DEF Complete, Owned, NoLease
  <2>2. row[j].state # None
    BY <1>2 DEF Complete, IInv, Phases
  <2>3. /\ row'[j].state = "completed"
        /\ \A k \in Ids \ {j} : row'[k] = row[k]
    BY <1>1, <1>2 DEF Complete, Rows
  <2>4. Begun' = Begun
    BY <2>2, <2>3 DEF Begun
  <2>5. {k \in Ids : row'[k].state = "completed"} = Completed \cup {j}
    BY <2>3 DEF Completed
  <2>6. Writer!Publish
    BY <1>1, <2>1, <2>4, <2>5 DEF Writer!Publish, Completed
  <2> QED
    BY <2>6 DEF Writer!Next
<1>3. CASE Release(j)
  <2>1. UNCHANGED row
    BY <1>3 DEF Release
  <2>2. CASE lease.job = j
    <3>1. lease'.job = None
      BY <1>3, <2>2 DEF Release, NoLease
    <3>2. Writer!GiveUp
      BY <1>1, <2>1, <2>2, <3>1 DEF Writer!GiveUp, Begun
    <3> QED
      BY <3>2 DEF Writer!Next
  <2>3. CASE lease.job # j
    BY <1>3, <2>1, <2>3, WriterStutters DEF Release
  <2> QED
    BY <2>2, <2>3
<1>4. CASE WriteRow(j) \/ SettleFailed(j)
  <2>1. UNCHANGED lease
    BY <1>4 DEF WriteRow, SettleFailed
  <2>2. row[j].state # "completed" /\ row[j].state # None
    BY <1>4 DEF WriteRow, Writes, SettleFailed, IInv, Phases, Finished
  <2>3. /\ row'[j].state # "completed" /\ row'[j].state # None
        /\ \A k \in Ids \ {j} : row'[k] = row[k]
    <3>1. CASE SettleFailed(j)
      BY <1>1, <3>1 DEF SettleFailed, Rows
    <3>2. CASE WriteRow(j)
      <4>1. thread[j].pc \in {"stage", "work", "verify", "record"}
        BY <3>2 DEF WriteRow, Writes
      <4>2. CASE thread[j].pc = "stage" \/ thread[j].pc = "record"
        <5>1. \/ row' = [row EXCEPT ![j].staging = TRUE]
              \/ row' = [row EXCEPT ![j].backup = TRUE]
          BY <3>2, <4>2 DEF WriteRow
        <5> QED
          BY <1>1, <2>2, <5>1 DEF Rows
      <4>3. CASE thread[j].pc = "work" \/ thread[j].pc = "verify"
        <5>1. \/ row' = [row EXCEPT ![j].state = "working"]
              \/ row' = [row EXCEPT ![j].state = "verifying"]
          BY <3>2, <4>3 DEF WriteRow
        <5> QED
          BY <1>1, <5>1 DEF Rows
      <4> QED
        BY <4>1, <4>2, <4>3
    <3> QED
      BY <1>4, <3>1, <3>2
  <2> QED
    BY <2>1, <2>2, <2>3, WriterStutters
<1>5. CASE UNCHANGED <<row, lease>>
  BY <1>5, WriterStutters
<1> QED
  BY <1>2, <1>3, <1>4, <1>5
     DEF ThreadStep, Reclaim, Sweep, AssertLease, MakeStaging, Archive, Unstage,
         Catalog, CatalogFails, CompleteFails, CleanupReads, CleanupUnlinks, SettleLost

LEMMA WriterOfStarts ==
    ASSUME IInv, NEW j \in Ids, StartJob(j)
    PROVE  Writer!Take(j)
<1> USE BackupConstants
<1>1. PICK stale \in StaleJobs :
         row' = [Interrupted({stale}) EXCEPT
                   ![j] = [state |-> "queued", staging |-> FALSE,
                           backup |-> FALSE, checkpoint |-> FALSE]]
  BY DEF StartJob
<1>2. row[j].state = None /\ lease'.job = j
  BY DEF StartJob
<1>3. /\ row'[j].state = "queued"
      /\ \A k \in Ids \ {j} : /\ (row'[k].state # None) <=> (row[k].state # None)
                              /\ (row'[k].state = "completed") <=> (row[k].state = "completed")
  BY <1>1 DEF Interrupted, IInv, TypeOK, Rows, States, Active
<1>4. Begun' = Begun \cup {j} /\ j \notin Begun
  BY <1>2, <1>3 DEF Begun
<1>5. {k \in Ids : row'[k].state = "completed"} = {k \in Ids : row[k].state = "completed"}
  BY <1>2, <1>3
<1> QED
  BY <1>2, <1>4, <1>5 DEF Writer!Take

\* Whatever processes, threads and calls of active_job do, jobs publish one at a
\* time and only the last one started: they implement the abstract writer.
THEOREM JobsImplementWriter == Spec => OneWriterPublishes
<1>1. ASSUME IInv, [Next]_vars PROVE [Writer!Next]_(Writer!vars)
  <2> USE BackupConstants
  <2>1. ASSUME NEW j \in Ids, ThreadStep(j) PROVE [Writer!Next]_(Writer!vars)
    BY <1>1, <2>1, WriterOfThreads
  <2>2. ASSUME NEW j \in Ids, StartJob(j) PROVE Writer!Next
    BY <1>1, <2>2, WriterOfStarts DEF Writer!Next
  <2>3. CASE ActiveJob
    <3>1. lease.job # None /\ lease'.job = None
      BY <2>3 DEF ActiveJob, Expired, NoLease
    <3>2. \A k \in Ids : /\ (row'[k].state # None) <=> (row[k].state # None)
                         /\ (row'[k].state = "completed") <=> (row[k].state = "completed")
      BY <1>1, <2>3 DEF ActiveJob, Interrupted, IInv, TypeOK, Rows, States, Active
    <3>3. Begun' = Begun
      BY <3>2 DEF Begun
    <3>4. {k \in Ids : row'[k].state = "completed"} = {k \in Ids : row[k].state = "completed"}
      BY <3>2
    <3>5. Writer!GiveUp
      BY <3>1, <3>3, <3>4 DEF Writer!GiveUp
    <3> QED
      BY <3>5 DEF Writer!Next
  <2>4. CASE UNCHANGED row /\ lease'.job = lease.job
    BY <2>4, WriterStutters
  <2>5. ASSUME NEW j \in Ids, Heartbeat(j)
        PROVE  UNCHANGED row /\ lease'.job = lease.job
    BY <1>1, <2>5 DEF Heartbeat, IInv, TypeOK, Leases, NoLease
  <2>6. CASE LeaseExpires
    <3>1. lease \in [job : Ids, live : BOOLEAN]
      BY <1>1, <2>6 DEF LeaseExpires, IInv, TypeOK, Leases, NoLease
    <3> QED
      BY <2>4, <2>6, <3>1 DEF LeaseExpires
  <2>7. ASSUME NEW j \in Ids, Error(j) \/ DeleteCheckpoint(j)
        PROVE  [Writer!Next]_(Writer!vars)
    BY <2>4, <2>7 DEF Error, DeleteCheckpoint
  <2>8. CASE \/ JanitorReads \/ JanitorUnlinks \/ ListCatalog \/ ForgetCheckpoint
             \/ DeletionFails \/ (\E p \in Processes : Crash(p)) \/ UNCHANGED vars
    BY <2>4, <2>8 DEF JanitorReads, JanitorUnlinks, ListCatalog, ForgetCheckpoint,
                      DeletionFails, Crash, vars
  <2> QED
    BY <1>1, <2>1, <2>2, <2>3, <2>4, <2>5, <2>6, <2>7, <2>8 DEF Next
<1> QED
  BY InvariantHolds, WriterInit, <1>1, PTL DEF Spec, OneWriterPublishes, Writer!Spec
=============================================================================
