---------------------- MODULE DiagnosticsIngestProofs ----------------------
(***************************************************************************)
(* Proofs about the diagnostics recorder: an event or gap of the browser   *)
(* is durable on the server or still held by the browser, an event is      *)
(* journaled once and never if it was declared lost, and sealed evidence   *)
(* stands.  The invariant IInv carries the first: the catalog never runs   *)
(* ahead of the journal, its watermark skips nothing, no answer says more  *)
(* than the catalog, and the receipt of a batch goes to the request that   *)
(* waits for it.  OneFate and Once carry the second, Sealing the third.    *)
(***************************************************************************)
EXTENDS DiagnosticsIngest, TLAPS, SequenceTheorems

AnswerKinds == {"none", "ok", "retry", "invalid", "conflict", "closing", "sealed"}
Places == {"idle", "enter", "check", "submit", "wait", "declare", "read",
           "mark", "drain", "flush", "join", "answered"}

LEMMA InitTypeOK == Init => TypeOK
<1> SUFFICES ASSUME Init PROVE TypeOK
    OBVIOUS
<1> USE DiagnosticsConstants DEF Init
<1>1. client \in Clients BY DEF Clients, Seqs
<1>2. Idle \in Requests BY DEF Idle, Requests
<1>3. req \in [Threads -> Requests] BY <1>2
<1>4. journal \in [Seqs -> Nat] BY DEF Unsealed
<1>5. catalog \in Catalogs BY DEF Catalogs, Seqs
<1>6. queue \in Seq(Batches) OBVIOUS
<1>7. finalizer \in Steps BY DEF Steps
<1>8. observed \in 0..MaxObservations /\ troubles \in 0..MaxTroubles OBVIOUS
<1>9. /\ server \subseteq {"observation", "terminal"}
      /\ observation \in {"none", "early", "late", "accepted"}
    OBVIOUS
<1>10. /\ written \in BOOLEAN /\ unindexed \in BOOLEAN /\ torn \in BOOLEAN
       /\ sealing \in BOOLEAN /\ remembered \in BOOLEAN /\ barrier \in BOOLEAN
    OBVIOUS
<1>11. QED
    BY ONLY <1>1, <1>3, <1>4, <1>5, <1>6, <1>7, <1>8, <1>9, <1>10 DEF TypeOK

LEMMA AdvancedCatalogs ==
    ASSUME NEW c \in Catalogs, NEW d \in Advanced(c)
    PROVE  d \in Catalogs
<1>1. QED BY DiagnosticsConstants DEF Advanced, Catalogs, Seqs

LEMMA AnsweredTyped ==
    ASSUME NEW r \in Requests, NEW a \in AnswerKinds, NEW n \in 0..MaxSequence
    PROVE  Answered(r, a, n) \in Requests
<1>1. QED BY DEF Answered, Requests, AnswerKinds

LEMMA AnswersTyped ==
    ASSUME TypeOK, NEW t \in Threads, NEW a \in AnswerKinds,
           NEW n \in 0..MaxSequence, Answers(t, a, n)
    PROVE  req' \in [Threads -> Requests]
<1>1. Answered(req[t], a, n) \in Requests BY AnsweredTyped DEF TypeOK
<1>2. QED BY <1>1 DEF TypeOK, Answers

LEMMA GoesTyped ==
    ASSUME TypeOK, NEW t \in Threads, NEW p \in Places, Goes(t, p)
    PROVE  req' \in [Threads -> Requests]
<1>1. [req[t] EXCEPT !.pc = p] \in Requests BY DEF TypeOK, Requests, Places
<1>2. req' = [req EXCEPT ![t] = [req[t] EXCEPT !.pc = p]] BY DEF Goes
<1>3. QED BY <1>1, <1>2 DEF TypeOK

LEMMA HeadTyped ==
    ASSUME TypeOK, queue # <<>>
    PROVE  Head(queue) \in Batches /\ Tail(queue) \in Seq(Batches)
<1>1. QED BY DEF TypeOK

LEMMA CompletesTyped ==
    ASSUME TypeOK, queue # <<>>, NEW a \in AnswerKinds,
           NEW n \in 0..MaxSequence, Completes(a, n)
    PROVE  req' \in [Threads -> Requests] /\ written' \in BOOLEAN
<1> DEFINE t == Head(queue).waiter
<1>1. t \in Threads \cup {None} BY HeadTyped DEF Batches
<1>2. CASE t = None BY <1>2 DEF TypeOK, Completes
<1>3. CASE t # None
    <2>1. Answered(req[t], a, n) \in Requests BY <1>1, <1>3, AnsweredTyped DEF TypeOK
    <2>2. QED BY <1>1, <1>3, <2>1 DEF TypeOK, Completes
<1>4. QED BY <1>2, <1>3

LEMMA EndsTyped ==
    ASSUME TypeOK, NEW a \in AnswerKinds, Ends(a)
    PROVE  req' \in [Threads -> Requests] /\ finalizer' \in Steps
<1>1. \A t \in Threads : Answered(req[t], a, catalog.watermark) \in Requests
    BY AnsweredTyped DEF TypeOK, Catalogs
<1>2. QED BY <1>1 DEF TypeOK, Ends, Steps

LEMMA ArrivesTyped ==
    ASSUME TypeOK, NEW t \in Threads, NEW k \in {"batch", "gap", "close"},
           NEW p \in Places, NEW items \in SUBSET Seqs, Arrives(t, k, p, items)
    PROVE  req' \in [Threads -> Requests]
<1>1. [kind |-> k, pc |-> p, items |-> items, answer |-> "none", ack |-> 0] \in Requests
    BY DiagnosticsConstants DEF Requests, Places
<1>2. QED BY <1>1 DEF TypeOK, Arrives

LEMMA HeardTyped ==
    ASSUME NEW c \in Clients, NEW r \in Requests,
           r.answer = "invalid" => r.ack \in Seqs
    PROVE  Heard(c, r) \in Clients
<1>1. QED BY DiagnosticsConstants DEF Heard, Forgets, Clients, Requests, Seqs

LEMMA IdleTyped == Idle \in Requests
<1>1. QED BY DiagnosticsConstants DEF Idle, Requests

LEMMA CatalogTyped ==
    ASSUME TypeOK
    PROVE  /\ 0 \in 0..MaxSequence /\ MaxSequence \in Nat
           /\ catalog.watermark \in 0..MaxSequence
           /\ catalog.final \in 0..MaxSequence
           /\ catalog.indexed \subseteq Seqs /\ catalog.gaps \subseteq Seqs
           /\ \A st \in {"active", "interrupted", "closing", "sealed"} :
                  [catalog EXCEPT !.state = st] \in Catalogs
           /\ \A S \in SUBSET Seqs :
                  /\ [catalog EXCEPT !.indexed = @ \cup S] \in Catalogs
                  /\ [catalog EXCEPT !.gaps = @ \cup S] \in Catalogs
<1>1. catalog \in Catalogs BY DEF TypeOK
<1>2. QED BY <1>1, DiagnosticsConstants DEF Catalogs

LEMMA ReqTyped ==
    ASSUME TypeOK, NEW t \in Threads
    PROVE  /\ req[t] \in Requests
           /\ req[t].items \subseteq Seqs
           /\ req[t].ack \in 0..MaxSequence
<1>1. req[t] \in Requests BY DEF TypeOK
<1>2. QED BY <1>1 DEF Requests

LEMMA BatchTyped ==
    ASSUME TypeOK, queue # <<>>
    PROVE  Fresh \subseteq Seqs /\ Head(queue).events \subseteq Seqs
<1>1. Head(queue) \in Batches BY HeadTyped
<1>2. QED BY <1>1 DEF Batches, Fresh

LEMMA AppendedTyped ==
    ASSUME TypeOK, NEW S \in SUBSET Seqs
    PROVE  Appended(S) \in [Seqs -> Nat] /\ Journaled \subseteq Seqs
<1>1. QED BY DEF TypeOK, Appended, Journaled

LEMMA TroubleTyped == TypeOK /\ Trouble => troubles' \in 0..MaxTroubles
<1>1. QED BY DiagnosticsConstants DEF TypeOK, Trouble

LEMMA TimedOutTyped ==
    ASSUME NEW Q \in Seq(Batches), NEW t
    PROVE  [i \in DOMAIN Q |-> IF Q[i].waiter = t
                               THEN [Q[i] EXCEPT !.waiter = None] ELSE Q[i]]
              \in Seq(Batches)
<1>1. ASSUME NEW b \in Batches PROVE [b EXCEPT !.waiter = None] \in Batches
    BY DEF Batches
<1>2. \A i \in DOMAIN Q : Q[i] \in Batches OBVIOUS
<1>3. QED BY <1>1, <1>2

LEMMA CrashCatalogs ==
    ASSUME TypeOK, NEW j \in [Seqs -> Nat], NEW d,
           d \in Advanced([catalog EXCEPT !.state = "interrupted",
                             !.indexed = @ \cup {s \in Seqs : j[s] > 0}])
    PROVE  d \in Catalogs
<1>1. [catalog EXCEPT !.state = "interrupted",
                      !.indexed = @ \cup {s \in Seqs : j[s] > 0}] \in Catalogs
    BY DEF TypeOK, Catalogs
<1>2. QED BY <1>1, AdvancedCatalogs

LEMMA NextTypeOK ==
    ASSUME TypeOK, [Next]_vars,
           \A t \in Threads : req[t].answer = "invalid" => req[t].ack \in Seqs
    PROVE  TypeOK'
<1> USE DiagnosticsConstants
<1>1. CASE Record
    <2>1. client.produced + 1 \in Seqs /\ client.produced + 1 \in 0..MaxSequence
        BY <1>1 DEF Record, TypeOK, Clients, Seqs
    <2>2. ASSUME client' = [client EXCEPT !.produced = client.produced + 1, !.spool = @ \cup {client.produced + 1}]
         PROVE  client' \in Clients
        BY <1>1, <2>1, <2>2 DEF TypeOK, Clients
    <2>3. ASSUME client' = [client EXCEPT !.produced = client.produced + 1, !.spool = @ \cup {client.produced + 1},
                                   !.bad = @ \cup {client.produced + 1}]
         PROVE  client' \in Clients
        BY <1>1, <2>1, <2>3 DEF TypeOK, Clients
    <2>4. ASSUME client' = [client EXCEPT !.produced = client.produced + 1, !.ledger = @ \cup {client.produced + 1}]
         PROVE  client' \in Clients
        BY <1>1, <2>1, <2>4 DEF TypeOK, Clients
    <2>5. client' \in Clients
        BY <1>1, <2>2, <2>3, <2>4 DEF Record
    <2>6. QED
        BY <1>1, <2>1, <2>2, <2>3, <2>4, <2>5
        DEF Record, TypeOK, disk, finalization, observer
<1>2. CASE StartClosing
    <2>1. client' \in Clients
        BY <1>2 DEF StartClosing, TypeOK, Clients, Seqs, Fetches
    <2>2. QED
        BY <1>2, <2>1 DEF StartClosing, TypeOK, disk, finalization, observer
<1>3. CASE LoseAnswer
    <2>1. client' \in Clients
        BY <1>3 DEF LoseAnswer, TypeOK, Clients, Seqs, Fetches
    <2>2. QED
        BY <1>3, <2>1 DEF LoseAnswer, TypeOK, Trouble, disk, finalization, observer
<1>4. CASE Reindex
    <2>1. catalog' \in Catalogs
        BY <1>4, CatalogTyped, AdvancedCatalogs, AppendedTyped DEF Reindex, TypeOK
    <2>2. req' \in [Threads -> Requests] /\ written' \in BOOLEAN
        BY <1>4, CompletesTyped, CatalogTyped DEF Reindex, Working, AnswerKinds, TypeOK
    <2>3. QED
        BY <1>4, <2>1, <2>2 DEF Reindex, TypeOK, disk, finalization, observer
<1>5. CASE Write
    <2>1. catalog' \in Catalogs
        BY <1>5, CatalogTyped, AdvancedCatalogs, BatchTyped
        DEF Write, TypeOK, Ready, Working
    <2>2. journal' \in [Seqs -> Nat]
        BY <1>5, BatchTyped, AppendedTyped DEF Write, TypeOK, Ready, Working
    <2>3. catalog'.watermark \in 0..MaxSequence
        BY <1>5, <2>1 DEF Catalogs
    <2>4. req' \in [Threads -> Requests] /\ written' \in BOOLEAN
        BY <1>5, <2>3, CompletesTyped, CatalogTyped DEF Write, Working, Ready, AnswerKinds
    <2>5. QED
        BY <1>5, <2>1, <2>2, <2>3, <2>4 DEF Write, TypeOK, finalization, observer
<1>6. CASE WriteServerEvents
    <2>1. server' \subseteq {"observation", "terminal"}
        BY <1>6, HeadTyped DEF WriteServerEvents, Working, TypeOK, Batches
    <2>2. finalizer' \in Steps
        BY <1>6 DEF WriteServerEvents, TypeOK, Steps
    <2>3. QED
        BY <1>6, <2>1, <2>2 DEF WriteServerEvents, TypeOK, observer, Steps
<1>7. CASE Release
    <2>1. queue' \in Seq(Batches)
        BY <1>7, HeadTyped DEF Release
    <2>2. QED
        BY <1>7, <2>1 DEF Release, TypeOK, disk, finalization, observer
<1>8. CASE WriteFails
    <2>1. catalog' \in Catalogs
        BY <1>8, CatalogTyped, AdvancedCatalogs, BatchTyped
        DEF WriteFails, TypeOK, Ready, Working
    <2>2. journal' \in [Seqs -> Nat]
        BY <1>8, BatchTyped, AppendedTyped DEF WriteFails, TypeOK, Ready, Working
    <2>3. req' \in [Threads -> Requests] /\ written' \in BOOLEAN
        BY <1>8, CompletesTyped, CatalogTyped DEF WriteFails, Working, Ready, AnswerKinds
    <2>4. troubles' \in 0..MaxTroubles
        BY <1>8, TroubleTyped DEF WriteFails
    <2>5. torn' \in BOOLEAN /\ unindexed' \in BOOLEAN
        BY <1>8 DEF WriteFails, TypeOK, GivesUp
    <2>6. QED
        BY <1>8, <2>1, <2>2, <2>3, <2>4, <2>5 DEF WriteFails, TypeOK, finalization, observer
<1>9. CASE WriteRefused
    <2>1. req' \in [Threads -> Requests] /\ written' \in BOOLEAN
        BY <1>9, CompletesTyped, CatalogTyped DEF WriteRefused, Working, Ready, AnswerKinds
    <2>2. QED
        BY <1>9, <2>1 DEF WriteRefused, TypeOK, Trouble, disk, finalization, observer
<1>10. CASE FinalizerReads
    <2>1. req' \in [Threads -> Requests] /\ finalizer' \in Steps
        BY <1>10, EndsTyped DEF FinalizerReads, AnswerKinds, TypeOK, Steps, GivesUp
    <2>2. QED
        BY <1>10, <2>1 DEF FinalizerReads, TypeOK, disk, observer, Steps
<1>11. CASE FinalizerMarks
    <2>1. catalog' \in Catalogs
        BY <1>11, CatalogTyped DEF FinalizerMarks, TypeOK
    <2>2. QED
        BY <1>11, <2>1 DEF FinalizerMarks, TypeOK, FinalizerGoes, disk, observer, Steps
<1>12. CASE FinalizerDrains
    BY <1>12 DEF FinalizerDrains, TypeOK, FinalizerGoes, disk, observer, Steps
<1>13. CASE FinalizerFlushes
    <2>1. req' \in [Threads -> Requests] /\ finalizer' \in Steps
        BY <1>13, EndsTyped DEF FinalizerFlushes, AnswerKinds, TypeOK, Steps, GivesUp
    <2>2. QED
        BY <1>13, <2>1 DEF FinalizerFlushes, TypeOK, GivesUp, disk, observer, Steps
<1>14. CASE FinalizerGates
    BY <1>14 DEF FinalizerGates, TypeOK, FinalizerGoes, disk, observer, Steps
<1>15. CASE FinalizerFlushesAgain
    <2>1. req' \in [Threads -> Requests] /\ finalizer' \in Steps
        BY <1>15, EndsTyped DEF FinalizerFlushesAgain, AnswerKinds, TypeOK, Steps, GivesUp
    <2>2. QED
        BY <1>15, <2>1 DEF FinalizerFlushesAgain, TypeOK, GivesUp, disk, observer, Steps
<1>16. CASE FinalizerWrites
    <2>1. [source |-> "terminal", events |-> {}, waiter |-> None] \in Batches
        BY <1>16 DEF Batches
    <2>2. queue' = queue \/ queue' = Append(queue, [source |-> "terminal", events |-> {}, waiter |-> None])
        BY <1>16 DEF FinalizerWrites
    <2>3. queue' \in Seq(Batches)
        BY <1>16, <2>1, <2>2 DEF TypeOK
    <2>4. QED
        BY <1>16, <2>1, <2>2, <2>3
        DEF FinalizerWrites, TypeOK, FinalizerGoes, disk, observer, Steps
<1>17. CASE FinalizerSeals
    BY <1>17 DEF FinalizerSeals, TypeOK, FinalizerGoes, observer, Steps
<1>18. CASE FinalizerPublishes
    <2>1. catalog' \in Catalogs
        BY <1>18, CatalogTyped DEF FinalizerPublishes, TypeOK
    <2>2. QED
        BY <1>18, <2>1 DEF FinalizerPublishes, TypeOK, FinalizerGoes, disk, observer, Steps
<1>19. CASE FinalizerRemembers
    <2>1. req' \in [Threads -> Requests] /\ finalizer' \in Steps
        BY <1>19, EndsTyped DEF FinalizerRemembers, AnswerKinds, TypeOK, Steps, GivesUp
    <2>2. QED
        BY <1>19, <2>1 DEF FinalizerRemembers, TypeOK, disk, observer, Steps
<1>20. CASE FinalizerFails
    <2>1. req' \in [Threads -> Requests] /\ finalizer' \in Steps
        BY <1>20, EndsTyped DEF FinalizerFails, AnswerKinds, TypeOK, Steps, GivesUp
    <2>2. troubles' \in 0..MaxTroubles
        BY <1>20, TroubleTyped DEF FinalizerFails
    <2>3. sealing' \in BOOLEAN /\ remembered' \in BOOLEAN /\ barrier' \in BOOLEAN
        BY <1>20 DEF FinalizerFails, TypeOK, GivesUp
    <2>4. QED
        BY <1>20, <2>1, <2>2, <2>3
        DEF FinalizerFails, TypeOK, GivesUp, disk, observer, Steps
<1>21. CASE Capture
    BY <1>21 DEF Capture, TypeOK, disk, finalization
<1>22. CASE Observe
    BY <1>22 DEF Observe, TypeOK, disk, finalization
<1>23. CASE PersistObservation
    <2>1. queue' \in Seq(Batches)
        BY <1>23 DEF PersistObservation, TypeOK, Batches
    <2>2. QED
        BY <1>23, <2>1 DEF PersistObservation, TypeOK, disk, finalization
<1>24. CASE Crash
    <2>1. journal' \in [Seqs -> Nat]
        BY <1>24, BatchTyped, AppendedTyped DEF Crash, TypeOK, Ready, Working
    <2>2. catalog' \in Catalogs
        BY <1>24, <2>1, CrashCatalogs DEF Crash, TypeOK
    <2>3. req' \in [Threads -> Requests]
        BY <1>24, IdleTyped DEF Crash
    <2>4. client' \in Clients
        BY <1>24 DEF Crash, TypeOK, Clients
    <2>5. troubles' \in 0..MaxTroubles
        BY <1>24, TroubleTyped DEF Crash
    <2>6. /\ torn' \in BOOLEAN /\ unindexed' \in BOOLEAN /\ written' \in BOOLEAN
           /\ sealing' \in BOOLEAN /\ remembered' \in BOOLEAN /\ barrier' \in BOOLEAN
        BY <1>24 DEF Crash, TypeOK, GivesUp
    <2>7. QED
        BY <1>24, <2>1, <2>2, <2>3, <2>4, <2>5, <2>6 DEF Crash, TypeOK, Steps
<1>25. ASSUME NEW t \in Threads, SendGap(t) PROVE TypeOK'
    <2>1. req' \in [Threads -> Requests]
        BY <1>25, ArrivesTyped DEF SendGap, TypeOK, Clients, Places
    <2>2. client' \in Clients
        BY <1>25 DEF SendGap, TypeOK, Clients, Seqs, Fetches
    <2>3. QED
        BY <1>25, <2>1, <2>2
        DEF SendGap, TypeOK, Fetches, Arrives, disk, finalization, observer
<1>26. ASSUME NEW t \in Threads, SendBatch(t) PROVE TypeOK'
    <2>1. req' \in [Threads -> Requests]
        BY <1>26, ArrivesTyped DEF SendBatch, TypeOK, Clients, Places
    <2>2. client' \in Clients
        BY <1>26 DEF SendBatch, TypeOK, Clients, Seqs, Fetches
    <2>3. QED
        BY <1>26, <2>1, <2>2
        DEF SendBatch, TypeOK, Fetches, Arrives, disk, finalization, observer
<1>27. ASSUME NEW t \in Threads, SendClose(t) PROVE TypeOK'
    <2>1. req' \in [Threads -> Requests]
        BY <1>27, ArrivesTyped DEF SendClose, TypeOK, Clients, Places
    <2>2. client' \in Clients
        BY <1>27 DEF SendClose, TypeOK, Clients, Seqs, Fetches
    <2>3. QED
        BY <1>27, <2>1, <2>2
        DEF SendClose, TypeOK, Fetches, Arrives, disk, finalization, observer
<1>28. ASSUME NEW t \in Threads, Beacon(t) PROVE TypeOK'
    <2>1. req' \in [Threads -> Requests]
        BY <1>28, ArrivesTyped DEF Beacon, TypeOK, Clients, Places
    <2>2. client' \in Clients
        BY <1>28 DEF Beacon, TypeOK, Clients, Seqs, Fetches
    <2>3. QED
        BY <1>28, <2>1, <2>2
        DEF Beacon, TypeOK, Trouble, Arrives, disk, finalization, observer
<1>29. ASSUME NEW t \in Threads, Hear(t) PROVE TypeOK'
    <2>1. req' \in [Threads -> Requests]
        BY <1>29, IdleTyped DEF Hear, TypeOK
    <2>2. client' \in Clients
        BY <1>29, ReqTyped, HeardTyped DEF Hear, TypeOK
    <2>3. QED
        BY <1>29, <2>1, <2>2 DEF Hear, TypeOK, disk, finalization, observer
<1>30. ASSUME NEW t \in Threads, Enter(t) PROVE TypeOK'
    <2>1. req' \in [Threads -> Requests]
        BY <1>30, AnswersTyped, GoesTyped, CatalogTyped, ReqTyped
        DEF Enter, AnswerKinds, Places
    <2>2. QED
        BY <1>30, <2>1 DEF Enter, TypeOK, disk, finalization, observer
<1>31. ASSUME NEW t \in Threads, Check(t) PROVE TypeOK'
    <2>1. req' \in [Threads -> Requests]
        BY <1>31, AnswersTyped, GoesTyped, CatalogTyped, ReqTyped
        DEF Check, AnswerKinds, Places, Seqs
    <2>2. QED
        BY <1>31, <2>1 DEF Check, TypeOK, disk, finalization, observer
<1>32. ASSUME NEW t \in Threads, Submit(t) PROVE TypeOK'
    <2>1. req' \in [Threads -> Requests]
        BY <1>32, AnswersTyped, GoesTyped, CatalogTyped, ReqTyped
        DEF Submit, AnswerKinds, Places
    <2>2. [source |-> "client", events |-> req[t].items \ Pending, waiter |-> t] \in Batches
        BY <1>32, ReqTyped DEF Batches
    <2>3. \/ queue' = queue
           \/ queue' = Append(queue, [source |-> "client",
                                       events |-> req[t].items \ Pending,
                                       waiter |-> t])
        BY <1>32 DEF Submit
    <2>4. queue' \in Seq(Batches)
        BY <1>32, <2>2, <2>3 DEF TypeOK
    <2>5. QED
        BY <1>32, <2>1, <2>2, <2>3, <2>4 DEF Submit, TypeOK, disk, finalization, observer
<1>33. ASSUME NEW t \in Threads, ReadForGap(t) PROVE TypeOK'
    <2>1. req' \in [Threads -> Requests]
        BY <1>33, AnswersTyped, GoesTyped, CatalogTyped, ReqTyped
        DEF ReadForGap, AnswerKinds, Places
    <2>2. QED
        BY <1>33, <2>1 DEF ReadForGap, TypeOK, disk, finalization, observer
<1>34. ASSUME NEW t \in Threads, DeclareGap(t) PROVE TypeOK'
    <2>1. catalog' \in Catalogs
        BY <1>34, CatalogTyped, AdvancedCatalogs, ReqTyped DEF DeclareGap, TypeOK
    <2>2. catalog'.watermark \in 0..MaxSequence
        BY <1>34, <2>1 DEF Catalogs
    <2>3. req' \in [Threads -> Requests]
        BY <1>34, <2>2, AnswersTyped, CatalogTyped DEF DeclareGap, AnswerKinds
    <2>4. QED
        BY <1>34, <2>1, <2>2, <2>3 DEF DeclareGap, TypeOK, disk, finalization, observer
<1>35. ASSUME NEW t \in Threads, ReadForClose(t) PROVE TypeOK'
    <2>1. req' \in [Threads -> Requests]
        BY <1>35, AnswersTyped, GoesTyped, CatalogTyped, ReqTyped
        DEF ReadForClose, AnswerKinds, Places
    <2>2. catalog' \in Catalogs
        BY <1>35 DEF ReadForClose, TypeOK, Catalogs, Clients
    <2>3. QED
        BY <1>35, <2>1, <2>2 DEF ReadForClose, TypeOK, disk, observer, Steps
<1>36. ASSUME NEW t \in Threads, MarkClosing(t) PROVE TypeOK'
    <2>1. req' \in [Threads -> Requests]
        BY <1>36, AnswersTyped, GoesTyped, CatalogTyped, ReqTyped
        DEF MarkClosing, AnswerKinds, Places
    <2>2. catalog' \in Catalogs
        BY <1>36, CatalogTyped DEF MarkClosing, TypeOK
    <2>3. QED
        BY <1>36, <2>1, <2>2 DEF MarkClosing, TypeOK, disk, finalization, observer
<1>37. ASSUME NEW t \in Threads, DrainObservations(t) PROVE TypeOK'
    <2>1. req' \in [Threads -> Requests]
        BY <1>37, AnswersTyped, GoesTyped, CatalogTyped, ReqTyped
        DEF DrainObservations, AnswerKinds, Places
    <2>2. QED
        BY <1>37, <2>1 DEF DrainObservations, TypeOK, disk, finalization, observer
<1>38. ASSUME NEW t \in Threads, FlushForClose(t) PROVE TypeOK'
    <2>1. req' \in [Threads -> Requests]
        BY <1>38, AnswersTyped, GoesTyped, CatalogTyped, ReqTyped
        DEF FlushForClose, AnswerKinds, Places
    <2>2. QED
        BY <1>38, <2>1 DEF FlushForClose, TypeOK, disk, observer, Steps
<1>39. ASSUME NEW t \in Threads, Drop(t) PROVE TypeOK'
    <2>1. req' \in [Threads -> Requests]
        BY <1>39, IdleTyped DEF Drop, TypeOK
    <2>2. QED
        BY <1>39, <2>1 DEF Drop, TypeOK, disk, finalization, observer
<1>40. ASSUME NEW t \in Threads, SubmitFails(t) PROVE TypeOK'
    <2>1. req' \in [Threads -> Requests]
        BY <1>40, AnswersTyped, GoesTyped, CatalogTyped, ReqTyped
        DEF SubmitFails, AnswerKinds, Places
    <2>2. QED
        BY <1>40, <2>1 DEF SubmitFails, TypeOK, Trouble, disk, finalization, observer
<1>41. ASSUME NEW t \in Threads, WaitTimesOut(t) PROVE TypeOK'
    <2>1. req' \in [Threads -> Requests]
        BY <1>41, AnswersTyped, GoesTyped, CatalogTyped, ReqTyped
        DEF WaitTimesOut, AnswerKinds, Places
    <2>2. queue' \in Seq(Batches)
        BY <1>41, TimedOutTyped DEF WaitTimesOut, TypeOK
    <2>3. QED
        BY <1>41, <2>1, <2>2 DEF WaitTimesOut, TypeOK, Trouble, disk, finalization, observer
<1>42. ASSUME NEW t \in Threads, CloseTimesOut(t) PROVE TypeOK'
    <2>1. req' \in [Threads -> Requests]
        BY <1>42, AnswersTyped, GoesTyped, CatalogTyped, ReqTyped
        DEF CloseTimesOut, AnswerKinds, Places
    <2>2. QED
        BY <1>42, <2>1 DEF CloseTimesOut, TypeOK, Trouble, disk, finalization, observer
<1>43. CASE UNCHANGED vars
    BY <1>43 DEF TypeOK, vars, disk, finalization, observer
<1> QED
    BY <1>1, <1>2, <1>3, <1>4, <1>5, <1>6, <1>7, <1>8, <1>9, <1>10, <1>11,
       <1>12, <1>13, <1>14, <1>15, <1>16, <1>17, <1>18, <1>19, <1>20, <1>21,
       <1>22, <1>23, <1>24, <1>25, <1>26, <1>27, <1>28, <1>29, <1>30, <1>31,
       <1>32, <1>33, <1>34, <1>35, <1>36, <1>37, <1>38, <1>39, <1>40, <1>41,
       <1>42, <1>43
    DEF Next, Browser, Answering, Writing, Finalizing, Observing

-----------------------------------------------------------------------------
(* The inductive invariant: the catalog holds nothing the journal lacks, its *)
(* watermark covers what it accounts for, an answer says no more than that,  *)
(* and a waiting batch has a request that waits for it and for no other.     *)

IndexedIsJournaled == catalog.indexed \subseteq Journaled

WatermarkIsCovered == 1..catalog.watermark \subseteq Covered(catalog)

Batching == {"enter", "check", "submit", "wait"}

Honest(r, c) ==
    /\ r.pc \in Batching => r.kind = "batch"
    /\ r.answer = "invalid" => r.ack \in Seqs
    /\ r.answer # "invalid" => r.ack <= c.watermark
    /\ r.kind = "gap" /\ r.answer = "ok" => r.items \subseteq c.gaps

AnswersAreHonest == \A t \in Threads : Honest(req[t], catalog)

Waits(i) == queue[i].waiter # None /\ (i # 1 \/ ~written)

WaitersWait ==
    \A i \in DOMAIN queue :
        Waits(i) =>
            /\ At(queue[i].waiter, "wait")
            /\ \A j \in DOMAIN queue :
                   Waits(j) /\ queue[j].waiter = queue[i].waiter => j = i

Durable == IndexedIsJournaled /\ WatermarkIsCovered

IInv == TypeOK /\ Durable /\ AnswersAreHonest /\ WaitersWait /\ NothingIsLost

LEMMA InitIInv == Init => IInv
<1> SUFFICES ASSUME Init PROVE IInv
    OBVIOUS
<1>1. TypeOK BY InitTypeOK
<1>2. Durable
    BY DEF Init, Durable, IndexedIsJournaled, WatermarkIsCovered
<1>3. AnswersAreHonest
    <2>1. Honest(Idle, catalog) BY DEF Init, Honest, Idle, Batching
    <2>2. QED BY <2>1 DEF Init, AnswersAreHonest
<1>4. WaitersWait
    BY DEF Init, WaitersWait
<1>5. NothingIsLost
    BY DEF Init, NothingIsLost
<1> QED BY <1>1, <1>2, <1>3, <1>4, <1>5 DEF IInv

-----------------------------------------------------------------------------
(* Journal and catalog only grow. *)

Grows ==
    /\ catalog.watermark <= catalog'.watermark
    /\ catalog.gaps \subseteq catalog'.gaps
    /\ Journaled \subseteq Journaled'

LEMMA AdvancedCovers ==
    ASSUME NEW c \in Catalogs, 1..c.watermark \subseteq Covered(c),
           NEW d \in Advanced(c)
    PROVE  /\ d.indexed = c.indexed /\ d.gaps = c.gaps
           /\ c.watermark <= d.watermark
           /\ 1..d.watermark \subseteq Covered(d)
<1>1. PICK w \in c.watermark..MaxSequence :
          /\ (c.watermark + 1)..w \subseteq Covered(c)
          /\ d = [c EXCEPT !.watermark = w]
    BY DEF Advanced
<1>2. d.indexed = c.indexed /\ d.gaps = c.gaps /\ d.watermark = w
    BY <1>1 DEF Catalogs
<1>3. 1..w \subseteq 1..c.watermark \cup (c.watermark + 1)..w
    BY DiagnosticsConstants DEF Catalogs
<1> QED BY <1>1, <1>2, <1>3, DiagnosticsConstants DEF Covered, Catalogs

LEMMA AppendedJournals ==
    ASSUME TypeOK, NEW S \in SUBSET Seqs, journal' = Appended(S)
    PROVE  Journaled' = Journaled \cup S
<1>1. \A s \in Seqs : journal'[s] > 0 <=> journal[s] > 0 \/ s \in S
    BY DEF TypeOK, Appended
<1>2. QED BY <1>1 DEF Journaled

\* A catalog that gains events of the journal, or a gap, and advances.
LEMMA CatalogGains ==
    ASSUME TypeOK, Durable, NEW c \in Catalogs, catalog' \in Advanced(c),
           catalog.indexed \subseteq c.indexed, catalog.gaps \subseteq c.gaps,
           c.watermark = catalog.watermark,
           c.indexed \subseteq Journaled', Journaled \subseteq Journaled'
    PROVE  Grows /\ Durable' /\ catalog'.gaps = c.gaps
<1>1. 1..c.watermark \subseteq Covered(c)
    BY DEF Durable, WatermarkIsCovered, Covered
<1>2. /\ catalog'.indexed = c.indexed /\ catalog'.gaps = c.gaps
      /\ c.watermark <= catalog'.watermark
      /\ 1..catalog'.watermark \subseteq Covered(catalog')
    BY <1>1, AdvancedCovers
<1> QED
    BY <1>2
    DEF Grows, Durable, IndexedIsJournaled, WatermarkIsCovered, Covered

LEMMA StaysDurable ==
    ASSUME TypeOK, Durable, UNCHANGED journal,
           catalog' = catalog \/ \E st \in {"active", "interrupted", "closing", "sealed"} :
               catalog' = [catalog EXCEPT !.state = st]
               \/ \E n \in 0..MaxSequence : catalog' = [catalog EXCEPT !.final = n]
    PROVE  Grows /\ Durable'
<1>1. catalog \in Catalogs /\ catalog.watermark \in Nat
    BY DiagnosticsConstants DEF TypeOK, Catalogs
<1>2. /\ catalog'.indexed = catalog.indexed /\ catalog'.gaps = catalog.gaps
      /\ catalog'.watermark = catalog.watermark
    BY <1>1 DEF Catalogs
<1> QED
    BY <1>1, <1>2
    DEF Grows, Durable, IndexedIsJournaled, WatermarkIsCovered, Covered, Journaled

LEMMA EventsIndexed ==
    ASSUME TypeOK, Durable, NEW E \in SUBSET Seqs,
           E \subseteq Journaled', Journaled \subseteq Journaled',
           catalog' \in Advanced([catalog EXCEPT !.indexed = @ \cup E])
    PROVE  Grows /\ Durable'
<1> DEFINE c == [catalog EXCEPT !.indexed = @ \cup E]
<1>1. /\ c \in Catalogs /\ c.indexed = catalog.indexed \cup E
      /\ c.gaps = catalog.gaps /\ c.watermark = catalog.watermark
    BY DEF TypeOK, Catalogs
<1>2. catalog' \in Advanced(c) OBVIOUS
<1> HIDE DEF c
<1> QED BY <1>1, <1>2, CatalogGains DEF Durable, IndexedIsJournaled

LEMMA GapDeclared ==
    ASSUME TypeOK, Durable, NEW G \in SUBSET Seqs, UNCHANGED journal,
           catalog' \in Advanced([catalog EXCEPT !.gaps = @ \cup G])
    PROVE  Grows /\ Durable' /\ G \subseteq catalog'.gaps
<1> DEFINE c == [catalog EXCEPT !.gaps = @ \cup G]
<1>1. /\ c \in Catalogs /\ c.indexed = catalog.indexed
      /\ c.gaps = catalog.gaps \cup G /\ c.watermark = catalog.watermark
    BY DEF TypeOK, Catalogs
<1>2. catalog' \in Advanced(c) /\ Journaled' = Journaled BY DEF Journaled
<1> HIDE DEF c
<1> QED BY <1>1, <1>2, CatalogGains DEF Durable, IndexedIsJournaled

LEMMA CatalogAndJournalGrow ==
    ASSUME TypeOK, Durable, [Next]_vars
    PROVE  Grows /\ Durable'
<1>1. catalog \in Catalogs /\ Journaled \subseteq Seqs BY DEF TypeOK, Journaled
<1>2. ASSUME UNCHANGED <<catalog, journal>> PROVE Grows /\ Durable'
    BY <1>2, StaysDurable
<1>3. ASSUME UNCHANGED journal,
             NEW st \in {"active", "interrupted", "closing", "sealed"},
             catalog' = [catalog EXCEPT !.state = st]
      PROVE  Grows /\ Durable'
    BY <1>3, StaysDurable
<1>4. CASE Reindex
    <2>1. CASE torn BY <1>2, <1>4, <2>1 DEF Reindex, disk
    <2>2. CASE ~torn
        <3>1. Journaled' = Journaled BY <1>4 DEF Reindex, disk, Journaled
        <3> QED BY <1>1, <1>4, <2>2, <3>1, EventsIndexed DEF Reindex
    <2> QED BY <2>1, <2>2 DEF TypeOK
<1>5. CASE Write
    <2>1. CASE Head(queue).events \cap catalog.gaps # {}
        BY <1>2, <1>5, <2>1 DEF Write
    <2>2. CASE Head(queue).events \cap catalog.gaps = {}
        <3>1. Fresh \subseteq Seqs /\ journal' = Appended(Fresh)
            BY <1>5, <2>2, BatchTyped DEF Write, Ready, Working
        <3>2. Journaled' = Journaled \cup Fresh BY <3>1, AppendedJournals
        <3> QED BY <1>5, <2>2, <3>1, <3>2, EventsIndexed DEF Write
    <2> QED BY <2>1, <2>2
<1>6. CASE WriteFails
    <2>1. CASE UNCHANGED <<journal, catalog>> BY <1>2, <2>1
    <2>2. CASE journal' = Appended(Fresh)
        <3>1. Fresh \subseteq Seqs
            BY <1>6, BatchTyped DEF WriteFails, Ready, Working
        <3>2. Journaled' = Journaled \cup Fresh BY <2>2, <3>1, AppendedJournals
        <3>3. CASE UNCHANGED catalog
            <4>1. catalog.watermark \in Nat
                BY <1>1, DiagnosticsConstants DEF Catalogs
            <4> QED
                BY <3>2, <3>3, <4>1
                DEF Grows, Durable, IndexedIsJournaled, WatermarkIsCovered, Covered
        <3>4. CASE catalog' \in Advanced([catalog EXCEPT !.indexed = @ \cup Fresh])
            BY <3>1, <3>2, <3>4, EventsIndexed
        <3> QED BY <1>6, <2>2, <3>3, <3>4 DEF WriteFails, Appended
    <2> QED BY <1>6, <2>1, <2>2 DEF WriteFails
<1>7. CASE Crash
    <2>1. Journaled \subseteq Journaled' /\ Journaled' \subseteq Seqs
        <3>1. CASE UNCHANGED journal BY <1>1, <3>1 DEF Journaled
        <3>2. CASE Ready /\ journal' = Appended(Fresh)
            <4>1. Fresh \subseteq Seqs BY <3>2, BatchTyped DEF Ready, Working
            <4> QED BY <1>1, <3>2, <4>1, AppendedJournals
        <3> QED BY <1>7, <3>1, <3>2 DEF Crash
    <2>2. CASE catalog' = catalog
        <3>1. catalog.watermark \in Nat
            BY <1>1, DiagnosticsConstants DEF Catalogs
        <3> QED
            BY <2>1, <2>2, <3>1
            DEF Grows, Durable, IndexedIsJournaled, WatermarkIsCovered, Covered
    <2>3. CASE catalog' \in Advanced([catalog EXCEPT !.state = "interrupted",
                               !.indexed = @ \cup {s \in Seqs : journal'[s] > 0}])
        <3>1. {s \in Seqs : journal'[s] > 0} = Journaled' BY DEF Journaled
        <3> DEFINE c == [catalog EXCEPT !.state = "interrupted",
                                        !.indexed = @ \cup Journaled']
        <3>2. /\ c \in Catalogs /\ c.indexed = catalog.indexed \cup Journaled'
              /\ c.gaps = catalog.gaps /\ c.watermark = catalog.watermark
            BY <1>1, <2>1 DEF Catalogs
        <3>3. catalog' \in Advanced(c) BY <2>3, <3>1
        <3> HIDE DEF c
        <3> QED
            BY <2>1, <3>2, <3>3, CatalogGains DEF Durable, IndexedIsJournaled
    <2> QED BY <1>7, <2>2, <2>3 DEF Crash
<1>8. ASSUME NEW t \in Threads, DeclareGap(t) PROVE Grows /\ Durable'
    <2>1. UNCHANGED journal /\ req[t].items \subseteq Seqs
        BY <1>8, ReqTyped DEF DeclareGap, disk
    <2>2. CASE catalog' = catalog BY <1>2, <2>1, <2>2
    <2>3. CASE catalog' \in Advanced([catalog EXCEPT !.gaps = @ \cup req[t].items])
        BY <2>1, <2>3, GapDeclared
    <2> QED BY <1>8, <2>2, <2>3 DEF DeclareGap
<1>9. ASSUME NEW t \in Threads, ReadForClose(t) PROVE Grows /\ Durable'
    <2>1. UNCHANGED journal BY <1>9 DEF ReadForClose, disk
    <2>2. client.produced \in 0..MaxSequence BY DEF TypeOK, Clients
    <2> QED BY <1>9, <2>1, <2>2, StaysDurable DEF ReadForClose
<1>10. ASSUME NEW t \in Threads, MarkClosing(t) PROVE Grows /\ Durable'
    BY <1>3, <1>10 DEF MarkClosing, disk
<1>11. CASE FinalizerMarks BY <1>3, <1>11 DEF FinalizerMarks, disk
<1>12. CASE FinalizerPublishes BY <1>3, <1>12 DEF FinalizerPublishes, disk
<1>13. CASE Record \/ StartClosing \/ LoseAnswer
    BY <1>2, <1>13 DEF Record, StartClosing, LoseAnswer, disk
<1>14. ASSUME NEW t \in Threads,
              SendGap(t) \/ SendBatch(t) \/ SendClose(t) \/ Beacon(t) \/ Hear(t)
       PROVE  Grows /\ Durable'
    BY <1>2, <1>14
    DEF SendGap, SendBatch, SendClose, Beacon, Hear, Arrives, disk
<1>15. ASSUME NEW t \in Threads,
              \/ Enter(t) \/ Check(t) \/ Submit(t) \/ ReadForGap(t)
              \/ DrainObservations(t) \/ FlushForClose(t) \/ Drop(t)
              \/ SubmitFails(t) \/ WaitTimesOut(t) \/ CloseTimesOut(t)
       PROVE  Grows /\ Durable'
    BY <1>2, <1>15
    DEF Enter, Check, Submit, ReadForGap, DrainObservations, FlushForClose,
        Drop, SubmitFails, WaitTimesOut, CloseTimesOut, disk
<1>16. CASE WriteRefused \/ WriteServerEvents \/ Release
    BY <1>2, <1>16 DEF WriteRefused, WriteServerEvents, Release, disk
<1>17. CASE \/ FinalizerReads \/ FinalizerDrains \/ FinalizerFlushes
            \/ FinalizerGates \/ FinalizerFlushesAgain \/ FinalizerWrites
            \/ FinalizerSeals \/ FinalizerRemembers \/ FinalizerFails
    BY <1>2, <1>17
    DEF FinalizerReads, FinalizerDrains, FinalizerFlushes, FinalizerGates,
        FinalizerFlushesAgain, FinalizerWrites, FinalizerSeals,
        FinalizerRemembers, FinalizerFails, disk
<1>18. CASE Capture \/ Observe \/ PersistObservation
    BY <1>2, <1>18 DEF Capture, Observe, PersistObservation, disk
<1>19. CASE UNCHANGED vars BY <1>2, <1>19 DEF vars, disk
<1> QED
    BY <1>4, <1>5, <1>6, <1>7, <1>8, <1>9, <1>10, <1>11, <1>12, <1>13, <1>14,
       <1>15, <1>16, <1>17, <1>18, <1>19
    DEF Next, Browser, Answering, Writing, Finalizing, Observing

-----------------------------------------------------------------------------
(* Answers stay honest. *)

Before == TypeOK /\ TypeOK' /\ Grows /\ AnswersAreHonest

LEMMA HonestForLong ==
    ASSUME Before, NEW r \in Requests, Honest(r, catalog)
    PROVE  Honest(r, catalog')
<1>1. catalog.watermark \in Nat /\ catalog'.watermark \in Nat
    BY DiagnosticsConstants DEF Before, TypeOK, Catalogs
<1>2. r.ack \in Nat BY DiagnosticsConstants DEF Requests
<1> QED BY <1>1, <1>2 DEF Before, Grows, Honest

LEMMA OthersStayHonest ==
    ASSUME Before,
           \A u \in Threads : req'[u] = req[u] \/ Honest(req'[u], catalog')
    PROVE  AnswersAreHonest'
<1> SUFFICES ASSUME NEW u \in Threads PROVE Honest(req'[u], catalog')
    BY DEF AnswersAreHonest
<1>1. req[u] \in Requests /\ Honest(req[u], catalog)
    BY DEF Before, TypeOK, AnswersAreHonest
<1> QED BY <1>1, HonestForLong

LEMMA AnsweredHonest ==
    ASSUME NEW r, NEW c, NEW a \in AnswerKinds \ {"invalid"}, NEW n,
           n <= c.watermark,
           r.kind = "gap" /\ a = "ok" => r.items \subseteq c.gaps
    PROVE  Honest(Answered(r, a, n), c)
<1>1. QED BY DEF Honest, Answered, Batching

LEMMA AnswersHonest ==
    ASSUME Before, NEW t \in Threads, NEW a \in AnswerKinds \ {"invalid"},
           NEW n \in 0..MaxSequence, Answers(t, a, n), n <= catalog'.watermark,
           req[t].kind = "gap" /\ a = "ok" => req[t].items \subseteq catalog'.gaps
    PROVE  AnswersAreHonest'
<1>1. Honest(Answered(req[t], a, n), catalog') BY AnsweredHonest
<1>2. \A u \in Threads :
          req'[u] = IF u = t THEN Answered(req[t], a, n) ELSE req[u]
    BY DEF Answers, Before, TypeOK
<1> QED BY <1>1, <1>2, OthersStayHonest

LEMMA GoesHonest ==
    ASSUME Before, NEW t \in Threads, NEW p, Goes(t, p),
           p \in Batching => req[t].pc \in Batching
    PROVE  AnswersAreHonest'
<1>1. req[t] \in Requests /\ req'[t] \in Requests /\ Honest(req[t], catalog)
    BY DEF Before, TypeOK, AnswersAreHonest
<1>2. \A u \in Threads :
          req'[u] = IF u = t THEN [req[t] EXCEPT !.pc = p] ELSE req[u]
    BY DEF Goes, Before, TypeOK
<1>3. Honest([req[t] EXCEPT !.pc = p], catalog)
    BY <1>1 DEF Honest, Requests
<1>4. Honest(req'[t], catalog') BY <1>1, <1>2, <1>3, HonestForLong
<1> QED BY <1>2, <1>4, OthersStayHonest

LEMMA IdleHonest ==
    ASSUME Before
    PROVE  Honest(Idle, catalog')
<1>1. catalog'.watermark \in Nat
    BY DiagnosticsConstants DEF Before, TypeOK, Catalogs
<1> QED BY <1>1 DEF Honest, Idle, Batching

LEMMA ArrivesHonest ==
    ASSUME Before, NEW t \in Threads, NEW k, NEW p, NEW items,
           Arrives(t, k, p, items), p \in Batching => k = "batch"
    PROVE  AnswersAreHonest'
<1>1. catalog'.watermark \in Nat
    BY DiagnosticsConstants DEF Before, TypeOK, Catalogs
<1>2. Honest([kind |-> k, pc |-> p, items |-> items, answer |-> "none",
              ack |-> 0], catalog')
    BY <1>1 DEF Honest
<1>3. \A u \in Threads :
          req'[u] = IF u = t THEN [kind |-> k, pc |-> p, items |-> items,
                                   answer |-> "none", ack |-> 0] ELSE req[u]
    BY DEF Arrives, Before, TypeOK
<1> QED BY <1>2, <1>3, OthersStayHonest

LEMMA EndsHonest ==
    ASSUME Before, NEW a \in {"closing", "sealed"}, Ends(a)
    PROVE  AnswersAreHonest'
<1>1. /\ catalog.watermark \in Nat /\ catalog'.watermark \in Nat
      /\ catalog.watermark <= catalog'.watermark
    BY DiagnosticsConstants DEF Before, TypeOK, Catalogs, Grows
<1>2. \A u \in Threads :
          Honest(Answered(req[u], a, catalog.watermark), catalog')
    BY <1>1, AnsweredHonest DEF AnswerKinds
<1>3. \A u \in Threads :
          req'[u] = IF req[u].pc = "join"
                    THEN Answered(req[u], a, catalog.watermark) ELSE req[u]
    BY DEF Ends
<1> QED BY <1>2, <1>3, OthersStayHonest

\* Only batches have waiters, so what the writer answers is about events.
LEMMA HeadWaits ==
    ASSUME TypeOK, AnswersAreHonest, WaitersWait, queue # <<>>, ~written,
           Head(queue).waiter # None
    PROVE  /\ Head(queue).waiter \in Threads
           /\ At(Head(queue).waiter, "wait")
           /\ req[Head(queue).waiter].kind = "batch"
           /\ \A j \in DOMAIN queue :
                  queue[j].waiter = Head(queue).waiter => j = 1
<1>1. Head(queue) = queue[1] /\ 1 \in DOMAIN queue BY DEF TypeOK
<1>2. Waits(1) BY <1>1 DEF Waits
<1>3. Head(queue).waiter \in Threads BY HeadTyped DEF Batches
<1>4. \A j \in DOMAIN queue : queue[j].waiter = Head(queue).waiter => Waits(j)
    BY DEF Waits
<1> QED
    BY <1>1, <1>2, <1>3, <1>4 DEF WaitersWait, AnswersAreHonest, Honest, Batching, At

LEMMA CompletesHonest ==
    ASSUME Before, WaitersWait, queue # <<>>, ~written,
           NEW a \in AnswerKinds \ {"invalid"}, NEW n \in 0..MaxSequence,
           Completes(a, n), n <= catalog'.watermark
    PROVE  AnswersAreHonest'
<1> DEFINE t == Head(queue).waiter
<1>1. CASE t = None BY <1>1, OthersStayHonest DEF Completes
<1>2. CASE t # None
    <2>1. t \in Threads /\ req[t].kind = "batch" BY <1>2, HeadWaits DEF Before
    <2>2. Honest(Answered(req[t], a, n), catalog') BY <2>1, AnsweredHonest
    <2>3. \A u \in Threads :
              req'[u] = IF u = t THEN Answered(req[t], a, n) ELSE req[u]
        BY <1>2, <2>1 DEF Completes, Before, TypeOK
    <2> QED BY <2>2, <2>3, OthersStayHonest
<1> QED BY <1>1, <1>2

LEMMA AnswersStayHonest ==
    ASSUME Before, Durable, WaitersWait, [Next]_vars
    PROVE  AnswersAreHonest'
<1>1. /\ 0 \in 0..MaxSequence /\ 0 <= catalog'.watermark
      /\ catalog'.watermark \in 0..MaxSequence
      /\ catalog.watermark \in 0..MaxSequence
      /\ catalog.watermark <= catalog'.watermark
    BY DiagnosticsConstants DEF Before, TypeOK, Catalogs, Grows
<1>2. ASSUME UNCHANGED req PROVE AnswersAreHonest'
    BY <1>2, OthersStayHonest
<1>3. ASSUME NEW t \in Threads, req' = [req EXCEPT ![t] = Idle]
      PROVE  AnswersAreHonest'
    <2>1. \A u \in Threads : req'[u] = IF u = t THEN Idle ELSE req[u]
        BY <1>3 DEF Before, TypeOK
    <2> QED BY <2>1, IdleHonest, OthersStayHonest
<1>4. CASE Reindex
    BY <1>4, <1>1, <1>2, CompletesHonest DEF Reindex, Working, Ready, AnswerKinds
<1>5. CASE Write
    BY <1>5, <1>1, <1>2, CompletesHonest DEF Write, Working, Ready, AnswerKinds
<1>6. CASE WriteFails
    BY <1>6, <1>1, <1>2, CompletesHonest DEF WriteFails, Working, Ready, AnswerKinds
<1>7. CASE WriteRefused
    BY <1>7, <1>1, <1>2, CompletesHonest DEF WriteRefused, Working, Ready, AnswerKinds
<1>8. ASSUME NEW t \in Threads, SendGap(t) PROVE AnswersAreHonest'
    BY <1>8, ArrivesHonest DEF SendGap, Batching
<1>9. ASSUME NEW t \in Threads, SendBatch(t) PROVE AnswersAreHonest'
    BY <1>9, ArrivesHonest DEF SendBatch, Batching
<1>10. ASSUME NEW t \in Threads, SendClose(t) PROVE AnswersAreHonest'
    BY <1>10, ArrivesHonest DEF SendClose, Batching
<1>11. ASSUME NEW t \in Threads, Beacon(t) PROVE AnswersAreHonest'
    BY <1>11, ArrivesHonest DEF Beacon, Batching
<1>12. ASSUME NEW t \in Threads, Hear(t) PROVE AnswersAreHonest'
    BY <1>12, <1>3 DEF Hear
<1>13. ASSUME NEW t \in Threads, Drop(t) PROVE AnswersAreHonest'
    BY <1>13, <1>3 DEF Drop
<1>14. ASSUME NEW t \in Threads, Enter(t) PROVE AnswersAreHonest'
    BY <1>14, <1>1, AnswersHonest, GoesHonest DEF Enter, At, AnswerKinds, Batching
<1>15. ASSUME NEW t \in Threads, ReadForGap(t) PROVE AnswersAreHonest'
    BY <1>15, <1>1, AnswersHonest, GoesHonest DEF ReadForGap, At, AnswerKinds, Batching
<1>16. ASSUME NEW t \in Threads, ReadForClose(t) PROVE AnswersAreHonest'
    BY <1>16, <1>1, AnswersHonest, GoesHonest DEF ReadForClose, At, AnswerKinds, Batching
<1>17. ASSUME NEW t \in Threads, MarkClosing(t) PROVE AnswersAreHonest'
    BY <1>17, <1>1, AnswersHonest, GoesHonest DEF MarkClosing, At, AnswerKinds, Batching
<1>18. ASSUME NEW t \in Threads, DrainObservations(t) PROVE AnswersAreHonest'
    BY <1>18, <1>1, AnswersHonest, GoesHonest
    DEF DrainObservations, At, AnswerKinds, Batching
<1>19. ASSUME NEW t \in Threads, FlushForClose(t) PROVE AnswersAreHonest'
    BY <1>19, <1>1, AnswersHonest, GoesHonest DEF FlushForClose, At, AnswerKinds, Batching
<1>20. ASSUME NEW t \in Threads, SubmitFails(t) PROVE AnswersAreHonest'
    BY <1>20, <1>1, AnswersHonest, GoesHonest DEF SubmitFails, At, AnswerKinds, Batching
<1>21. ASSUME NEW t \in Threads, WaitTimesOut(t) PROVE AnswersAreHonest'
    BY <1>21, <1>1, AnswersHonest, GoesHonest DEF WaitTimesOut, At, AnswerKinds, Batching
<1>22. ASSUME NEW t \in Threads, CloseTimesOut(t) PROVE AnswersAreHonest'
    BY <1>22, <1>1, AnswersHonest, GoesHonest DEF CloseTimesOut, At, AnswerKinds, Batching
<1>23. ASSUME NEW t \in Threads, Submit(t) PROVE AnswersAreHonest'
    <2>1. req[t].kind = "batch"
        BY <1>23 DEF Submit, At, Before, AnswersAreHonest, Honest, Batching
    <2>2. Answers(t, "ok", catalog.watermark) \/ Goes(t, "wait")
        BY <1>23 DEF Submit
    <2> QED
        BY <1>1, <1>23, <2>1, <2>2, AnswersHonest, GoesHonest
        DEF Submit, At, AnswerKinds, Batching
<1>24. ASSUME NEW t \in Threads, Check(t) PROVE AnswersAreHonest'
    <2>1. ASSUME NEW s \in req[t].items, Answers(t, "invalid", s)
          PROVE  AnswersAreHonest'
        <3>1. s \in Seqs BY <2>1, ReqTyped DEF Before
        <3>2. Honest(Answered(req[t], "invalid", s), catalog')
            BY <3>1 DEF Honest, Answered, Batching
        <3>3. \A u \in Threads :
                  req'[u] = IF u = t THEN Answered(req[t], "invalid", s) ELSE req[u]
            BY <2>1 DEF Answers, Before, TypeOK
        <3> QED BY <3>2, <3>3, OthersStayHonest
    <2> QED
        BY <1>1, <1>24, <2>1, AnswersHonest, GoesHonest
        DEF Check, At, AnswerKinds, Batching
<1>25. ASSUME NEW t \in Threads, DeclareGap(t) PROVE AnswersAreHonest'
    <2>1. CASE Answers(t, "conflict", 0)
        BY <1>1, <2>1, AnswersHonest DEF AnswerKinds
    <2>2. CASE /\ catalog' \in Advanced([catalog EXCEPT !.gaps = @ \cup req[t].items])
               /\ Answers(t, "ok", catalog'.watermark)
        <3>1. req[t].items \subseteq catalog'.gaps
            BY <1>25, <2>2, ReqTyped, GapDeclared DEF Before, DeclareGap, disk
        <3> QED BY <1>1, <2>2, <3>1, AnswersHonest DEF AnswerKinds
    <2> QED BY <1>25, <2>1, <2>2 DEF DeclareGap
<1>26. CASE FinalizerReads
    BY <1>2, <1>26, EndsHonest DEF FinalizerReads
<1>27. CASE FinalizerFlushes
    BY <1>2, <1>27, EndsHonest DEF FinalizerFlushes, GivesUp
<1>28. CASE FinalizerFlushesAgain
    BY <1>2, <1>28, EndsHonest DEF FinalizerFlushesAgain, GivesUp
<1>29. CASE FinalizerRemembers
    BY <1>2, <1>29, EndsHonest DEF FinalizerRemembers
<1>30. CASE FinalizerFails
    BY <1>2, <1>30, EndsHonest DEF FinalizerFails, GivesUp
<1>31. CASE Crash
    BY <1>31, IdleHonest, OthersStayHonest DEF Crash
<1>32. CASE Record \/ StartClosing \/ LoseAnswer \/ WriteServerEvents \/ Release
    BY <1>2, <1>32 DEF Record, StartClosing, LoseAnswer, WriteServerEvents, Release
<1>33. CASE \/ FinalizerMarks \/ FinalizerDrains \/ FinalizerGates
            \/ FinalizerWrites \/ FinalizerSeals \/ FinalizerPublishes
    BY <1>2, <1>33
    DEF FinalizerMarks, FinalizerDrains, FinalizerGates, FinalizerWrites,
        FinalizerSeals, FinalizerPublishes
<1>34. CASE Capture \/ Observe \/ PersistObservation
    BY <1>2, <1>34 DEF Capture, Observe, PersistObservation
<1>35. CASE UNCHANGED vars BY <1>2, <1>35 DEF vars
<1> QED
    BY <1>4, <1>5, <1>6, <1>7, <1>8, <1>9, <1>10, <1>11, <1>12, <1>13, <1>14,
       <1>15, <1>16, <1>17, <1>18, <1>19, <1>20, <1>21, <1>22, <1>23, <1>24,
       <1>25, <1>26, <1>27, <1>28, <1>29, <1>30, <1>31, <1>32, <1>33, <1>34,
       <1>35
    DEF Next, Browser, Answering, Writing, Finalizing, Observing

-----------------------------------------------------------------------------
(* A waiting batch keeps its request. *)

LEMMA QueueTyped ==
    ASSUME TypeOK
    PROVE  \A i \in DOMAIN queue : queue[i].waiter \in Threads \cup {None}
<1>1. \A i \in DOMAIN queue : queue[i] \in Batches BY DEF TypeOK
<1> QED BY <1>1 DEF Batches

LEMMA QueueUnchanged ==
    ASSUME TypeOK, WaitersWait, UNCHANGED <<queue, written>>,
           \A u \in Threads : At(u, "wait") => req'[u].pc = "wait"
    PROVE  WaitersWait'
<1>1. \A i \in DOMAIN queue : queue[i].waiter \in Threads \cup {None}
    BY QueueTyped
<1> QED BY <1>1 DEF WaitersWait, Waits, At

LEMMA WithoutWaiter ==
    ASSUME TypeOK, WaitersWait, NEW b \in Batches, b.waiter = None,
           queue' = Append(queue, b), UNCHANGED <<req, written>>
    PROVE  WaitersWait'
<1>1. /\ DOMAIN queue' = DOMAIN queue \cup {Len(queue) + 1}
      /\ \A i \in DOMAIN queue : queue'[i] = queue[i]
      /\ queue'[Len(queue) + 1] = b
    BY DEF TypeOK
<1> QED BY <1>1 DEF WaitersWait, Waits, At

LEMMA WithWaiter ==
    ASSUME TypeOK, WaitersWait, NEW t \in Threads, NEW b \in Batches,
           b.waiter = t, queue' = Append(queue, b), UNCHANGED written,
           Goes(t, "wait"), ~At(t, "wait")
    PROVE  WaitersWait'
<1>1. /\ DOMAIN queue' = DOMAIN queue \cup {Len(queue) + 1}
      /\ \A i \in DOMAIN queue : queue'[i] = queue[i]
      /\ queue'[Len(queue) + 1] = b
    BY DEF TypeOK
<1>2. \A i \in DOMAIN queue : Waits(i) => queue[i].waiter # t
    BY DEF WaitersWait
<1>3. \A i \in DOMAIN queue : queue[i].waiter \in Threads \cup {None}
    BY QueueTyped
<1>4. \A u \in Threads : At(u, "wait") \/ u = t => req'[u].pc = "wait"
    BY DEF Goes, TypeOK, Requests, At
<1>5. \A i \in DOMAIN queue : Waits(i)' <=> Waits(i)
    BY <1>1 DEF Waits
<1>6. \A i \in DOMAIN queue : queue'[i].waiter = queue[i].waiter
    BY <1>1
<1>7. queue'[Len(queue) + 1].waiter = t /\ Len(queue) + 1 \notin DOMAIN queue
    BY <1>1 DEF TypeOK
<1> SUFFICES ASSUME NEW i \in DOMAIN queue', Waits(i)'
             PROVE  /\ At(queue[i].waiter, "wait")'
                    /\ \A j \in DOMAIN queue' :
                           Waits(j)' /\ queue'[j].waiter = queue'[i].waiter
                               => j = i
    BY DEF WaitersWait
<1>8. CASE i \in DOMAIN queue
    <2>1. Waits(i) /\ queue'[i].waiter = queue[i].waiter /\ queue[i].waiter # t
        BY <1>2, <1>5, <1>6, <1>8
    <2>2. queue[i].waiter \in Threads /\ At(queue[i].waiter, "wait")
        BY <1>3, <1>8, <2>1 DEF WaitersWait, Waits
    <2>3. At(queue[i].waiter, "wait")'
        BY <1>4, <2>1, <2>2 DEF At
    <2>4. ASSUME NEW j \in DOMAIN queue', Waits(j)',
                 queue'[j].waiter = queue'[i].waiter
          PROVE  j = i
        <3>1. j \in DOMAIN queue BY <1>1, <1>7, <2>1, <2>4
        <3> QED BY <1>5, <1>6, <1>8, <2>1, <2>4, <3>1 DEF WaitersWait
    <2> QED BY <2>3, <2>4
<1>9. CASE i = Len(queue) + 1
    <2>1. At(queue[i].waiter, "wait")'
        BY <1>4, <1>7, <1>9 DEF At
    <2>2. ASSUME NEW j \in DOMAIN queue', Waits(j)',
                 queue'[j].waiter = queue'[i].waiter
          PROVE  j = i
        <3>1. j \notin DOMAIN queue BY <1>2, <1>5, <1>6, <1>7, <1>9, <2>2
        <3> QED BY <1>1, <1>9, <3>1
    <2> QED BY <2>1, <2>2
<1> QED BY <1>1, <1>8, <1>9

LEMMA HeadCompleted ==
    ASSUME TypeOK, AnswersAreHonest, WaitersWait, queue # <<>>, ~written,
           NEW a, NEW n, Completes(a, n), UNCHANGED queue
    PROVE  WaitersWait'
<1> DEFINE t == Head(queue).waiter
<1>1. written' /\ \A i \in DOMAIN queue : Waits(i)' => Waits(i) /\ i # 1
    BY DEF Completes, Waits
<1>2. \A i \in DOMAIN queue : queue[i].waiter \in Threads \cup {None}
    BY QueueTyped
<1>3. CASE t = None
    <2>1. UNCHANGED req BY <1>3 DEF Completes
    <2> QED BY <1>1, <2>1 DEF WaitersWait, At
<1>4. CASE t # None
    <2>1. /\ t \in Threads
          /\ \A i \in DOMAIN queue : queue[i].waiter = t => i = 1
        BY <1>4, HeadWaits
    <2>2. \A u \in Threads : u # t => req'[u] = req[u]
        BY <1>4, <2>1 DEF Completes, TypeOK
    <2>3. \A i \in DOMAIN queue : Waits(i)' => queue[i].waiter \in Threads \ {t}
        BY <1>1, <1>2, <2>1 DEF Waits
    <2> QED BY <1>1, <2>2, <2>3 DEF WaitersWait, At
<1> QED BY <1>3, <1>4

LEMMA HeadReleased ==
    ASSUME TypeOK, WaitersWait, Release
    PROVE  WaitersWait'
<1>1. queue # <<>> /\ queue' = Tail(queue) /\ ~written' /\ UNCHANGED req
    BY DEF Release, disk, finalization, observer
<1>2. \A i \in DOMAIN queue' :
          i + 1 \in DOMAIN queue /\ i + 1 # 1 /\ queue'[i] = queue[i + 1]
    BY <1>1 DEF TypeOK
<1>3. \A i \in DOMAIN queue' : Waits(i)' => Waits(i + 1)
    BY <1>1, <1>2 DEF Waits
<1>4. \A i, j \in DOMAIN queue' : i + 1 = j + 1 => i = j
    BY <1>1 DEF TypeOK
<1> QED BY <1>1, <1>2, <1>3, <1>4 DEF WaitersWait, At

LEMMA WaiterTimesOut ==
    ASSUME TypeOK, WaitersWait, NEW t \in Threads, WaitTimesOut(t)
    PROVE  WaitersWait'
<1>1. /\ DOMAIN queue' = DOMAIN queue /\ UNCHANGED written
      /\ \A i \in DOMAIN queue :
             queue'[i] = IF queue[i].waiter = t
                         THEN [queue[i] EXCEPT !.waiter = None] ELSE queue[i]
    BY DEF WaitTimesOut
<1>2. \A i \in DOMAIN queue : queue[i] \in Batches
    BY DEF TypeOK
<1>3. \A i \in DOMAIN queue :
          queue'[i].waiter = IF queue[i].waiter = t THEN None ELSE queue[i].waiter
    BY <1>1, <1>2 DEF Batches
<1>4. \A i \in DOMAIN queue :
          Waits(i)' => Waits(i) /\ queue[i].waiter \in Threads \ {t}
    BY <1>1, <1>2, <1>3 DEF Waits, Batches
<1>5. \A u \in Threads \ {t} : req'[u] = req[u]
    BY DEF WaitTimesOut, Answers, TypeOK
<1> QED BY <1>1, <1>3, <1>4, <1>5 DEF WaitersWait, At

\* A step that only answers or moves on a request that does not wait.
LEMMA OthersWait ==
    ASSUME TypeOK, WaitersWait, UNCHANGED <<queue, written>>,
           NEW t \in Threads, ~At(t, "wait"),
           \A u \in Threads : u # t => req'[u] = req[u]
    PROVE  WaitersWait'
<1>1. \A u \in Threads : At(u, "wait") => req'[u].pc = "wait"
    BY DEF At
<1> QED BY <1>1, QueueUnchanged

LEMMA OneAnswered ==
    ASSUME TypeOK, NEW t \in Threads,
           \/ \E a, n : Answers(t, a, n)
           \/ \E p : Goes(t, p)
           \/ \E k, p, items : Arrives(t, k, p, items)
           \/ req' = [req EXCEPT ![t] = Idle]
    PROVE  \A u \in Threads : u # t => req'[u] = req[u]
<1>1. QED BY DEF TypeOK, Answers, Goes, Arrives

LEMMA ArrivedIsNew ==
    ASSUME TypeOK, WaitersWait, NEW t \in Threads,
           \E k, p, items : Arrives(t, k, p, items)
    PROVE  WaitersWait'
<1>1. req[t].pc = "idle" /\ UNCHANGED <<queue, written>>
    BY DEF Arrives, Idle
<1>2. \A u \in Threads : u # t => req'[u] = req[u] BY OneAnswered
<1> QED BY <1>1, <1>2, OthersWait DEF At

LEMMA EndedWait ==
    ASSUME TypeOK, WaitersWait, UNCHANGED <<queue, written>>, NEW a, Ends(a)
    PROVE  WaitersWait'
<1>1. \A u \in Threads : At(u, "wait") => req'[u].pc = "wait"
    BY DEF At, Ends
<1> QED BY <1>1, QueueUnchanged

LEMMA ServerBatches ==
    /\ [source |-> "terminal", events |-> {}, waiter |-> None] \in Batches
    /\ [source |-> "observation", events |-> {}, waiter |-> None] \in Batches
<1>1. QED BY DEF Batches

LEMMA WaitersStay ==
    ASSUME TypeOK, AnswersAreHonest, WaitersWait, [Next]_vars
    PROVE  WaitersWait'
<1>1. ASSUME UNCHANGED <<req, queue, written>> PROVE WaitersWait'
    BY <1>1, QueueUnchanged DEF At
<1>2. ASSUME NEW t \in Threads, ~At(t, "wait"), UNCHANGED <<queue, written>>,
             \/ \E a, n : Answers(t, a, n)
             \/ \E p : Goes(t, p)
             \/ \E k, p, items : Arrives(t, k, p, items)
             \/ req' = [req EXCEPT ![t] = Idle]
      PROVE  WaitersWait'
    BY <1>2, OneAnswered, OthersWait
<1>3. ASSUME NEW t \in Threads, SendGap(t) PROVE WaitersWait'
    <2>1. \E k, p, items : Arrives(t, k, p, items)
        BY <1>3 DEF SendGap
    <2> QED BY <2>1, ArrivedIsNew
<1>4. ASSUME NEW t \in Threads, SendBatch(t) PROVE WaitersWait'
    <2>1. \E k, p, items : Arrives(t, k, p, items)
        BY <1>4 DEF SendBatch
    <2> QED BY <2>1, ArrivedIsNew
<1>5. ASSUME NEW t \in Threads, SendClose(t) PROVE WaitersWait'
    <2>1. \E k, p, items : Arrives(t, k, p, items)
        BY <1>5 DEF SendClose
    <2> QED BY <2>1, ArrivedIsNew
<1>6. ASSUME NEW t \in Threads, Beacon(t) PROVE WaitersWait'
    <2>1. \E k, p, items : Arrives(t, k, p, items)
        BY <1>6 DEF Beacon
    <2> QED BY <2>1, ArrivedIsNew
<1>7. ASSUME NEW t \in Threads, Hear(t) PROVE WaitersWait'
    BY <1>7, <1>2 DEF Hear, At
<1>8. ASSUME NEW t \in Threads, Drop(t) PROVE WaitersWait'
    BY <1>8, <1>2 DEF Drop, At
<1>9. ASSUME NEW t \in Threads, Enter(t) PROVE WaitersWait'
    BY <1>9, <1>2 DEF Enter, At
<1>10. ASSUME NEW t \in Threads, Check(t) PROVE WaitersWait'
    BY <1>10, <1>2 DEF Check, At
<1>11. ASSUME NEW t \in Threads, ReadForGap(t) PROVE WaitersWait'
    BY <1>11, <1>2 DEF ReadForGap, At
<1>12. ASSUME NEW t \in Threads, DeclareGap(t) PROVE WaitersWait'
    BY <1>12, <1>2 DEF DeclareGap, At
<1>13. ASSUME NEW t \in Threads, ReadForClose(t) PROVE WaitersWait'
    BY <1>13, <1>2 DEF ReadForClose, At
<1>14. ASSUME NEW t \in Threads, MarkClosing(t) PROVE WaitersWait'
    BY <1>14, <1>2 DEF MarkClosing, At
<1>15. ASSUME NEW t \in Threads, DrainObservations(t) PROVE WaitersWait'
    BY <1>15, <1>2 DEF DrainObservations, At
<1>16. ASSUME NEW t \in Threads, FlushForClose(t) PROVE WaitersWait'
    BY <1>16, <1>2 DEF FlushForClose, At
<1>17. ASSUME NEW t \in Threads, SubmitFails(t) PROVE WaitersWait'
    BY <1>17, <1>2 DEF SubmitFails, At
<1>18. ASSUME NEW t \in Threads, CloseTimesOut(t) PROVE WaitersWait'
    BY <1>18, <1>2 DEF CloseTimesOut, At
<1>19. ASSUME NEW t \in Threads, Submit(t) PROVE WaitersWait'
    <2>1. CASE Answers(t, "ok", catalog.watermark) /\ UNCHANGED queue
        BY <1>19, <1>2, <2>1 DEF Submit, At
    <2>2. ASSUME Goes(t, "wait"),
                 queue' = Append(queue, [source |-> "client",
                              events |-> req[t].items \ Pending, waiter |-> t])
          PROVE  WaitersWait'
        <3>1. req[t].items \subseteq Seqs BY ReqTyped
        <3>2. [source |-> "client", events |-> req[t].items \ Pending,
               waiter |-> t] \in Batches
            BY <3>1 DEF Batches
        <3>3. ~At(t, "wait") /\ UNCHANGED written
            BY <1>19 DEF Submit, At
        <3> QED BY <2>2, <3>2, <3>3, WithWaiter
    <2> QED BY <1>19, <2>1, <2>2 DEF Submit
<1>20. ASSUME NEW t \in Threads, WaitTimesOut(t) PROVE WaitersWait'
    BY <1>20, WaiterTimesOut
<1>21. CASE Reindex
    <2>1. CASE torn BY <1>21, <2>1, HeadCompleted DEF Reindex, Working
    <2>2. CASE ~torn BY <1>21, <2>2, <1>1 DEF Reindex
    <2> QED BY <2>1, <2>2
<1>22. CASE Write
    BY <1>22, HeadCompleted DEF Write, Ready, Working
<1>23. CASE WriteFails
    BY <1>23, HeadCompleted DEF WriteFails, Ready, Working
<1>24. CASE WriteRefused
    BY <1>24, HeadCompleted DEF WriteRefused, Ready, Working
<1>25. CASE WriteServerEvents
    <2>1. written' /\ UNCHANGED <<req, queue>> BY <1>25 DEF WriteServerEvents
    <2> QED BY <2>1 DEF WaitersWait, Waits, At
<1>26. CASE Release
    BY <1>26, HeadReleased
<1>27. CASE FinalizerReads
    BY <1>27, <1>1, EndedWait DEF FinalizerReads
<1>28. CASE FinalizerFlushes
    BY <1>28, <1>1, EndedWait DEF FinalizerFlushes, GivesUp
<1>29. CASE FinalizerFlushesAgain
    BY <1>29, <1>1, EndedWait DEF FinalizerFlushesAgain, GivesUp
<1>30. CASE FinalizerFails
    BY <1>30, <1>1, EndedWait DEF FinalizerFails, GivesUp
<1>31. CASE FinalizerRemembers
    BY <1>31, EndedWait DEF FinalizerRemembers
<1>32. CASE FinalizerWrites
    <2>1. CASE UNCHANGED queue BY <1>32, <1>1, <2>1 DEF FinalizerWrites
    <2>2. CASE queue' = Append(queue, [source |-> "terminal", events |-> {},
                                       waiter |-> None])
        BY <1>32, <2>2, ServerBatches, WithoutWaiter DEF FinalizerWrites
    <2> QED BY <1>32, <2>1, <2>2 DEF FinalizerWrites
<1>33. CASE PersistObservation
    BY <1>33, ServerBatches, WithoutWaiter DEF PersistObservation
<1>34. CASE Crash
    BY <1>34 DEF Crash, WaitersWait
<1>35. CASE Record \/ StartClosing \/ LoseAnswer \/ Capture \/ Observe
    BY <1>35, <1>1 DEF Record, StartClosing, LoseAnswer, Capture, Observe
<1>36. CASE \/ FinalizerMarks \/ FinalizerDrains \/ FinalizerGates
            \/ FinalizerSeals \/ FinalizerPublishes
    BY <1>36, <1>1
    DEF FinalizerMarks, FinalizerDrains, FinalizerGates, FinalizerSeals,
        FinalizerPublishes
<1>37. CASE UNCHANGED vars BY <1>37, <1>1 DEF vars
<1> QED
    BY <1>3, <1>4, <1>5, <1>6, <1>7, <1>8, <1>9, <1>10, <1>11, <1>12,
       <1>13, <1>14, <1>15, <1>16, <1>17, <1>18, <1>19, <1>20, <1>21,
       <1>22, <1>23, <1>24, <1>25, <1>26, <1>27, <1>28, <1>29, <1>30,
       <1>31, <1>32, <1>33, <1>34, <1>35, <1>36, <1>37
    DEF Next, Browser, Answering, Writing, Finalizing, Observing

-----------------------------------------------------------------------------
(* Nothing is lost. *)

Kept(c) == c.spool \cup c.ledger

LEMMA EvidenceStays ==
    ASSUME NothingIsLost, Grows,
           client'.produced = client.produced, Kept(client) \subseteq Kept(client')
    PROVE  NothingIsLost'
<1>1. QED BY DEF NothingIsLost, Grows, Kept

\* What an honest answer lets the browser forget is durable.
LEMMA HeardForgets ==
    ASSUME TypeOK, Durable, NEW r \in Requests, Honest(r, catalog)
    PROVE  /\ Heard(client, r).produced = client.produced
           /\ Kept(client) \subseteq
                  Kept(Heard(client, r)) \cup Journaled \cup catalog.gaps
<1>1. client \in Clients BY DEF TypeOK
<1>2. client.spool \subseteq Seqs /\ client.ledger \subseteq Seqs
    BY <1>1 DEF Clients
<1>3. ASSUME NEW s \in Seqs, ~(s > r.ack), r.ack <= catalog.watermark
      PROVE  s \in Journaled \cup catalog.gaps
    <2>1. r.ack \in Nat /\ catalog.watermark \in Nat
        BY DiagnosticsConstants DEF TypeOK, Catalogs, Requests
    <2>2. s \in 1..catalog.watermark BY <1>3, <2>1 DEF Seqs
    <2> QED
        BY <2>2
        DEF Durable, WatermarkIsCovered, IndexedIsJournaled, Covered
<1>4. ASSUME NEW c \in Clients
      PROVE  /\ Forgets(c, r.ack).produced = c.produced
             /\ Forgets(c, r.ack).spool = {s \in c.spool : s > r.ack}
             /\ Forgets(c, r.ack).ledger = c.ledger
    BY DEF Forgets, Clients
<1>5. CASE r.answer = "ok" /\ r.kind = "gap"
    <2> DEFINE c == [client EXCEPT !.spool = @ \ r.items, !.ledger = @ \ r.items]
    <2>1. /\ c \in Clients /\ c.produced = client.produced
          /\ c.spool = client.spool \ r.items
          /\ c.ledger = client.ledger \ r.items
        BY <1>1, <1>2 DEF Clients
    <2>2. Heard(client, r) = Forgets(c, r.ack) BY <1>5 DEF Heard
    <2> HIDE DEF c
    <2>3. r.items \subseteq catalog.gaps /\ r.ack <= catalog.watermark
        BY <1>5 DEF Honest
    <2>4. /\ Heard(client, r).produced = client.produced
          /\ Heard(client, r).spool = {s \in client.spool \ r.items : s > r.ack}
          /\ Heard(client, r).ledger = client.ledger \ r.items
        BY <1>4, <2>1, <2>2
    <2> QED BY <1>2, <1>3, <2>3, <2>4 DEF Kept
<1>6. ASSUME \/ Heard(client, r) = Forgets(client, r.ack)
             \/ Heard(client, r) = [Forgets(client, r.ack) EXCEPT !.mode = "sealed"],
             r.ack <= catalog.watermark
      PROVE  /\ Heard(client, r).produced = client.produced
             /\ Kept(client) \subseteq
                    Kept(Heard(client, r)) \cup Journaled \cup catalog.gaps
    <2>1. /\ Heard(client, r).produced = client.produced
          /\ Heard(client, r).spool = {s \in client.spool : s > r.ack}
          /\ Heard(client, r).ledger = client.ledger
        <3>1. CASE Heard(client, r) = Forgets(client, r.ack)
            BY <1>1, <1>4, <3>1
        <3>2. CASE Heard(client, r) = [Forgets(client, r.ack) EXCEPT !.mode = "sealed"]
            <4> DEFINE f == Forgets(client, r.ack)
            <4>1. /\ f.produced = client.produced /\ f.ledger = client.ledger
                  /\ f.spool = {s \in client.spool : s > r.ack}
                BY <1>1, <1>4
            <4>2. DOMAIN f = DOMAIN client BY DEF Forgets
            <4>3. /\ "produced" \in DOMAIN f /\ "ledger" \in DOMAIN f
                  /\ "spool" \in DOMAIN f
                BY <1>1, <4>2 DEF Clients
            <4> HIDE DEF f
            <4> QED BY <3>2, <4>1, <4>3 DEF f
        <3> QED BY <1>6, <3>1, <3>2
    <2> QED BY <1>2, <1>3, <1>6, <2>1 DEF Kept
<1>7. CASE r.answer = "ok" /\ r.kind # "gap"
    BY <1>6, <1>7 DEF Heard, Honest
<1>8. CASE r.answer \in {"retry", "closing"}
    BY <1>6, <1>8 DEF Heard, Honest
<1>9. CASE r.answer = "sealed" /\ r.kind = "close"
    BY <1>6, <1>9 DEF Heard, Honest
<1>10. CASE r.answer = "invalid"
    <2>1. Heard(client, r) =
              [client EXCEPT !.ledger = @ \cup {r.ack}, !.fetch = None]
        BY <1>10 DEF Heard
    <2> QED BY <1>1, <2>1 DEF Kept, Clients
<1>11. CASE r.answer = "conflict"
    <2>1. Heard(client, r) =
              [client EXCEPT !.mode = "rejected", !.fetch = None]
        BY <1>11 DEF Heard
    <2> QED BY <1>1, <2>1 DEF Kept, Clients
<1>12. CASE r.answer = "none" \/ (r.answer = "sealed" /\ r.kind # "close")
    <2>1. \E m : Heard(client, r) = [client EXCEPT !.mode = m, !.fetch = None]
        BY <1>12 DEF Heard
    <2> QED BY <1>1, <2>1 DEF Kept, Clients
<1> QED
    BY <1>5, <1>7, <1>8, <1>9, <1>10, <1>11, <1>12 DEF Requests

LEMMA NothingGetsLost ==
    ASSUME TypeOK, Durable, AnswersAreHonest, NothingIsLost, Grows, [Next]_vars
    PROVE  NothingIsLost'
<1>1. client \in Clients BY DEF TypeOK
<1>2. ASSUME UNCHANGED client PROVE NothingIsLost'
    BY <1>2, EvidenceStays
<1>3. ASSUME NEW x, client' = [client EXCEPT !.fetch = x] PROVE NothingIsLost'
    BY <1>1, <1>3, EvidenceStays DEF Clients, Kept
<1>4. CASE Record
    <2>1. client.produced \in Nat
        BY <1>1, DiagnosticsConstants DEF Clients
    <2>2. /\ client'.produced = client.produced + 1
          /\ Kept(client') = Kept(client) \cup {client.produced + 1}
        BY <1>1, <1>4 DEF Record, Clients, Kept
    <2>3. 1..(client.produced + 1) \subseteq 1..client.produced \cup {client.produced + 1}
        BY <2>1
    <2> QED BY <2>2, <2>3 DEF NothingIsLost, Grows, Kept
<1>5. CASE StartClosing
    BY <1>1, <1>5, EvidenceStays DEF StartClosing, Clients, Kept
<1>6. CASE LoseAnswer
    BY <1>3, <1>6 DEF LoseAnswer
<1>7. ASSUME NEW t \in Threads, Hear(t) PROVE NothingIsLost'
    <2>1. req[t] \in Requests /\ Honest(req[t], catalog)
        BY <1>7, ReqTyped DEF AnswersAreHonest
    <2>2. client' = Heard(client, req[t]) BY <1>7 DEF Hear
    <2> QED BY <2>1, <2>2, HeardForgets DEF NothingIsLost, Grows, Kept
<1>8. ASSUME NEW t \in Threads, SendGap(t) \/ SendBatch(t) \/ SendClose(t)
      PROVE  NothingIsLost'
    BY <1>3, <1>8 DEF SendGap, SendBatch, SendClose, Fetches
<1>9. CASE Crash
    BY <1>3, <1>9 DEF Crash
<1>10. ASSUME NEW t \in Threads,
              Answering(t) \/ SubmitFails(t) \/ WaitTimesOut(t) \/ CloseTimesOut(t)
                  \/ Beacon(t)
       PROVE  NothingIsLost'
    BY <1>2, <1>10
    DEF Answering, Enter, Check, Submit, ReadForGap, DeclareGap, ReadForClose,
        MarkClosing, DrainObservations, FlushForClose, Drop, SubmitFails,
        WaitTimesOut, CloseTimesOut, Beacon
<1>11. CASE Writing \/ WriteFails \/ WriteRefused
    BY <1>2, <1>11
    DEF Writing, Reindex, Write, WriteServerEvents, Release, WriteFails,
        WriteRefused
<1>12. CASE Finalizing \/ FinalizerFails
    BY <1>2, <1>12
    DEF Finalizing, FinalizerReads, FinalizerMarks, FinalizerDrains,
        FinalizerFlushes, FinalizerGates, FinalizerFlushesAgain,
        FinalizerWrites, FinalizerSeals, FinalizerPublishes,
        FinalizerRemembers, FinalizerFails
<1>13. CASE Capture \/ Observing
    BY <1>2, <1>13 DEF Capture, Observing, Observe, PersistObservation
<1>14. CASE UNCHANGED vars
    BY <1>2, <1>14 DEF vars
<1> QED
    BY <1>4, <1>5, <1>6, <1>7, <1>8, <1>9, <1>10, <1>11, <1>12, <1>13, <1>14
    DEF Next, Browser

-----------------------------------------------------------------------------
LEMMA NextIInv ==
    ASSUME IInv, [Next]_vars
    PROVE  IInv'
<1>1. TypeOK'
    <2>1. \A t \in Threads : req[t].answer = "invalid" => req[t].ack \in Seqs
        BY DEF IInv, AnswersAreHonest, Honest
    <2> QED BY <2>1, NextTypeOK DEF IInv
<1>2. Grows /\ Durable' BY CatalogAndJournalGrow DEF IInv
<1>3. AnswersAreHonest' BY <1>1, <1>2, AnswersStayHonest DEF IInv, Before
<1>4. WaitersWait' BY WaitersStay DEF IInv
<1>5. NothingIsLost' BY <1>2, NothingGetsLost DEF IInv
<1> QED BY <1>1, <1>2, <1>3, <1>4, <1>5 DEF IInv

LEMMA Invariance == Spec => []IInv
<1>1. QED BY InitIInv, NextIInv, PTL DEF Spec

\* Every variable stays within its type, for any number of threads and events.
THEOREM TypeCorrect == Spec => []TypeOK
<1>1. IInv => TypeOK BY DEF IInv
<1>2. QED BY <1>1, Invariance, PTL

\* What the browser of a session recorded is durable or still with the browser,
\* whatever write, commit, answer or process failed: _record_or_gap of the
\* client, acknowledge and the writer's commit before its receipt.
THEOREM EvidenceIsKept == Spec => []NothingIsLost
<1>1. IInv => NothingIsLost BY DEF IInv
<1>2. QED BY <1>1, Invariance, PTL

-----------------------------------------------------------------------------
(* An event has one fate: once it is invalid, given up or a declared gap it  *)
(* is never written, neither by the batches that are pending nor by the      *)
(* requests that wait to submit theirs.  The journal takes it once, because  *)
(* whatever it holds is in the catalog before the next batch is looked at.   *)

Sent(c) == 1..c.produced
Dead(c, k) == c.bad \cup c.ledger \cup k.gaps

Fate(r, c, k) ==
    /\ r.items \subseteq Sent(c)
    /\ r.pc = "declare" => r.kind = "gap"
    /\ r.kind = "gap" => r.items \subseteq Dead(c, k)
    /\ r.kind = "batch" => r.items \cap Dead(c, k) \subseteq c.bad
    /\ r.pc = "submit" => r.items \cap c.bad = {}
    /\ r.answer = "invalid" => r.ack \in c.bad
    /\ r.kind = "close" => c.mode # "open"

RequestsFated == \A t \in Threads : Fate(req[t], client, catalog)

OneFate ==
    /\ client.spool \cup Dead(client, catalog) \subseteq Sent(client)
    /\ client.spool \cap Dead(client, catalog) \subseteq client.bad
    /\ Pending \cup Journaled \subseteq Sent(client) \ Dead(client, catalog)
    /\ RequestsFated

NothingUnindexed == ~unindexed => Journaled \subseteq catalog.indexed

Once == (\A s \in Seqs : journal[s] <= 1) /\ NothingUnindexed

LEMMA InitOneFate == Init => OneFate /\ Once
<1> SUFFICES ASSUME Init PROVE OneFate /\ Once
    OBVIOUS
<1> USE DEF Init
<1>1. \A t \in Threads : Fate(req[t], client, catalog)
    BY DEF Fate, Idle, Sent, Dead
<1>2. Pending = {} /\ Journaled = {}
    BY DEF Pending, Journaled, Unsealed
<1>3. OneFate BY <1>1, <1>2 DEF OneFate, RequestsFated, Sent, Dead
<1>4. Once BY <1>2 DEF Once, NothingUnindexed, Unsealed
<1> QED BY <1>3, <1>4

-----------------------------------------------------------------------------
(* What a step may do to the journal, the queue and the catalog. *)

Submitted == UNION {req[t].items : t \in {u \in Threads : At(u, "submit")}}

JournalMoves == \/ journal' = journal
                \/ Ready /\ journal' = Appended(Fresh)

QueueMoves == Pending' \subseteq Pending \cup Submitted

CatalogMoves ==
    /\ catalog.indexed \subseteq catalog'.indexed
    /\ \/ catalog'.gaps = catalog.gaps
       \/ \E t \in Threads :
              /\ At(t, "declare") /\ req[t].items \cap catalog.indexed = {}
              /\ catalog'.gaps = catalog.gaps \cup req[t].items
    /\ \/ catalog'.final = catalog.final
       \/ /\ \E t \in Threads : req[t].kind = "close"
          /\ catalog'.final = client.produced /\ client' = client

LEMMA JournalStep == [Next]_vars => JournalMoves
<1> SUFFICES ASSUME [Next]_vars PROVE JournalMoves
    OBVIOUS
<1> USE DEF JournalMoves
<1>1. CASE Browser
    BY <1>1 DEF Browser, Record, StartClosing, LoseAnswer, SendGap, SendBatch,
       SendClose, Beacon, Hear, Arrives, disk
<1>2. ASSUME NEW t \in Threads,
             Answering(t) \/ SubmitFails(t) \/ WaitTimesOut(t) \/ CloseTimesOut(t)
      PROVE  JournalMoves
    BY <1>2
    DEF Answering, Enter, Check, Submit, ReadForGap, DeclareGap, ReadForClose,
        MarkClosing, DrainObservations, FlushForClose, Drop, SubmitFails,
        WaitTimesOut, CloseTimesOut, disk
<1>3. CASE Writing \/ WriteFails \/ WriteRefused
    BY <1>3
    DEF Writing, Reindex, Write, WriteServerEvents, Release, WriteFails,
        WriteRefused, disk
<1>4. CASE Finalizing \/ FinalizerFails
    BY <1>4
    DEF Finalizing, FinalizerReads, FinalizerMarks, FinalizerDrains,
        FinalizerFlushes, FinalizerGates, FinalizerFlushesAgain,
        FinalizerWrites, FinalizerSeals, FinalizerPublishes,
        FinalizerRemembers, FinalizerFails, disk
<1>5. CASE Capture \/ Observing
    BY <1>5 DEF Capture, Observing, Observe, PersistObservation, disk
<1>6. CASE Crash BY <1>6 DEF Crash
<1>7. CASE UNCHANGED vars BY <1>7 DEF vars, disk
<1> QED BY <1>1, <1>2, <1>3, <1>4, <1>5, <1>6, <1>7 DEF Next

LEMMA PendingGains ==
    ASSUME TypeOK, NEW b \in Batches, queue' = Append(queue, b)
    PROVE  Pending' = Pending \cup b.events
<1>1. /\ DOMAIN queue' = DOMAIN queue \cup {Len(queue) + 1}
      /\ \A i \in DOMAIN queue : queue'[i] = queue[i]
      /\ queue'[Len(queue) + 1] = b
    BY DEF TypeOK
<1> QED BY <1>1 DEF Pending

LEMMA HeadIsPending ==
    ASSUME TypeOK, queue # <<>>
    PROVE  /\ Head(queue) = queue[1] /\ 1 \in DOMAIN queue
           /\ Head(queue).events \subseteq Pending
<1>1. Head(queue) = queue[1] /\ 1 \in DOMAIN queue BY DEF TypeOK
<1> QED BY <1>1 DEF Pending

LEMMA QueueStep == TypeOK /\ [Next]_vars => QueueMoves
<1> SUFFICES ASSUME TypeOK, [Next]_vars PROVE QueueMoves
    OBVIOUS
<1>1. ASSUME UNCHANGED queue PROVE QueueMoves
    BY <1>1 DEF QueueMoves, Pending
<1>2. CASE Browser
    BY <1>1, <1>2 DEF Browser, Record, StartClosing, LoseAnswer, SendGap,
       SendBatch, SendClose, Beacon, Hear, Arrives
<1>3. ASSUME NEW t \in Threads, Submit(t) PROVE QueueMoves
    <2> DEFINE b == [source |-> "client", events |-> req[t].items \ Pending,
                     waiter |-> t]
    <2>1. CASE UNCHANGED queue BY <1>1, <2>1
    <2>2. CASE queue' = Append(queue, b)
        <3>1. b \in Batches /\ b.events \subseteq req[t].items
            BY ReqTyped DEF Batches
        <3>2. req[t].items \subseteq Submitted
            BY <1>3 DEF Submit, Submitted
        <3> HIDE DEF b
        <3> QED BY <2>2, <3>1, <3>2, PendingGains DEF QueueMoves
    <2> QED BY <1>3, <2>1, <2>2 DEF Submit
<1>4. ASSUME NEW t \in Threads, WaitTimesOut(t) PROVE QueueMoves
    <2>1. /\ DOMAIN queue' = DOMAIN queue
          /\ \A i \in DOMAIN queue :
                 queue'[i] = IF queue[i].waiter = t
                             THEN [queue[i] EXCEPT !.waiter = None] ELSE queue[i]
        BY <1>4 DEF WaitTimesOut
    <2>2. \A i \in DOMAIN queue : queue[i] \in Batches BY DEF TypeOK
    <2>3. \A i \in DOMAIN queue : queue'[i].events = queue[i].events
        BY <2>1, <2>2 DEF Batches
    <2> QED BY <2>1, <2>3 DEF QueueMoves, Pending
<1>5. ASSUME NEW t \in Threads,
             \/ Enter(t) \/ Check(t) \/ ReadForGap(t) \/ DeclareGap(t)
             \/ ReadForClose(t) \/ MarkClosing(t) \/ DrainObservations(t)
             \/ FlushForClose(t) \/ Drop(t) \/ SubmitFails(t) \/ CloseTimesOut(t)
      PROVE  QueueMoves
    BY <1>1, <1>5
    DEF Enter, Check, ReadForGap, DeclareGap, ReadForClose, MarkClosing,
        DrainObservations, FlushForClose, Drop, SubmitFails, CloseTimesOut
<1>6. CASE \/ Reindex \/ Write \/ WriteServerEvents \/ WriteFails \/ WriteRefused
    BY <1>1, <1>6
    DEF Reindex, Write, WriteServerEvents, WriteFails, WriteRefused
<1>7. CASE Release
    <2>1. \A i \in DOMAIN queue' :
              i + 1 \in DOMAIN queue /\ queue'[i] = queue[i + 1]
        BY <1>7 DEF TypeOK, Release
    <2> QED BY <2>1 DEF QueueMoves, Pending
<1>8. CASE FinalizerWrites
    <2>1. CASE UNCHANGED queue BY <1>1, <2>1
    <2>2. CASE queue' = Append(queue, [source |-> "terminal", events |-> {},
                                       waiter |-> None])
        BY <2>2, ServerBatches, PendingGains DEF QueueMoves
    <2> QED BY <1>8, <2>1, <2>2 DEF FinalizerWrites
<1>9. CASE PersistObservation
    BY <1>9, ServerBatches, PendingGains DEF QueueMoves, PersistObservation
<1>10. CASE \/ FinalizerReads \/ FinalizerMarks \/ FinalizerDrains
            \/ FinalizerFlushes \/ FinalizerGates \/ FinalizerFlushesAgain
            \/ FinalizerSeals \/ FinalizerPublishes \/ FinalizerRemembers
            \/ FinalizerFails \/ Capture \/ Observe
    BY <1>1, <1>10
    DEF FinalizerReads, FinalizerMarks, FinalizerDrains,
        FinalizerFlushes, FinalizerGates, FinalizerFlushesAgain,
        FinalizerSeals, FinalizerPublishes, FinalizerRemembers, FinalizerFails,
        Capture, Observe
<1>11. CASE Crash
    <2>1. Pending' = {} BY <1>11 DEF Crash, Pending
    <2> QED BY <2>1 DEF QueueMoves
<1>12. CASE UNCHANGED vars BY <1>1, <1>12 DEF vars
<1> QED
    BY <1>2, <1>3, <1>4, <1>5, <1>6, <1>7, <1>8, <1>9, <1>10, <1>11, <1>12
    DEF Next, Answering, Writing, Finalizing, Observing

LEMMA AdvancedKeeps ==
    ASSUME NEW c \in Catalogs, NEW d \in Advanced(c)
    PROVE  /\ d.indexed = c.indexed /\ d.gaps = c.gaps
           /\ d.final = c.final /\ d.state = c.state
<1>1. QED BY DEF Advanced, Catalogs

LEMMA IndexedMore ==
    ASSUME TypeOK, NEW E \in SUBSET Seqs,
           catalog' \in Advanced([catalog EXCEPT !.indexed = @ \cup E])
    PROVE  /\ catalog'.indexed = catalog.indexed \cup E
           /\ catalog'.gaps = catalog.gaps /\ catalog'.final = catalog.final
           /\ catalog'.state = catalog.state
<1> DEFINE c == [catalog EXCEPT !.indexed = @ \cup E]
<1>1. c \in Catalogs BY CatalogTyped
<1>2. /\ c.indexed = catalog.indexed \cup E /\ c.gaps = catalog.gaps
      /\ c.final = catalog.final /\ c.state = catalog.state
    BY DEF TypeOK, Catalogs
<1>3. catalog' \in Advanced(c) OBVIOUS
<1> HIDE DEF c
<1> QED BY <1>1, <1>2, <1>3, AdvancedKeeps

LEMMA GapAdded ==
    ASSUME TypeOK, NEW G \in SUBSET Seqs,
           catalog' \in Advanced([catalog EXCEPT !.gaps = @ \cup G])
    PROVE  /\ catalog'.indexed = catalog.indexed
           /\ catalog'.gaps = catalog.gaps \cup G
           /\ catalog'.final = catalog.final /\ catalog'.state = catalog.state
<1> DEFINE c == [catalog EXCEPT !.gaps = @ \cup G]
<1>1. c \in Catalogs BY CatalogTyped
<1>2. /\ c.indexed = catalog.indexed /\ c.gaps = catalog.gaps \cup G
      /\ c.final = catalog.final /\ c.state = catalog.state
    BY DEF TypeOK, Catalogs
<1>3. catalog' \in Advanced(c) OBVIOUS
<1> HIDE DEF c
<1> QED BY <1>1, <1>2, <1>3, AdvancedKeeps

\* What the next process makes of the catalog of an unsealed session.
LEMMA Recovered ==
    ASSUME TypeOK, NEW E \in SUBSET Seqs,
           catalog' \in Advanced([catalog EXCEPT !.state = "interrupted",
                                                 !.indexed = @ \cup E])
    PROVE  /\ catalog'.indexed = catalog.indexed \cup E
           /\ catalog'.gaps = catalog.gaps /\ catalog'.final = catalog.final
           /\ catalog'.state = "interrupted"
<1> DEFINE c == [catalog EXCEPT !.state = "interrupted", !.indexed = @ \cup E]
<1>1. c \in Catalogs BY DEF TypeOK, Catalogs
<1>2. /\ c.indexed = catalog.indexed \cup E /\ c.gaps = catalog.gaps
      /\ c.final = catalog.final /\ c.state = "interrupted"
    BY DEF TypeOK, Catalogs
<1>3. catalog' \in Advanced(c) OBVIOUS
<1> HIDE DEF c
<1> QED BY <1>1, <1>2, <1>3, AdvancedKeeps

LEMMA StateWritten ==
    ASSUME TypeOK, NEW st \in {"closing", "sealed"},
           catalog' = [catalog EXCEPT !.state = st]
    PROVE  /\ catalog'.indexed = catalog.indexed /\ catalog'.gaps = catalog.gaps
           /\ catalog'.final = catalog.final /\ catalog'.state = st
           /\ catalog'.watermark = catalog.watermark
<1>1. QED BY DEF TypeOK, Catalogs

LEMMA FinalWritten ==
    ASSUME TypeOK, NEW n, catalog' = [catalog EXCEPT !.final = n]
    PROVE  /\ catalog'.indexed = catalog.indexed /\ catalog'.gaps = catalog.gaps
           /\ catalog'.final = n /\ catalog'.state = catalog.state
           /\ catalog'.watermark = catalog.watermark
<1>1. QED BY DEF TypeOK, Catalogs

LEMMA CatalogStep == TypeOK /\ [Next]_vars => CatalogMoves
<1> SUFFICES ASSUME TypeOK, [Next]_vars PROVE CatalogMoves
    OBVIOUS
<1>1. ASSUME UNCHANGED catalog PROVE CatalogMoves
    BY <1>1 DEF CatalogMoves
<1>2. CASE Browser
    BY <1>1, <1>2 DEF Browser, Record, StartClosing, LoseAnswer, SendGap,
       SendBatch, SendClose, Beacon, Hear, Arrives
<1>3. CASE Reindex
    <2>1. CASE torn BY <1>1, <1>3, <2>1 DEF Reindex
    <2>2. CASE ~torn
        BY <1>3, <2>2, IndexedMore DEF Reindex, Journaled, CatalogMoves
    <2> QED BY <2>1, <2>2
<1>4. ASSUME Ready, catalog' \in Advanced([catalog EXCEPT !.indexed = @ \cup Fresh])
      PROVE  CatalogMoves
    BY <1>4, BatchTyped, IndexedMore DEF Ready, Working, CatalogMoves
<1>5. CASE Write BY <1>1, <1>4, <1>5 DEF Write
<1>6. CASE WriteFails BY <1>1, <1>4, <1>6 DEF WriteFails
<1>7. ASSUME NEW st \in {"closing", "sealed"},
             catalog' = [catalog EXCEPT !.state = st]
      PROVE  CatalogMoves
    BY <1>7, StateWritten DEF CatalogMoves
<1>8. ASSUME NEW t \in Threads, DeclareGap(t) PROVE CatalogMoves
    <2>1. CASE UNCHANGED catalog BY <1>1, <2>1
    <2>2. CASE /\ req[t].items \cap catalog.indexed = {}
               /\ catalog' \in Advanced([catalog EXCEPT !.gaps = @ \cup req[t].items])
        BY <1>8, <2>2, ReqTyped, GapAdded DEF DeclareGap, CatalogMoves
    <2> QED BY <1>8, <2>1, <2>2 DEF DeclareGap
<1>9. ASSUME NEW t \in Threads, ReadForClose(t) PROVE CatalogMoves
    BY <1>1, <1>9, FinalWritten DEF ReadForClose, CatalogMoves
<1>10. ASSUME NEW t \in Threads, MarkClosing(t) PROVE CatalogMoves
    BY <1>7, <1>10 DEF MarkClosing
<1>11. CASE FinalizerMarks BY <1>7, <1>11 DEF FinalizerMarks
<1>12. CASE FinalizerPublishes BY <1>7, <1>12 DEF FinalizerPublishes
<1>13. CASE Crash
    <2>1. {s \in Seqs : journal'[s] > 0} \subseteq Seqs OBVIOUS
    <2>2. CASE UNCHANGED catalog BY <1>1, <2>2
    <2>3. CASE catalog' \in Advanced([catalog EXCEPT !.state = "interrupted",
                               !.indexed = @ \cup {s \in Seqs : journal'[s] > 0}])
        BY <2>1, <2>3, Recovered DEF CatalogMoves
    <2> QED BY <1>13, <2>2, <2>3 DEF Crash
<1>14. ASSUME NEW t \in Threads,
              \/ Enter(t) \/ Check(t) \/ Submit(t) \/ ReadForGap(t)
              \/ DrainObservations(t) \/ FlushForClose(t) \/ Drop(t)
              \/ SubmitFails(t) \/ WaitTimesOut(t) \/ CloseTimesOut(t)
       PROVE  CatalogMoves
    BY <1>1, <1>14
    DEF Enter, Check, Submit, ReadForGap, DrainObservations, FlushForClose,
        Drop, SubmitFails, WaitTimesOut, CloseTimesOut
<1>15. CASE WriteRefused \/ WriteServerEvents \/ Release
    BY <1>1, <1>15 DEF WriteRefused, WriteServerEvents, Release
<1>16. CASE \/ FinalizerReads \/ FinalizerDrains \/ FinalizerFlushes
            \/ FinalizerGates \/ FinalizerFlushesAgain \/ FinalizerWrites
            \/ FinalizerSeals \/ FinalizerRemembers \/ FinalizerFails
            \/ Capture \/ Observe \/ PersistObservation
    BY <1>1, <1>16
    DEF FinalizerReads, FinalizerDrains, FinalizerFlushes, FinalizerGates,
        FinalizerFlushesAgain, FinalizerWrites, FinalizerSeals,
        FinalizerRemembers, FinalizerFails, Capture, Observe, PersistObservation
<1>17. CASE UNCHANGED vars BY <1>1, <1>17 DEF vars
<1> QED
    BY <1>2, <1>3, <1>5, <1>6, <1>8, <1>9, <1>10, <1>11, <1>12, <1>13, <1>14,
       <1>15, <1>16, <1>17
    DEF Next, Answering, Writing, Finalizing, Observing

-----------------------------------------------------------------------------
(* A step keeps every fate, but for the event it records. *)

Unrecorded ==
    /\ client'.produced = client.produced /\ client'.bad = client.bad
    /\ client'.spool \subseteq client.spool
    /\ Dead(client', catalog') = Dead(client, catalog)
    /\ client.mode # "open" => client'.mode # "open"

LEMMA FateLasts ==
    ASSUME Unrecorded, NEW r, Fate(r, client, catalog)
    PROVE  Fate(r, client', catalog')
<1>1. QED BY DEF Unrecorded, Fate, Sent

LEMMA HeardUnrecorded ==
    ASSUME TypeOK, RequestsFated, NEW t \in Threads, Honest(req[t], catalog),
           client' = Heard(client, req[t]), catalog' = catalog
    PROVE  Unrecorded
<1> DEFINE r == req[t]
<1>1. client \in Clients BY DEF TypeOK
<1>2. Fate(r, client, catalog) BY DEF RequestsFated
<1> HIDE DEF r
<1>3. ASSUME NEW c \in Clients
      PROVE  /\ Forgets(c, r.ack).produced = c.produced
             /\ Forgets(c, r.ack).spool \subseteq c.spool
             /\ Forgets(c, r.ack).ledger = c.ledger
             /\ Forgets(c, r.ack).bad = c.bad
             /\ Forgets(c, r.ack).mode = c.mode
    BY DEF Forgets, Clients
<1>4. CASE r.answer = "ok" /\ r.kind = "gap"
    <2> DEFINE c == [client EXCEPT !.spool = @ \ r.items, !.ledger = @ \ r.items]
    <2>1. /\ c \in Clients /\ c.produced = client.produced
          /\ c.spool \subseteq client.spool /\ c.bad = client.bad
          /\ c.ledger = client.ledger \ r.items /\ c.mode = client.mode
        BY <1>1 DEF Clients
    <2>2. client' = Forgets(c, r.ack) BY <1>4 DEF Heard, r
    <2> HIDE DEF c
    <2>3. r.items \subseteq catalog.gaps BY <1>4 DEF Honest, r
    <2>4. /\ client'.produced = client.produced /\ client'.bad = client.bad
          /\ client'.spool \subseteq client.spool
          /\ client'.ledger = client.ledger \ r.items
          /\ client'.mode = client.mode
        BY <1>3, <2>1, <2>2
    <2> QED BY <2>3, <2>4 DEF Unrecorded, Dead
<1>5. CASE r.answer = "invalid"
    <2>1. client' = [client EXCEPT !.ledger = @ \cup {r.ack}, !.fetch = None]
        BY <1>5 DEF Heard, r
    <2>2. r.ack \in client.bad BY <1>2, <1>5 DEF Fate
    <2> QED BY <1>1, <2>1, <2>2 DEF Unrecorded, Dead, Clients
<1>6. CASE client' = Forgets(client, r.ack)
    BY <1>1, <1>3, <1>6 DEF Unrecorded, Dead
<1>7. ASSUME NEW m, m # "open", client' = [client EXCEPT !.mode = m, !.fetch = None]
      PROVE  Unrecorded
    BY <1>1, <1>7 DEF Unrecorded, Dead, Clients
<1>8. CASE client' = [Forgets(client, r.ack) EXCEPT !.mode = "sealed"]
    <2> DEFINE f == Forgets(client, r.ack)
    <2>1. /\ f.produced = client.produced /\ f.ledger = client.ledger
          /\ f.spool \subseteq client.spool /\ f.bad = client.bad
        BY <1>1, <1>3
    <2>2. f = [client EXCEPT !.spool = {s \in @ : s > r.ack}, !.fetch = None]
        BY DEF Forgets
    <2>3. DOMAIN f = {"mode", "produced", "spool", "bad", "ledger", "fetch"}
        BY <1>1, <2>2 DEF Clients
    <2> HIDE DEF f
    <2>4. client' = [f EXCEPT !.mode = "sealed"] BY <1>8 DEF f
    <2>5. /\ client'.produced = client.produced /\ client'.ledger = client.ledger
          /\ client'.spool \subseteq client.spool /\ client'.bad = client.bad
          /\ client'.mode = "sealed"
        BY <2>1, <2>3, <2>4
    <2> QED BY <2>5 DEF Unrecorded, Dead
<1>9. \/ r.answer = "none" \/ r.answer = "ok" \/ r.answer = "retry"
      \/ r.answer = "invalid" \/ r.answer = "conflict" \/ r.answer = "closing"
      \/ r.answer = "sealed"
    BY ReqTyped DEF Requests, r
<1>10. CASE r.answer = "conflict"
    BY <1>7, <1>10 DEF Heard, r
<1>11. CASE \/ r.answer = "ok" /\ r.kind # "gap"
            \/ r.answer = "retry" \/ r.answer = "closing"
    BY <1>6, <1>11 DEF Heard, r
<1>12. CASE r.answer = "sealed" /\ r.kind = "close"
    BY <1>8, <1>12 DEF Heard, r
<1>13. CASE r.answer = "none" \/ (r.answer = "sealed" /\ r.kind # "close")
    <2>1. \E m \in {"sealed", "rejected"} :
              client' = [client EXCEPT !.mode = m, !.fetch = None]
        BY <1>13 DEF Heard, r
    <2> QED BY <1>7, <2>1
<1> QED BY ONLY <1>4, <1>5, <1>9, <1>10, <1>11, <1>12, <1>13

LEMMA OthersUnrecorded ==
    ASSUME IInv, OneFate, [Next]_vars, ~Record
    PROVE  Unrecorded
<1>1. client \in Clients BY DEF IInv, TypeOK
<1>2. CatalogMoves BY CatalogStep DEF IInv
<1>3. Dead(client, catalog') = Dead(client, catalog)
    BY <1>2 DEF CatalogMoves, Dead, At, OneFate, RequestsFated, Fate
<1>4. ASSUME \/ client' = client
             \/ \E x : client' = [client EXCEPT !.fetch = x]
             \/ client' = [client EXCEPT !.mode = "closing"]
      PROVE  Unrecorded
    <2>1. /\ client'.produced = client.produced /\ client'.bad = client.bad
          /\ client'.spool = client.spool /\ client'.ledger = client.ledger
          /\ client.mode # "open" => client'.mode # "open"
        BY <1>1, <1>4 DEF Clients
    <2> QED BY <1>3, <2>1 DEF Unrecorded, Dead
<1>5. CASE StartClosing BY <1>4, <1>5 DEF StartClosing
<1>6. CASE LoseAnswer BY <1>4, <1>6 DEF LoseAnswer
<1>7. ASSUME NEW t \in Threads,
             SendGap(t) \/ SendBatch(t) \/ SendClose(t) \/ Beacon(t)
      PROVE  Unrecorded
    BY <1>4, <1>7 DEF SendGap, SendBatch, SendClose, Beacon, Fetches
<1>8. ASSUME NEW t \in Threads, Hear(t) PROVE Unrecorded
    BY <1>8, HeardUnrecorded DEF Hear, IInv, AnswersAreHonest, OneFate
<1>9. ASSUME NEW t \in Threads,
             Answering(t) \/ SubmitFails(t) \/ WaitTimesOut(t) \/ CloseTimesOut(t)
      PROVE  Unrecorded
    BY <1>4, <1>9
    DEF Answering, Enter, Check, Submit, ReadForGap, DeclareGap, ReadForClose,
        MarkClosing, DrainObservations, FlushForClose, Drop, SubmitFails,
        WaitTimesOut, CloseTimesOut
<1>10. CASE Writing \/ WriteFails \/ WriteRefused
    BY <1>4, <1>10
    DEF Writing, Reindex, Write, WriteServerEvents, Release, WriteFails,
        WriteRefused
<1>11. CASE Finalizing \/ FinalizerFails
    BY <1>4, <1>11
    DEF Finalizing, FinalizerReads, FinalizerMarks, FinalizerDrains,
        FinalizerFlushes, FinalizerGates, FinalizerFlushesAgain,
        FinalizerWrites, FinalizerSeals, FinalizerPublishes,
        FinalizerRemembers, FinalizerFails
<1>12. CASE Capture \/ Observing
    BY <1>4, <1>12 DEF Capture, Observing, Observe, PersistObservation
<1>13. CASE Crash BY <1>4, <1>13 DEF Crash
<1>14. CASE UNCHANGED vars BY <1>4, <1>14 DEF vars
<1> QED
    BY <1>5, <1>6, <1>7, <1>8, <1>9, <1>10, <1>11, <1>12, <1>13, <1>14
    DEF Next, Browser

-----------------------------------------------------------------------------
(* The fates of the requests. *)

Onward == TypeOK /\ TypeOK' /\ RequestsFated /\ Unrecorded

LEMMA OthersKeepTheirFate ==
    ASSUME Onward,
           \A u \in Threads : req'[u] = req[u] \/ Fate(req'[u], client', catalog')
    PROVE  RequestsFated'
<1>1. \A u \in Threads : Fate(req[u], client', catalog')
    BY FateLasts DEF Onward, RequestsFated
<1> QED BY <1>1 DEF RequestsFated

LEMMA AnsweredFated ==
    ASSUME NEW r, NEW c, NEW k, Fate(r, c, k), NEW a, a # "invalid", NEW n
    PROVE  Fate(Answered(r, a, n), c, k)
<1>1. QED BY DEF Fate, Answered

LEMMA AnswersFated ==
    ASSUME Onward, NEW t \in Threads, NEW a, a # "invalid", NEW n, Answers(t, a, n)
    PROVE  RequestsFated'
<1>1. Fate(Answered(req[t], a, n), client', catalog')
    BY FateLasts, AnsweredFated DEF Onward, RequestsFated
<1>2. \A u \in Threads :
          req'[u] = IF u = t THEN Answered(req[t], a, n) ELSE req[u]
    BY DEF Answers, Onward, TypeOK
<1> QED BY <1>1, <1>2, OthersKeepTheirFate

LEMMA GoesFated ==
    ASSUME Onward, NEW t \in Threads, NEW p, Goes(t, p),
           p = "declare" => req[t].kind = "gap",
           p = "submit" => req[t].items \cap client.bad = {}
    PROVE  RequestsFated'
<1> DEFINE r == [req[t] EXCEPT !.pc = p]
<1>1. req[t] \in Requests /\ Fate(req[t], client', catalog')
    BY FateLasts DEF Onward, RequestsFated, TypeOK
<1>2. /\ r.pc = p /\ r.kind = req[t].kind /\ r.items = req[t].items
      /\ r.answer = req[t].answer /\ r.ack = req[t].ack
    BY <1>1 DEF Requests
<1>3. \A u \in Threads : req'[u] = IF u = t THEN r ELSE req[u]
    BY DEF Goes, Onward, TypeOK
<1> HIDE DEF r
<1>4. client'.bad = client.bad BY DEF Onward, Unrecorded
<1>5. Fate(r, client', catalog') BY <1>1, <1>2, <1>4 DEF Fate
<1> QED BY <1>3, <1>5, OthersKeepTheirFate

LEMMA IdleFated ==
    ASSUME NEW c, NEW k
    PROVE  Fate(Idle, c, k)
<1>1. QED BY DEF Fate, Idle

LEMMA ArrivesFated ==
    ASSUME Onward, NEW t \in Threads, NEW kind, NEW step, NEW items,
           Arrives(t, kind, step, items), items \subseteq Sent(client),
           step \notin {"declare", "submit"},
           kind = "gap" => items \subseteq Dead(client, catalog),
           kind = "batch" => items \cap Dead(client, catalog) \subseteq client.bad,
           kind = "close" => client.mode # "open"
    PROVE  RequestsFated'
<1> DEFINE r == [kind |-> kind, pc |-> step, items |-> items, answer |-> "none",
                 ack |-> 0]
<1>1. Fate(r, client, catalog) BY DEF Fate
<1>2. \A u \in Threads : req'[u] = IF u = t THEN r ELSE req[u]
    BY DEF Arrives, Onward, TypeOK
<1> HIDE DEF r
<1> QED BY <1>1, <1>2, FateLasts, OthersKeepTheirFate DEF Onward

LEMMA EndsFated ==
    ASSUME Onward, NEW a, a # "invalid", Ends(a)
    PROVE  RequestsFated'
<1>1. \A u \in Threads : Fate(Answered(req[u], a, catalog.watermark), client', catalog')
    BY FateLasts, AnsweredFated DEF Onward, RequestsFated
<1>2. \A u \in Threads :
          req'[u] = IF req[u].pc = "join"
                    THEN Answered(req[u], a, catalog.watermark) ELSE req[u]
    BY DEF Ends
<1> QED BY <1>1, <1>2, OthersKeepTheirFate

LEMMA CompletesFated ==
    ASSUME Onward, queue # <<>>, NEW a, a # "invalid", NEW n, Completes(a, n)
    PROVE  RequestsFated'
<1> DEFINE t == Head(queue).waiter
<1>1. t \in Threads \cup {None} BY HeadTyped DEF Batches, Onward
<1>2. CASE t = None BY <1>2, OthersKeepTheirFate DEF Completes
<1>3. CASE t # None
    <2>1. Fate(Answered(req[t], a, n), client', catalog')
        BY <1>1, <1>3, FateLasts, AnsweredFated DEF Onward, RequestsFated
    <2>2. \A u \in Threads :
              req'[u] = IF u = t THEN Answered(req[t], a, n) ELSE req[u]
        BY <1>1, <1>3 DEF Completes, Onward, TypeOK
    <2> QED BY <2>1, <2>2, OthersKeepTheirFate
<1> QED BY <1>2, <1>3

LEMMA RequestsKeepTheirFate ==
    ASSUME IInv, IInv', OneFate, [Next]_vars, ~Record
    PROVE  RequestsFated'
<1>1. Onward BY OthersUnrecorded DEF IInv, OneFate, Onward
<1>2. ASSUME UNCHANGED req PROVE RequestsFated'
    BY <1>1, <1>2, OthersKeepTheirFate
<1>3. ASSUME NEW t \in Threads, req' = [req EXCEPT ![t] = Idle]
      PROVE  RequestsFated'
    <2>1. \A u \in Threads : req'[u] = IF u = t THEN Idle ELSE req[u]
        BY <1>1, <1>3 DEF Onward, TypeOK
    <2> QED BY <1>1, <2>1, IdleFated, OthersKeepTheirFate
<1>4. ASSUME NEW t \in Threads, SendGap(t) PROVE RequestsFated'
    <2>1. PICK s \in client.ledger : Arrives(t, "gap", "read", {s})
        BY <1>4 DEF SendGap
    <2>2. {s} \subseteq Dead(client, catalog) /\ {s} \subseteq Sent(client)
        BY <2>1 DEF OneFate, Dead
    <2> QED BY <1>1, <2>1, <2>2, ArrivesFated
<1>5. ASSUME NEW t \in Threads, NEW items \in SUBSET client.spool,
             Arrives(t, "batch", "enter", items)
      PROVE  RequestsFated'
    <2>1. /\ items \subseteq Sent(client)
          /\ items \cap Dead(client, catalog) \subseteq client.bad
        BY <1>5 DEF OneFate
    <2> QED BY <1>1, <1>5, <2>1, ArrivesFated
<1>6. ASSUME NEW t \in Threads, SendBatch(t) PROVE RequestsFated'
    <2>1. PICK last \in client.spool :
              Arrives(t, "batch", "enter", {s \in client.spool : s <= last})
        BY <1>6 DEF SendBatch
    <2> QED BY <1>5, <2>1
<1>7. ASSUME NEW t \in Threads, Beacon(t) PROVE RequestsFated'
    BY <1>5, <1>7 DEF Beacon
<1>8. ASSUME NEW t \in Threads, SendClose(t) PROVE RequestsFated'
    <2>1. Arrives(t, "close", "read", {}) /\ client.mode # "open"
        BY <1>8 DEF SendClose
    <2> QED BY <1>1, <2>1, ArrivesFated
<1>9. ASSUME NEW t \in Threads, Hear(t) \/ Drop(t) PROVE RequestsFated'
    BY <1>3, <1>9 DEF Hear, Drop
<1>10. ASSUME NEW t \in Threads, Check(t) PROVE RequestsFated'
    <2> DEFINE bad == req[t].items \cap client.bad
    <2>1. CASE bad # {}
        <3>1. PICK s \in bad : Answers(t, "invalid", s)
            BY <1>10, <2>1 DEF Check
        <3>2. Fate(req[t], client, catalog) BY DEF OneFate, RequestsFated
        <3>3. Fate(Answered(req[t], "invalid", s), client, catalog)
            BY <3>1, <3>2 DEF Fate, Answered
        <3>4. \A u \in Threads :
                  req'[u] = IF u = t THEN Answered(req[t], "invalid", s) ELSE req[u]
            BY <1>1, <3>1 DEF Answers, Onward, TypeOK
        <3> QED BY <1>1, <3>3, <3>4, FateLasts, OthersKeepTheirFate DEF Onward
    <2>2. CASE bad = {} /\ catalog.state = "sealed"
        BY <1>1, <1>10, <2>2, AnswersFated DEF Check
    <2>3. CASE bad = {} /\ catalog.state # "sealed"
        BY <1>1, <1>10, <2>3, GoesFated DEF Check
    <2> QED BY <2>1, <2>2, <2>3
<1>11. ASSUME NEW t \in Threads, Enter(t) PROVE RequestsFated'
    BY <1>1, <1>11, AnswersFated, GoesFated DEF Enter
<1>12. ASSUME NEW t \in Threads, Submit(t) PROVE RequestsFated'
    BY <1>1, <1>12, AnswersFated, GoesFated DEF Submit
<1>13. ASSUME NEW t \in Threads, ReadForGap(t) PROVE RequestsFated'
    BY <1>1, <1>13, AnswersFated, GoesFated DEF ReadForGap
<1>14. ASSUME NEW t \in Threads, DeclareGap(t) PROVE RequestsFated'
    BY <1>1, <1>14, AnswersFated DEF DeclareGap
<1>15. ASSUME NEW t \in Threads, ReadForClose(t) PROVE RequestsFated'
    BY <1>1, <1>15, AnswersFated, GoesFated DEF ReadForClose
<1>16. ASSUME NEW t \in Threads, MarkClosing(t) \/ DrainObservations(t)
       PROVE  RequestsFated'
    BY <1>1, <1>16, GoesFated DEF MarkClosing, DrainObservations
<1>17. ASSUME NEW t \in Threads, FlushForClose(t) PROVE RequestsFated'
    BY <1>1, <1>17, AnswersFated, GoesFated DEF FlushForClose
<1>18. ASSUME NEW t \in Threads,
              SubmitFails(t) \/ WaitTimesOut(t) \/ CloseTimesOut(t)
       PROVE  RequestsFated'
    BY <1>1, <1>18, AnswersFated DEF SubmitFails, WaitTimesOut, CloseTimesOut
<1>19. CASE Reindex
    BY <1>1, <1>2, <1>19, CompletesFated DEF Reindex, Working
<1>20. CASE Write
    BY <1>1, <1>20, CompletesFated DEF Write, Ready, Working
<1>21. CASE WriteFails
    BY <1>1, <1>21, CompletesFated DEF WriteFails, Ready, Working
<1>22. CASE WriteRefused
    BY <1>1, <1>22, CompletesFated DEF WriteRefused, Ready, Working
<1>23. CASE FinalizerReads
    BY <1>1, <1>2, <1>23, EndsFated DEF FinalizerReads
<1>24. CASE FinalizerFlushes
    BY <1>1, <1>2, <1>24, EndsFated DEF FinalizerFlushes, GivesUp
<1>25. CASE FinalizerFlushesAgain
    BY <1>1, <1>2, <1>25, EndsFated DEF FinalizerFlushesAgain, GivesUp
<1>26. CASE FinalizerRemembers
    BY <1>1, <1>26, EndsFated DEF FinalizerRemembers
<1>27. CASE FinalizerFails
    BY <1>1, <1>27, EndsFated DEF FinalizerFails, GivesUp
<1>28. CASE Crash
    BY <1>1, <1>28, IdleFated, OthersKeepTheirFate DEF Crash
<1>29. CASE StartClosing \/ LoseAnswer \/ WriteServerEvents \/ Release
    BY <1>2, <1>29 DEF StartClosing, LoseAnswer, WriteServerEvents, Release
<1>30. CASE \/ FinalizerMarks \/ FinalizerDrains \/ FinalizerGates
            \/ FinalizerWrites \/ FinalizerSeals \/ FinalizerPublishes
    BY <1>2, <1>30
    DEF FinalizerMarks, FinalizerDrains, FinalizerGates, FinalizerWrites,
        FinalizerSeals, FinalizerPublishes
<1>31. CASE Capture \/ Observe \/ PersistObservation
    BY <1>2, <1>31 DEF Capture, Observe, PersistObservation
<1>32. CASE UNCHANGED vars BY <1>2, <1>32 DEF vars
<1> QED
    BY <1>4, <1>6, <1>7, <1>8, <1>9, <1>10, <1>11, <1>12, <1>13, <1>14,
       <1>15, <1>16, <1>17, <1>18, <1>19, <1>20, <1>21, <1>22, <1>23, <1>24,
       <1>25, <1>26, <1>27, <1>28, <1>29, <1>30, <1>31, <1>32
    DEF Next, Browser, Answering, Writing, Finalizing, Observing

\* What is about to be queued is good: Check has looked at it.
LEMMA SubmittedIsGood ==
    ASSUME IInv, OneFate
    PROVE  Submitted \subseteq Sent(client) \ Dead(client, catalog)
<1> SUFFICES ASSUME NEW t \in Threads, At(t, "submit")
             PROVE  req[t].items \subseteq Sent(client) \ Dead(client, catalog)
    BY DEF Submitted
<1>1. req[t].kind = "batch"
    BY DEF At, IInv, AnswersAreHonest, Honest, Batching
<1>2. Fate(req[t], client, catalog) BY DEF OneFate, RequestsFated
<1> QED BY <1>1, <1>2 DEF At, Fate

LEMMA FreshIsPending ==
    ASSUME TypeOK, Ready
    PROVE  Fresh \subseteq Pending /\ Fresh \subseteq Seqs
<1>1. QED BY BatchTyped, HeadIsPending DEF Ready, Working, Fresh

LEMMA JournalGains ==
    ASSUME TypeOK, JournalMoves
    PROVE  Journaled' \subseteq Journaled \cup Pending
<1>1. CASE journal' = journal BY <1>1 DEF Journaled
<1>2. CASE Ready /\ journal' = Appended(Fresh)
    BY <1>2, FreshIsPending, AppendedJournals
<1> QED BY <1>1, <1>2 DEF JournalMoves

LEMMA RecordedHasOneFate ==
    ASSUME IInv, OneFate, Record
    PROVE  OneFate'
<1> DEFINE s == client.produced + 1
<1>1. client \in Clients /\ client.produced \in Nat
    BY DiagnosticsConstants DEF IInv, TypeOK, Clients
<1>2. /\ client'.produced = s
      /\ client'.mode = client.mode /\ client.mode = "open"
      /\ client.bad \subseteq client'.bad
      /\ client'.bad \subseteq client.bad \cup {s}
      /\ client'.ledger \subseteq client.ledger \cup {s}
      /\ client.ledger \subseteq client'.ledger
      /\ client'.spool \subseteq client.spool \cup {s}
      /\ s \in client'.spool => s \notin client'.ledger \/ s \in client.ledger
      /\ UNCHANGED <<req, queue, journal, catalog>>
    <2>1. UNCHANGED <<req, queue, journal, catalog>> BY DEF Record, disk
    <2>2. client.mode = "open" BY DEF Record
    <2> DEFINE Effect ==
            /\ client'.produced = s /\ client'.mode = client.mode
            /\ client.bad \subseteq client'.bad
            /\ client'.bad \subseteq client.bad \cup {s}
            /\ client'.ledger \subseteq client.ledger \cup {s}
            /\ client.ledger \subseteq client'.ledger
            /\ client'.spool \subseteq client.spool \cup {s}
            /\ s \in client'.spool => s \notin client'.ledger \/ s \in client.ledger
    <2>3. s \notin Sent(client) BY <1>1 DEF Sent
    <2>4. s \notin client.spool /\ s \notin client.ledger
        BY <2>3 DEF OneFate, Dead
    <2>5. ASSUME client' = [client EXCEPT !.produced = s, !.spool = @ \cup {s}]
          PROVE  Effect
        BY <1>1, <2>4, <2>5 DEF Clients
    <2>6. ASSUME client' = [client EXCEPT !.produced = s, !.spool = @ \cup {s},
                                          !.bad = @ \cup {s}]
          PROVE  Effect
        BY <1>1, <2>4, <2>6 DEF Clients
    <2>7. ASSUME client' = [client EXCEPT !.produced = s, !.ledger = @ \cup {s}]
          PROVE  Effect
        BY <1>1, <2>4, <2>7 DEF Clients
    <2>8. Effect BY <2>5, <2>6, <2>7 DEF Record
    <2> QED BY <2>1, <2>2, <2>8
<1>3. s \notin Sent(client) /\ Sent(client') = Sent(client) \cup {s}
    BY <1>1, <1>2 DEF Sent
<1> HIDE DEF s
<1>4. /\ Dead(client, catalog) \subseteq Dead(client', catalog')
      /\ Dead(client', catalog') \subseteq Dead(client, catalog) \cup {s}
    BY <1>2 DEF Dead
<1>5. Pending' = Pending /\ Journaled' = Journaled
    BY <1>2 DEF Pending, Journaled
<1>6. client'.spool \cup Dead(client', catalog') \subseteq Sent(client')
    BY <1>2, <1>3, <1>4 DEF OneFate
<1>7. client'.spool \cap Dead(client', catalog') \subseteq client'.bad
    <2>1. s \notin Dead(client, catalog) /\ s \notin client.spool
        BY <1>3 DEF OneFate
    <2>2. s \in client'.spool => s \notin client'.ledger \cup catalog'.gaps
        BY <1>2, <2>1 DEF Dead
    <2> QED BY <1>2, <1>4, <2>1, <2>2 DEF OneFate, Dead
<1>8. Pending' \cup Journaled' \subseteq Sent(client') \ Dead(client', catalog')
    BY <1>3, <1>4, <1>5 DEF OneFate
<1>9. ASSUME NEW t \in Threads PROVE Fate(req'[t], client', catalog')
    <2>1. Fate(req[t], client, catalog) BY DEF OneFate, RequestsFated
    <2>2. s \notin req[t].items BY <1>3, <2>1 DEF Fate
    <2> QED BY <1>2, <1>3, <1>4, <2>1, <2>2 DEF Fate
<1> QED BY <1>6, <1>7, <1>8, <1>9 DEF OneFate, RequestsFated

LEMMA OneFateStays ==
    ASSUME IInv, IInv', OneFate, [Next]_vars
    PROVE  OneFate'
<1>1. CASE Record BY <1>1, RecordedHasOneFate
<1>2. CASE ~Record
    <2>1. Unrecorded /\ RequestsFated'
        BY <1>2, OthersUnrecorded, RequestsKeepTheirFate
    <2>2. JournalMoves /\ QueueMoves BY JournalStep, QueueStep DEF IInv
    <2>3. Journaled' \subseteq Journaled \cup Pending
        BY <2>2, JournalGains DEF IInv
    <2>4. Pending' \subseteq Pending \cup Submitted BY <2>2 DEF QueueMoves
    <2>5. Sent(client') = Sent(client) BY <2>1 DEF Unrecorded, Sent
    <2>6. Submitted \subseteq Sent(client) \ Dead(client, catalog)
        BY SubmittedIsGood
    <2> QED BY <2>1, <2>3, <2>4, <2>5, <2>6 DEF OneFate, Unrecorded
<1> QED BY <1>1, <1>2

-----------------------------------------------------------------------------
(* Sealing.  From the moment the finalizer has closed the gate, every event  *)
(* up to the final one is accounted for, so neither journal nor gaps change; *)
(* and no event of the server is under way once the seal files are written.  *)

FinalIsLast ==
    catalog.final # 0 =>
        client.mode # "open" /\ catalog.final = client.produced

Flushing == {"flush", "gate", "last", "terminal", "writing", "seal", "publish",
             "remember"}
Gated == Flushing \ {"flush"}
Concluded == {"seal", "publish", "remember"}
Written == {"publish", "remember"}

IsSealed == catalog.state = "sealed"

NoServerBatch == \A i \in DOMAIN queue : queue[i].source = "client"

SealStands ==
    /\ seal = Evidence
    /\ observation # "accepted"
    /\ NoServerBatch

ObserverIsQuiet ==
    /\ observation # "accepted"
    /\ observation = "early" => ~barrier

Sealing ==
    /\ FinalIsLast
    /\ finalizer \in Gated \/ IsSealed => BarriersComplete
    /\ finalizer \in Concluded \/ IsSealed => "terminal" \in server
    /\ finalizer \in Written \/ IsSealed => SealStands
    /\ finalizer \notin {"none", "read"} => barrier \/ remembered
    /\ remembered \/ finalizer \in Flushing \cup {"drain"} =>
           catalog.state \in {"closing", "sealed"}
    /\ finalizer \in Flushing => ObserverIsQuiet

LEMMA InitSealing == Init => Sealing
<1> SUFFICES ASSUME Init PROVE Sealing
    OBVIOUS
<1> QED
    BY DEF Init, Sealing, FinalIsLast, Gated, Flushing, Concluded, Written,
       IsSealed

LEMMA FinalStays ==
    ASSUME IInv, OneFate, Sealing, [Next]_vars
    PROVE  /\ FinalIsLast'
           /\ BarriersComplete => BarriersComplete'
<1>1. CatalogMoves BY CatalogStep DEF IInv
<1>2. /\ client \in Clients
      /\ catalog.watermark \in Nat /\ catalog'.watermark \in Nat
      /\ catalog.final \in Nat
      /\ catalog.watermark <= catalog'.watermark
    <2>1. IInv' /\ Grows BY NextIInv, CatalogAndJournalGrow DEF IInv
    <2> QED
        BY <2>1, DiagnosticsConstants DEF IInv, TypeOK, Catalogs, Grows
<1>3. client.mode # "open" =>
          client'.mode # "open" /\ client'.produced = client.produced
    <2>1. client.mode # "open" => ~Record BY DEF Record
    <2> QED BY <2>1, OthersUnrecorded DEF Unrecorded
<1>4. catalog'.final # catalog.final =>
          /\ client.mode # "open" /\ catalog'.final = client.produced
    <2>1. \A t \in Threads : req[t].kind = "close" => client.mode # "open"
        BY DEF OneFate, RequestsFated, Fate
    <2> QED BY <1>1, <2>1 DEF CatalogMoves
<1>5. FinalIsLast' BY <1>3, <1>4 DEF FinalIsLast, Sealing
<1>6. ASSUME BarriersComplete PROVE BarriersComplete'
    <2>1. catalog'.final = catalog.final
        BY <1>4, <1>6 DEF BarriersComplete, FinalIsLast, Sealing
    <2>2. Covered(catalog) \subseteq Covered(catalog')
        BY <1>1 DEF CatalogMoves, Covered
    <2> QED BY <1>2, <1>6, <2>1, <2>2 DEF BarriersComplete
<1> QED BY <1>5, <1>6

\* A complete session gets neither events nor gaps any more.
LEMMA CompleteStays ==
    ASSUME IInv, OneFate, Sealing, BarriersComplete, [Next]_vars
    PROVE  UNCHANGED journal /\ catalog'.gaps = catalog.gaps
<1>1. Sent(client) \subseteq Covered(catalog)
    BY DEF BarriersComplete, Sealing, FinalIsLast, Sent
<1>2. Pending \subseteq catalog.indexed
    BY <1>1 DEF OneFate, Dead, Covered
<1>3. UNCHANGED journal
    <2>1. JournalMoves BY JournalStep
    <2>2. CASE Ready /\ journal' = Appended(Fresh)
        <3>1. Fresh = {}
            BY <1>2, <2>2, FreshIsPending DEF IInv, Fresh
        <3>2. Appended({}) = [s \in Seqs |-> journal[s]] BY DEF Appended
        <3> QED BY <2>2, <3>1, <3>2 DEF IInv, TypeOK
    <2> QED BY <2>1, <2>2 DEF JournalMoves
<1>4. catalog'.gaps = catalog.gaps
    <2>1. CatalogMoves BY CatalogStep DEF IInv
    <2>2. ASSUME NEW t \in Threads, req[t].items \cap catalog.indexed = {},
                 catalog'.gaps = catalog.gaps \cup req[t].items
          PROVE  catalog'.gaps = catalog.gaps
        <3>1. req[t].items \subseteq Sent(client)
            BY DEF OneFate, RequestsFated, Fate
        <3> QED BY <1>1, <2>2, <3>1 DEF Covered
    <2> QED BY <2>1, <2>2 DEF CatalogMoves
<1> QED BY <1>3, <1>4

\* A complete catalog holds whatever the journal holds.
LEMMA CompleteIsIndexed ==
    ASSUME OneFate, Sealing, BarriersComplete
    PROVE  Journaled \subseteq catalog.indexed
<1>1. Sent(client) \subseteq Covered(catalog)
    BY DEF BarriersComplete, Sealing, FinalIsLast, Sent
<1> QED BY <1>1 DEF OneFate, Dead, Covered

-----------------------------------------------------------------------------
(* The journal takes an event once. *)

LEMMA AppendedOnce ==
    ASSUME IInv, Once, JournalMoves
    PROVE  \A s \in Seqs : journal'[s] <= 1
<1>1. CASE journal' = journal BY <1>1 DEF Once
<1>2. CASE Ready /\ journal' = Appended(Fresh)
    <2>1. \A s \in Fresh : s \notin Journaled
        BY <1>2 DEF Once, NothingUnindexed, Ready, Fresh
    <2>2. \A s \in Seqs : journal[s] \in Nat BY DEF IInv, TypeOK
    <2>3. \A s \in Seqs : s \in Fresh => journal[s] = 0
        BY <2>1, <2>2 DEF Journaled
    <2>4. \A s \in Seqs :
              journal'[s] = IF s \in Fresh THEN journal[s] + 1 ELSE journal[s]
        BY <1>2 DEF Appended
    <2> QED BY <2>3, <2>4 DEF Once
<1> QED BY <1>1, <1>2 DEF JournalMoves

LEMMA IndexedStays ==
    ASSUME IInv, OneFate, Sealing, Once, [Next]_vars
    PROVE  NothingUnindexed'
<1> USE DEF NothingUnindexed
<1>2. ASSUME UNCHANGED <<journal, unindexed>> PROVE NothingUnindexed'
    <2>1. catalog.indexed \subseteq catalog'.indexed
        BY CatalogStep DEF IInv, CatalogMoves
    <2> QED BY <1>2, <2>1 DEF Once, Journaled
<1>3. CASE Reindex
    <2>1. CASE torn BY <1>2, <1>3, <2>1 DEF Reindex, disk
    <2>2. CASE ~torn
        <3>1. catalog'.indexed = catalog.indexed \cup Journaled
            BY <1>3, <2>2, IndexedMore DEF Reindex, Journaled, IInv
        <3>2. Journaled' = Journaled BY <1>3 DEF Reindex, disk, Journaled
        <3> QED BY <3>1, <3>2
    <2> QED BY <2>1, <2>2
<1>4. CASE Write
    <2>1. CASE Head(queue).events \cap catalog.gaps # {}
        BY <1>2, <1>4, <2>1 DEF Write
    <2>2. CASE Head(queue).events \cap catalog.gaps = {}
        <3>1. Ready /\ ~unindexed /\ journal' = Appended(Fresh)
            BY <1>4, <2>2 DEF Write, Ready
        <3>2. Fresh \subseteq Seqs BY <3>1, FreshIsPending DEF IInv
        <3>3. Journaled' = Journaled \cup Fresh
            BY <3>1, <3>2, AppendedJournals DEF IInv
        <3>4. catalog'.indexed = catalog.indexed \cup Fresh
            BY <1>4, <2>2, <3>2, IndexedMore DEF Write, IInv
        <3> QED BY <3>1, <3>3, <3>4 DEF Once
    <2> QED BY <2>1, <2>2
<1>5. CASE WriteFails BY <1>5 DEF WriteFails
<1>6. CASE Crash
    <2>1. CASE IsSealed
        <3>1. BarriersComplete BY <2>1 DEF Sealing
        <3>2. UNCHANGED <<journal, catalog>>
            BY <1>6, <2>1, <3>1, CompleteStays DEF Crash, IsSealed
        <3> QED BY <3>1, <3>2, CompleteIsIndexed DEF Journaled
    <2>2. CASE ~IsSealed
        <3>1. Journaled' \subseteq Seqs BY DEF Journaled
        <3>2. catalog' \in Advanced([catalog EXCEPT !.state = "interrupted",
                                         !.indexed = @ \cup Journaled'])
            BY <1>6, <2>2 DEF Crash, IsSealed, Journaled
        <3> QED BY <3>1, <3>2, Recovered DEF IInv
    <2> QED BY <2>1, <2>2
<1>7. CASE Browser
    BY <1>2, <1>7 DEF Browser, Record, StartClosing, LoseAnswer, SendGap,
       SendBatch, SendClose, Beacon, Hear, Arrives, disk
<1>8. ASSUME NEW t \in Threads,
             Answering(t) \/ SubmitFails(t) \/ WaitTimesOut(t) \/ CloseTimesOut(t)
      PROVE  NothingUnindexed'
    BY <1>2, <1>8
    DEF Answering, Enter, Check, Submit, ReadForGap, DeclareGap, ReadForClose,
        MarkClosing, DrainObservations, FlushForClose, Drop, SubmitFails,
        WaitTimesOut, CloseTimesOut, disk
<1>9. CASE WriteServerEvents \/ Release \/ WriteRefused
    BY <1>2, <1>9 DEF WriteServerEvents, Release, WriteRefused, disk
<1>10. CASE Finalizing \/ FinalizerFails
    BY <1>2, <1>10
    DEF Finalizing, FinalizerReads, FinalizerMarks, FinalizerDrains,
        FinalizerFlushes, FinalizerGates, FinalizerFlushesAgain,
        FinalizerWrites, FinalizerSeals, FinalizerPublishes,
        FinalizerRemembers, FinalizerFails, disk
<1>11. CASE Capture \/ Observing
    BY <1>2, <1>11 DEF Capture, Observing, Observe, PersistObservation, disk
<1>12. CASE UNCHANGED vars BY <1>2, <1>12 DEF vars, disk
<1> QED
    BY <1>3, <1>4, <1>5, <1>6, <1>7, <1>8, <1>9, <1>10, <1>11, <1>12
    DEF Next, Writing

LEMMA OnceStays ==
    ASSUME IInv, OneFate, Sealing, Once, [Next]_vars
    PROVE  Once'
<1>1. QED BY JournalStep, AppendedOnce, IndexedStays DEF Once

-----------------------------------------------------------------------------
(* The seal stands. *)

Whole == IInv /\ OneFate /\ Once /\ Sealing

\* What the steps of browser, requests and writer leave alone.
Bystanding ==
    /\ finalizer' \in {finalizer, "none"}
    /\ catalog'.state = "sealed" => IsSealed
    /\ catalog'.state \in {catalog.state, "closing"}
    /\ UNCHANGED <<server, seal, remembered, barrier>>
    /\ observation' \in {observation, "none"}
    /\ NoServerBatch => NoServerBatch'

LEMMA EvidenceStands ==
    ASSUME Whole, [Next]_vars, BarriersComplete, UNCHANGED <<server, seal>>,
           seal = Evidence
    PROVE  (seal = Evidence)'
<1>1. UNCHANGED journal /\ catalog'.gaps = catalog.gaps
    BY CompleteStays DEF Whole
<1> QED BY <1>1 DEF Evidence

LEMMA BystandersSeal ==
    ASSUME Whole, [Next]_vars, Bystanding
    PROVE  Sealing'
<1>1. FinalIsLast' /\ (BarriersComplete => BarriersComplete')
    BY FinalStays DEF Whole
<1>2. /\ \A S \in {Flushing, Gated, Concluded, Written, Flushing \cup {"drain"}} :
             finalizer' \in S => finalizer \in S
      /\ finalizer' \notin {"none", "read"} => finalizer \notin {"none", "read"}
    BY DEF Bystanding, Flushing, Gated, Concluded, Written
<1>3. IsSealed' => IsSealed BY DEF Bystanding, IsSealed
<1>4. ASSUME SealStands, finalizer \in Written \/ IsSealed PROVE SealStands'
    <2>1. BarriersComplete
        BY <1>4 DEF Whole, Sealing, Written, Gated, Flushing
    <2> QED BY <1>4, <2>1, EvidenceStands DEF SealStands, Bystanding
<1>5. finalizer' \in Gated \/ IsSealed' => BarriersComplete'
    BY <1>1, <1>2, <1>3 DEF Whole, Sealing
<1>6. finalizer' \in Concluded \/ IsSealed' => "terminal" \in server'
    BY <1>2, <1>3 DEF Whole, Sealing, Bystanding
<1>7. finalizer' \in Written \/ IsSealed' => SealStands'
    BY <1>2, <1>3, <1>4 DEF Whole, Sealing
<1>8. finalizer' \notin {"none", "read"} => barrier' \/ remembered'
    BY <1>2 DEF Whole, Sealing, Bystanding
<1>9. remembered' \/ finalizer' \in Flushing \cup {"drain"} =>
           catalog'.state \in {"closing", "sealed"}
    BY <1>2 DEF Whole, Sealing, Bystanding
<1>10. finalizer' \in Flushing => ObserverIsQuiet'
    BY <1>2 DEF Whole, Sealing, Bystanding, ObserverIsQuiet
<1> QED BY <1>1, <1>5, <1>6, <1>7, <1>8, <1>9, <1>10 DEF Sealing

LEMMA StateStays ==
    ASSUME TypeOK,
           \/ catalog' = catalog
           \/ \E E \in SUBSET Seqs :
                  \/ catalog' \in Advanced([catalog EXCEPT !.indexed = @ \cup E])
                  \/ catalog' \in Advanced([catalog EXCEPT !.gaps = @ \cup E])
           \/ \E n : catalog' = [catalog EXCEPT !.final = n]
    PROVE  catalog'.state = catalog.state
<1>1. QED BY IndexedMore, GapAdded, FinalWritten

LEMMA ServerBatchesGain ==
    ASSUME TypeOK, NEW b \in Batches, queue' = Append(queue, b),
           b.source = "client"
    PROVE  NoServerBatch => NoServerBatch'
<1>1. /\ DOMAIN queue' = DOMAIN queue \cup {Len(queue) + 1}
      /\ \A i \in DOMAIN queue : queue'[i] = queue[i]
      /\ queue'[Len(queue) + 1] = b
    BY DEF TypeOK
<1> QED BY <1>1 DEF NoServerBatch

LEMMA BrowserSeals == Whole /\ Browser => Sealing'
<1> SUFFICES ASSUME Whole, Browser PROVE Sealing'
    OBVIOUS
<1>1. [Next]_vars BY DEF Next
<1>2. UNCHANGED <<queue, catalog, finalizer, server, seal, remembered, barrier,
                  observation>>
    BY DEF Browser, Record, StartClosing, LoseAnswer, SendGap, SendBatch,
       SendClose, Beacon, Hear, Arrives, disk, finalization, observer
<1>3. Bystanding BY <1>2 DEF Bystanding, IsSealed, NoServerBatch
<1> QED BY <1>1, <1>3, BystandersSeal

LEMMA RequestsSeal ==
    ASSUME Whole, NEW t \in Threads,
           Answering(t) \/ SubmitFails(t) \/ WaitTimesOut(t) \/ CloseTimesOut(t)
    PROVE  Sealing'
<1>1. [Next]_vars BY DEF Next
<1>2. TypeOK BY DEF Whole, IInv
<1>3. ASSUME UNCHANGED <<finalizer, server, seal, remembered, barrier,
                         observation>>,
             catalog'.state \in {catalog.state, "closing"},
             NoServerBatch => NoServerBatch'
      PROVE  Sealing'
    <2>1. Bystanding BY <1>3 DEF Bystanding, IsSealed
    <2> QED BY <1>1, <2>1, BystandersSeal
<1>4. CASE Submit(t)
    <2> DEFINE b == [source |-> "client", events |-> req[t].items \ Pending,
                     waiter |-> t]
    <2>1. /\ UNCHANGED <<catalog, finalizer, server, seal, remembered, barrier,
                         observation>>
          /\ queue' = queue \/ queue' = Append(queue, b)
        BY <1>4 DEF Submit, disk, finalization, observer
    <2>2. b \in Batches /\ b.source = "client"
        BY <1>2, ReqTyped DEF Batches
    <2> HIDE DEF b
    <2>3. NoServerBatch => NoServerBatch'
        <3>1. CASE queue' = queue BY <3>1 DEF NoServerBatch
        <3>2. CASE queue' = Append(queue, b)
            BY <1>2, <2>2, <3>2, ServerBatchesGain
        <3> QED BY <2>1, <3>1, <3>2
    <2> QED BY <1>3, <2>1, <2>3
<1>5. CASE WaitTimesOut(t)
    <2>1. /\ DOMAIN queue' = DOMAIN queue
          /\ \A i \in DOMAIN queue :
                 queue'[i] = IF queue[i].waiter = t
                             THEN [queue[i] EXCEPT !.waiter = None] ELSE queue[i]
          /\ UNCHANGED <<catalog, finalizer, server, seal, remembered, barrier,
                         observation>>
        BY <1>5 DEF WaitTimesOut, disk, finalization, observer
    <2>2. \A i \in DOMAIN queue : queue[i] \in Batches BY <1>2 DEF TypeOK
    <2>3. \A i \in DOMAIN queue : queue'[i].source = queue[i].source
        BY <2>1, <2>2 DEF Batches
    <2>4. NoServerBatch => NoServerBatch'
        BY <2>1, <2>3 DEF NoServerBatch
    <2> QED BY <1>3, <2>1, <2>4
<1>6. CASE DeclareGap(t)
    <2>1. UNCHANGED <<queue, finalizer, server, seal, remembered, barrier,
                      observation>>
        BY <1>6 DEF DeclareGap, disk, finalization, observer
    <2>2. req[t].items \subseteq Seqs BY <1>2, ReqTyped
    <2>3. catalog'.state = catalog.state
        BY <1>2, <1>6, <2>2, StateStays DEF DeclareGap
    <2> QED BY <1>3, <2>1, <2>3 DEF NoServerBatch
<1>7. CASE MarkClosing(t)
    <2>1. UNCHANGED <<queue, finalizer, server, seal, remembered, barrier,
                      observation>>
        BY <1>7 DEF MarkClosing, disk, finalization, observer
    <2>2. catalog'.state = "closing" BY <1>2, <1>7, StateWritten DEF MarkClosing
    <2> QED BY <1>3, <2>1, <2>2 DEF NoServerBatch
<1>8. CASE FlushForClose(t)
    <2>1. /\ UNCHANGED <<queue, catalog, server, seal, remembered, barrier,
                         observation>>
          /\ finalizer' = finalizer \/ (finalizer = "none" /\ finalizer' = "read")
        BY <1>8 DEF FlushForClose, disk, observer
    <2>2. CASE finalizer' = finalizer BY <1>3, <2>1, <2>2 DEF NoServerBatch
    <2>3. CASE finalizer = "none" /\ finalizer' = "read"
        <3>1. FinalIsLast' /\ (BarriersComplete => BarriersComplete')
            BY <1>1, FinalStays DEF Whole
        <3>2. IsSealed' <=> IsSealed BY <2>1 DEF IsSealed
        <3>3. IsSealed /\ SealStands => SealStands'
            BY <1>1, <2>1, EvidenceStands
            DEF Whole, Sealing, SealStands, NoServerBatch
        <3> QED
            BY <2>1, <2>3, <3>1, <3>2, <3>3
            DEF Whole, Sealing, Flushing, Gated, Concluded, Written
    <2> QED BY <2>1, <2>2, <2>3
<1>9. CASE ReadForClose(t)
    <2>1. /\ UNCHANGED <<queue, finalizer, server, seal, remembered, observation>>
          /\ barrier' = barrier \/ (~remembered /\ barrier')
        BY <1>2, <1>9 DEF ReadForClose, TypeOK, disk, observer
    <2>2. catalog'.state = catalog.state
        BY <1>2, <1>9, StateStays DEF ReadForClose
    <2>3. CASE barrier' = barrier BY <1>3, <2>1, <2>2, <2>3 DEF NoServerBatch
    <2>4. CASE ~remembered /\ barrier'
        <3>1. FinalIsLast' /\ (BarriersComplete => BarriersComplete')
            BY <1>1, FinalStays DEF Whole
        <3>2. IsSealed' <=> IsSealed BY <2>2 DEF IsSealed
        <3>3. ASSUME SealStands, finalizer \in Written \/ IsSealed
              PROVE  SealStands'
            <4>1. BarriersComplete
                BY <3>3 DEF Whole, Sealing, Written, Gated, Flushing
            <4> QED
                BY <1>1, <2>1, <3>3, <4>1, EvidenceStands
                DEF SealStands, NoServerBatch
        <3>4. finalizer \in Flushing => ObserverIsQuiet'
            BY <2>1, <2>4
            DEF Whole, Sealing, ObserverIsQuiet, Flushing
        <3>5. finalizer' \in Gated \/ IsSealed' => BarriersComplete'
            BY <2>1, <3>1, <3>2 DEF Whole, Sealing
        <3>6. finalizer' \in Concluded \/ IsSealed' => "terminal" \in server'
            BY <2>1, <3>2 DEF Whole, Sealing
        <3>7. finalizer' \in Written \/ IsSealed' => SealStands'
            BY <2>1, <3>2, <3>3 DEF Whole, Sealing
        <3>8. remembered' \/ finalizer' \in Flushing \cup {"drain"} =>
                  catalog'.state \in {"closing", "sealed"}
            BY <2>1, <2>2 DEF Whole, Sealing
        <3> QED
            BY <2>1, <2>4, <3>1, <3>4, <3>5, <3>6, <3>7, <3>8 DEF Sealing
    <2> QED BY <2>1, <2>3, <2>4
<1>10. CASE \/ Enter(t) \/ Check(t) \/ ReadForGap(t) \/ DrainObservations(t)
            \/ Drop(t) \/ SubmitFails(t) \/ CloseTimesOut(t)
    <2>1. UNCHANGED <<queue, catalog, finalizer, server, seal, remembered,
                      barrier, observation>>
        BY <1>10
        DEF Enter, Check, ReadForGap, DrainObservations, Drop, SubmitFails,
            CloseTimesOut, disk, finalization, observer
    <2> QED BY <1>3, <2>1 DEF NoServerBatch
<1> QED BY <1>4, <1>5, <1>6, <1>7, <1>8, <1>9, <1>10 DEF Answering

LEMMA WriterSeals ==
    ASSUME Whole, Writing \/ WriteFails \/ WriteRefused
    PROVE  Sealing'
<1>1. [Next]_vars BY DEF Next
<1>2. TypeOK BY DEF Whole, IInv
<1>3. CASE Reindex \/ Write \/ WriteFails \/ WriteRefused
    <2>1. UNCHANGED <<queue, finalizer, server, seal, remembered, barrier,
                      observation>>
        BY <1>3 DEF Reindex, Write, WriteFails, WriteRefused, disk,
           finalization, observer
    <2>2. catalog'.state = catalog.state
        <3>1. Journaled \subseteq Seqs BY DEF Journaled
        <3>2. CASE Reindex BY <1>2, <3>1, <3>2, StateStays DEF Reindex
        <3>3. CASE Write
            BY <1>2, <3>3, FreshIsPending, StateStays DEF Write
        <3>4. CASE WriteFails
            BY <1>2, <3>4, FreshIsPending, StateStays DEF WriteFails
        <3>5. CASE WriteRefused BY <3>5 DEF WriteRefused
        <3> QED BY <1>3, <3>2, <3>3, <3>4, <3>5
    <2>3. Bystanding BY <2>1, <2>2 DEF Bystanding, IsSealed, NoServerBatch
    <2> QED BY <1>1, <2>3, BystandersSeal
<1>4. CASE Release
    <2>1. UNCHANGED <<catalog, finalizer, server, seal, remembered, barrier,
                      observation>>
        BY <1>4 DEF Release, disk, finalization, observer
    <2>2. \A i \in DOMAIN queue' : i + 1 \in DOMAIN queue /\ queue'[i] = queue[i + 1]
        BY <1>2, <1>4 DEF TypeOK, Release
    <2>3. Bystanding BY <2>1, <2>2 DEF Bystanding, IsSealed, NoServerBatch
    <2> QED BY <1>1, <2>3, BystandersSeal
<1>5. CASE WriteServerEvents
    <2>1. UNCHANGED <<queue, catalog, seal, remembered, barrier, observation>>
        BY <1>5 DEF WriteServerEvents, observer
    <2>2. ~NoServerBatch
        BY <1>2, <1>5, HeadIsPending DEF WriteServerEvents, Working, NoServerBatch
    <2>3. ~IsSealed /\ finalizer \notin Written
        BY <2>2 DEF Whole, Sealing, SealStands
    <2>4. /\ server \subseteq server'
          /\ \/ finalizer' = finalizer
             \/ finalizer = "writing" /\ finalizer' = "seal" /\ "terminal" \in server'
        BY <1>5 DEF WriteServerEvents
    <2>5. FinalIsLast' /\ (BarriersComplete => BarriersComplete')
        BY <1>1, FinalStays DEF Whole
    <2>6. ~IsSealed' /\ finalizer' \notin Written
        BY <2>1, <2>3, <2>4 DEF IsSealed, Written
    <2>7. /\ finalizer' \in Gated => finalizer \in Gated
          /\ finalizer' \in Flushing => finalizer \in Flushing
          /\ finalizer' \in Flushing \cup {"drain"} => finalizer \in Flushing \cup {"drain"}
          /\ finalizer' \notin {"none", "read"} => finalizer \notin {"none", "read"}
          /\ finalizer' \in Concluded => finalizer \in Concluded \/ "terminal" \in server'
        BY <2>4 DEF Gated, Flushing, Concluded
    <2>8. finalizer' \in Flushing => ObserverIsQuiet'
        BY <2>1, <2>7 DEF Whole, Sealing, ObserverIsQuiet
    <2> QED BY <2>1, <2>4, <2>5, <2>6, <2>7, <2>8 DEF Whole, Sealing
<1> QED BY <1>3, <1>4, <1>5 DEF Writing

\* The steps of the finalizer that leave the session's records alone, the next
\* place being one the invariant already allows.
LEMMA FinalizerAdvances ==
    ASSUME Whole, [Next]_vars,
           UNCHANGED <<catalog, server, seal, barrier, remembered, observation>>,
           finalizer' \in Gated => BarriersComplete,
           finalizer' \in Concluded => "terminal" \in server,
           finalizer' \notin Written,
           finalizer' \notin {"none", "read"} => barrier \/ remembered,
           finalizer' \in Flushing \cup {"drain"} =>
               catalog.state \in {"closing", "sealed"},
           finalizer' \in Flushing => ObserverIsQuiet,
           IsSealed /\ NoServerBatch => NoServerBatch'
    PROVE  Sealing'
<1>1. FinalIsLast' /\ (BarriersComplete => BarriersComplete')
    BY FinalStays DEF Whole
<1>2. IsSealed' <=> IsSealed BY DEF IsSealed
<1>3. IsSealed => SealStands'
    <2>1. IsSealed => BarriersComplete /\ SealStands BY DEF Whole, Sealing
    <2> QED BY <2>1, EvidenceStands DEF SealStands
<1>4. finalizer' \in Gated \/ IsSealed' => BarriersComplete'
    BY <1>1, <1>2 DEF Whole, Sealing
<1>5. finalizer' \in Concluded \/ IsSealed' => "terminal" \in server'
    BY <1>2 DEF Whole, Sealing
<1>6. finalizer' \in Written \/ IsSealed' => SealStands'
    BY <1>2, <1>3
<1>7. remembered' \/ finalizer' \in Flushing \cup {"drain"} =>
           catalog'.state \in {"closing", "sealed"}
    BY DEF Whole, Sealing
<1>8. finalizer' \in Flushing => ObserverIsQuiet' BY DEF ObserverIsQuiet
<1> QED BY <1>1, <1>4, <1>5, <1>6, <1>7, <1>8 DEF Sealing

LEMMA FinalizerSealing ==
    ASSUME Whole, Finalizing \/ FinalizerFails
    PROVE  Sealing'
<1> USE DEF Flushing, Gated, Concluded, Written
<1>1. [Next]_vars BY DEF Next
<1>2. TypeOK BY DEF Whole, IInv
<1>3. FinalIsLast' /\ (BarriersComplete => BarriersComplete')
    BY <1>1, FinalStays DEF Whole
<1>4. CASE FinalizerDrains
    <2>1. /\ UNCHANGED <<queue, catalog, server, seal, barrier, remembered,
                         observation>>
          /\ finalizer = "drain" /\ finalizer' = "flush" /\ observation = "none"
        BY <1>4 DEF FinalizerDrains, FinalizerGoes, disk, observer
    <2> QED
        BY <1>1, <2>1, FinalizerAdvances
        DEF Whole, Sealing, ObserverIsQuiet, NoServerBatch
<1>5. CASE FinalizerGates
    <2>1. /\ UNCHANGED <<queue, catalog, server, seal, barrier, remembered,
                         observation>>
          /\ finalizer = "gate" /\ finalizer' = "last"
        BY <1>5 DEF FinalizerGates, FinalizerGoes, disk, observer
    <2> QED BY <1>1, <2>1, FinalizerAdvances DEF Whole, Sealing, NoServerBatch
<1>6. ASSUME GivesUp, UNCHANGED <<queue, catalog, disk, observer>>
      PROVE  Sealing'
    <2>1. Bystanding
        BY <1>6
        DEF GivesUp, Ends, Bystanding, disk, observer, IsSealed, NoServerBatch
    <2> QED BY <1>1, <2>1, BystandersSeal
<1>7. CASE FinalizerFails BY <1>6, <1>7 DEF FinalizerFails
<1>8. CASE FinalizerFlushes
    <2>1. CASE ~BarriersComplete BY <1>6, <1>8, <2>1 DEF FinalizerFlushes
    <2>2. CASE BarriersComplete
        <3>1. /\ UNCHANGED <<queue, catalog, server, seal, barrier, remembered,
                             observation>>
              /\ finalizer = "flush" /\ finalizer' = "gate"
            BY <1>8, <2>2 DEF FinalizerFlushes, disk, observer
        <3> QED
            BY <1>1, <2>2, <3>1, FinalizerAdvances DEF Whole, Sealing, NoServerBatch
    <2> QED BY <2>1, <2>2
<1>9. CASE FinalizerFlushesAgain
    <2>1. CASE ~BarriersComplete BY <1>6, <1>9, <2>1 DEF FinalizerFlushesAgain
    <2>2. CASE BarriersComplete
        <3>1. /\ UNCHANGED <<queue, catalog, server, seal, barrier, remembered,
                             observation>>
              /\ finalizer = "last" /\ finalizer' = "terminal"
            BY <1>9, <2>2 DEF FinalizerFlushesAgain, disk, observer
        <3> QED
            BY <1>1, <2>2, <3>1, FinalizerAdvances DEF Whole, Sealing, NoServerBatch
    <2> QED BY <2>1, <2>2
<1>10. CASE FinalizerWrites
    <2>1. /\ UNCHANGED <<catalog, server, seal, barrier, remembered, observation>>
          /\ finalizer = "terminal"
        BY <1>10 DEF FinalizerWrites, FinalizerGoes, disk, observer
    <2>2. CASE "terminal" \in server
        <3>1. finalizer' = "seal" /\ queue' = queue
            BY <1>10, <2>2 DEF FinalizerWrites, FinalizerGoes
        <3> QED
            BY <1>1, <2>1, <2>2, <3>1, FinalizerAdvances
            DEF Whole, Sealing, NoServerBatch
    <2>3. CASE "terminal" \notin server
        <3>1. finalizer' = "writing"
            BY <1>10, <2>3 DEF FinalizerWrites, FinalizerGoes
        <3>2. ~IsSealed BY <2>3 DEF Whole, Sealing
        <3> QED
            BY <1>1, <2>1, <3>1, <3>2, FinalizerAdvances DEF Whole, Sealing
    <2> QED BY <2>2, <2>3
<1>11. CASE FinalizerReads
    <2>1. UNCHANGED <<queue, catalog, server, seal, observation>>
        BY <1>11 DEF FinalizerReads, disk, observer
    <2>2. IsSealed => SealStands'
        <3>1. IsSealed => BarriersComplete /\ SealStands BY DEF Whole, Sealing
        <3> QED
            BY <1>1, <2>1, <3>1, EvidenceStands DEF SealStands, NoServerBatch
    <2>3. IsSealed' <=> IsSealed BY <2>1 DEF IsSealed
    <2>4. CASE IsSealed
        <3>1. finalizer' = "none" /\ remembered'
            BY <1>11, <2>4 DEF FinalizerReads, IsSealed, Ends
        <3>2. catalog'.state = "sealed" BY <2>1, <2>4 DEF IsSealed
        <3> QED
            BY <1>3, <2>1, <2>2, <2>3, <2>4, <3>1, <3>2 DEF Whole, Sealing
    <2>5. CASE ~IsSealed
        <3>1. /\ finalizer' = IF remembered THEN "drain" ELSE "mark"
              /\ barrier' = (barrier \/ ~remembered) /\ remembered' = remembered
            BY <1>11, <2>5 DEF FinalizerReads, IsSealed
        <3>2. /\ finalizer' \notin Flushing
              /\ barrier' \/ remembered'
              /\ finalizer' = "drain" => remembered
            BY <1>2, <3>1 DEF TypeOK
        <3>3. remembered => catalog'.state \in {"closing", "sealed"}
            BY <2>1 DEF Whole, Sealing
        <3> QED
            BY <1>3, <2>3, <2>5, <3>1, <3>2, <3>3 DEF Sealing
    <2> QED BY <2>4, <2>5
<1>12. CASE FinalizerMarks
    <2>1. /\ UNCHANGED <<queue, server, seal, barrier, remembered, observation>>
          /\ finalizer = "mark" /\ finalizer' = "drain"
        BY <1>12 DEF FinalizerMarks, FinalizerGoes, disk, observer
    <2>2. catalog'.state = "closing"
        BY <1>2, <1>12, StateWritten DEF FinalizerMarks
    <2>3. ~IsSealed' BY <2>2 DEF IsSealed
    <2>4. barrier' \/ remembered' BY <2>1 DEF Whole, Sealing
    <2> QED BY <1>3, <2>1, <2>2, <2>3, <2>4 DEF Sealing
<1>13. CASE FinalizerSeals
    <2>1. /\ UNCHANGED <<queue, journal, catalog, server, barrier, remembered,
                         observation>>
          /\ finalizer = "seal" /\ finalizer' = "publish"
          /\ queue = <<>> /\ seal' = Evidence
        BY <1>13 DEF FinalizerSeals, FinalizerGoes, Flushed, observer
    <2>2. (seal = Evidence)' BY <2>1 DEF Evidence
    <2>3. NoServerBatch' BY <2>1 DEF NoServerBatch
    <2>4. BarriersComplete /\ ObserverIsQuiet /\ "terminal" \in server
        BY <2>1 DEF Whole, Sealing
    <2>5. SealStands'
        BY <2>1, <2>2, <2>3, <2>4 DEF SealStands, ObserverIsQuiet
    <2>6. ObserverIsQuiet' BY <2>1, <2>4 DEF ObserverIsQuiet
    <2>7. catalog'.state \in {"closing", "sealed"} /\ (barrier' \/ remembered')
        BY <2>1 DEF Whole, Sealing
    <2> QED BY <1>3, <2>1, <2>4, <2>5, <2>6, <2>7 DEF Sealing
<1>14. CASE FinalizerPublishes
    <2>1. /\ UNCHANGED <<queue, journal, server, seal, barrier, remembered,
                         observation>>
          /\ finalizer = "publish" /\ finalizer' = "remember"
        BY <1>14 DEF FinalizerPublishes, FinalizerGoes, disk, observer
    <2>2. catalog'.state = "sealed"
        BY <1>2, <1>14, StateWritten DEF FinalizerPublishes
    <2>3. /\ BarriersComplete /\ ObserverIsQuiet /\ "terminal" \in server
          /\ SealStands
        BY <2>1 DEF Whole, Sealing
    <2>4. SealStands'
        BY <1>1, <2>1, <2>3, EvidenceStands DEF SealStands, NoServerBatch
    <2>5. ObserverIsQuiet' BY <2>1, <2>3 DEF ObserverIsQuiet
    <2>6. barrier' \/ remembered' BY <2>1 DEF Whole, Sealing
    <2> QED BY <1>3, <2>1, <2>2, <2>3, <2>4, <2>5, <2>6 DEF Sealing
<1>15. CASE FinalizerRemembers
    <2>1. /\ UNCHANGED <<queue, catalog, server, seal, observation>>
          /\ finalizer = "remember" /\ finalizer' = "none"
        BY <1>15 DEF FinalizerRemembers, Ends, disk, observer
    <2>2. /\ BarriersComplete /\ "terminal" \in server /\ SealStands
          /\ catalog.state \in {"closing", "sealed"}
        BY <2>1 DEF Whole, Sealing
    <2>3. SealStands'
        BY <1>1, <2>1, <2>2, EvidenceStands DEF SealStands, NoServerBatch
    <2> QED BY <1>3, <2>1, <2>2, <2>3 DEF Sealing
<1> QED
    BY <1>4, <1>5, <1>7, <1>8, <1>9, <1>10, <1>11, <1>12, <1>13, <1>14, <1>15
    DEF Finalizing

LEMMA ObserverSeals ==
    ASSUME Whole, Capture \/ Observing
    PROVE  Sealing'
<1>1. [Next]_vars BY DEF Next
<1>2. TypeOK BY DEF Whole, IInv
<1>3. UNCHANGED <<catalog, finalizer, server, seal, barrier, remembered>>
    BY DEF Capture, Observing, Observe, PersistObservation, disk, finalization
<1>4. FinalIsLast' /\ (BarriersComplete => BarriersComplete')
    BY <1>1, FinalStays DEF Whole
<1>5. IsSealed' <=> IsSealed BY <1>3 DEF IsSealed
<1>6. finalizer \in Written \/ IsSealed =>
          observation' # "accepted" /\ (NoServerBatch => NoServerBatch')
    <2>1. CASE Capture BY <2>1 DEF Capture, NoServerBatch
    <2>2. CASE Observe
        <3>1. queue' = queue BY <2>2 DEF Observe
        <3>2. CASE IsSealed BY <2>2, <3>1, <3>2 DEF Observe, IsSealed, NoServerBatch
        <3>3. CASE ~IsSealed /\ finalizer \in Written
            <4>1. /\ catalog.state = "closing" /\ ObserverIsQuiet
                  /\ observation \in {"early", "late"}
                BY <2>2, <3>3
                DEF Whole, Sealing, Written, Flushing, IsSealed, Observe
            <4>2. ~barrier \/ observation = "late" BY <4>1 DEF ObserverIsQuiet
            <4> QED BY <2>2, <3>1, <4>1, <4>2 DEF Observe, NoServerBatch
        <3> QED BY <3>2, <3>3
    <2>3. CASE PersistObservation
        BY <2>3 DEF PersistObservation, Whole, Sealing, SealStands
    <2> QED BY <2>1, <2>2, <2>3 DEF Observing
<1>7. finalizer \in Flushing => ObserverIsQuiet'
    <2>1. CASE Capture
        BY <1>2, <2>1 DEF Capture, ObserverIsQuiet, TypeOK, finalization
    <2>2. CASE Observe
        <3> SUFFICES ASSUME finalizer \in Flushing PROVE ObserverIsQuiet'
            OBVIOUS
        <3>1. /\ catalog.state \in {"closing", "sealed"} /\ ObserverIsQuiet
              /\ observation \in {"early", "late"}
            BY <2>2 DEF Whole, Sealing, Observe
        <3>2. ~barrier \/ observation = "late" BY <3>1 DEF ObserverIsQuiet
        <3>3. observation' = "none" BY <2>2, <3>1, <3>2 DEF Observe
        <3> QED BY <3>3 DEF ObserverIsQuiet
    <2>3. CASE PersistObservation
        BY <2>3 DEF PersistObservation, ObserverIsQuiet
    <2> QED BY <2>1, <2>2, <2>3 DEF Observing
<1>8. finalizer \in Written \/ IsSealed => SealStands'
    <2>1. finalizer \in Written \/ IsSealed => BarriersComplete /\ SealStands
        BY DEF Whole, Sealing, Written, Gated, Flushing
    <2> QED BY <1>1, <1>3, <1>6, <2>1, EvidenceStands DEF SealStands
<1> QED BY <1>3, <1>4, <1>5, <1>7, <1>8 DEF Whole, Sealing

LEMMA CrashSeals ==
    ASSUME Whole, Crash
    PROVE  Sealing'
<1>1. [Next]_vars BY DEF Next
<1>2. FinalIsLast' /\ (BarriersComplete => BarriersComplete')
    BY <1>1, FinalStays DEF Whole
<1>3. /\ finalizer' = "none" /\ ~remembered' /\ UNCHANGED <<server, seal>>
      /\ observation' = "none" /\ queue' = <<>>
    BY DEF Crash
<1>4. CASE IsSealed
    <2>1. BarriersComplete /\ SealStands /\ "terminal" \in server
        BY <1>4 DEF Whole, Sealing
    <2>2. SealStands'
        BY <1>1, <1>3, <2>1, EvidenceStands DEF SealStands, NoServerBatch
    <2> QED
        BY <1>2, <1>3, <2>1, <2>2
        DEF Sealing, Flushing, Gated, Concluded, Written
<1>5. CASE ~IsSealed
    <2>1. Journaled' \subseteq Seqs BY DEF Journaled
    <2>2. catalog' \in Advanced([catalog EXCEPT !.state = "interrupted",
                                                !.indexed = @ \cup Journaled'])
        BY <1>5 DEF Crash, IsSealed, Journaled
    <2>3. ~IsSealed' BY <2>1, <2>2, Recovered DEF Whole, IInv, IsSealed
    <2> QED
        BY <1>2, <1>3, <2>3 DEF Sealing, Flushing, Gated, Concluded, Written
<1> QED BY <1>4, <1>5

LEMMA SealingStays ==
    ASSUME Whole, [Next]_vars
    PROVE  Sealing'
<1>1. CASE UNCHANGED vars
    <2>1. Bystanding
        BY <1>1 DEF vars, disk, finalization, observer, Bystanding, IsSealed,
           NoServerBatch
    <2> QED BY <2>1, BystandersSeal
<1> QED
    BY <1>1, BrowserSeals, RequestsSeal, WriterSeals, FinalizerSealing,
       ObserverSeals, CrashSeals
    DEF Next

-----------------------------------------------------------------------------
LEMMA WholeInvariant == Spec => []Whole
<1>1. Init => Whole BY InitIInv, InitOneFate, InitSealing DEF Whole
<1>2. Whole /\ [Next]_vars => Whole'
    <2> SUFFICES ASSUME Whole, [Next]_vars PROVE Whole'
        OBVIOUS
    <2>1. IInv' BY NextIInv DEF Whole
    <2> QED BY <2>1, OneFateStays, OnceStays, SealingStays DEF Whole
<1> QED BY <1>1, <1>2, PTL DEF Spec

\* An event is appended to the journal once and never to a declared gap,
\* although write_and_wait is called again for events whose first attempt is
\* pending, failed after its append or died with the process, and although the
\* browser gives up events and declares gaps meanwhile.
THEOREM EventsAreJournaledOnce == Spec => []JournaledOnce
<1>1. Whole => JournaledOnce
    <2> SUFFICES ASSUME Whole, NEW s \in Seqs
                 PROVE  journal[s] <= 1 /\ (journal[s] = 1 => s \notin catalog.gaps)
        BY DEF JournaledOnce
    <2>1. journal[s] <= 1 BY DEF Whole, Once
    <2>2. journal[s] = 1 => s \in Journaled BY DEF Journaled
    <2> QED BY <2>1, <2>2 DEF Whole, OneFate, Dead
<1>2. QED BY <1>1, WholeInvariant, PTL

\* While the catalog calls the session sealed, its journals and gaps are what
\* finalize_session verified and wrote the seal files over, they account for
\* every event the browser allocated, and the terminal events are among them:
\* whatever batch, observation, close request or restart comes later.
THEOREM SealsStand == Spec => []SealedEvidenceStands
<1>1. Whole => SealedEvidenceStands
    <2> SUFFICES ASSUME Whole, IsSealed
                 PROVE  /\ seal = Evidence
                        /\ 1..client.produced \subseteq Journaled \cup catalog.gaps
                        /\ "terminal" \in server
        BY DEF SealedEvidenceStands, IsSealed
    <2>1. BarriersComplete /\ SealStands /\ "terminal" \in server
        BY DEF Whole, Sealing
    <2>2. 1..client.produced \subseteq Covered(catalog)
        BY <2>1 DEF BarriersComplete, Whole, Sealing, FinalIsLast
    <2>3. catalog.indexed \subseteq Journaled
        BY DEF Whole, IInv, Durable, IndexedIsJournaled
    <2> QED BY <2>1, <2>2, <2>3 DEF SealStands, Covered
<1>2. QED BY <1>1, WholeInvariant, PTL
=============================================================================
