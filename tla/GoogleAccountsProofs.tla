------------------------ MODULE GoogleAccountsProofs ------------------------
(***************************************************************************)
(* Theorems about the Google account of a user, for all operations,        *)
(* requests, accounts at Google and sources.                               *)
(***************************************************************************)
EXTENDS GoogleAccounts, TLAPS

Connecting == {"validate", "save", "rows", "migrate", "recheck", "replace",
               "drop"}
Own(a) == a.refresh = a.identity /\ a.access = a.identity

\* What the record h of a request holds is what its place needs; its tokens go
\* with its account, unless a refresh has overtaken a replacement; and what it
\* takes for verified has been shown.
Sound(h, over, shown) ==
    /\ h.at \in Connecting \cup {"exchange", "compare", "fail"} => h.op \in Operations
    /\ h.at \in Connecting \cup {"compare", "add"} => h.subject \in Subjects
    /\ h.at \in Connecting => h.refresh \in Subjects
    /\ h.at \in {"token", "add"} => h.account # None
    /\ h.at \in {"validate", "save"} /\ h.account # None
          => h.account.identity = h.subject
    /\ h.at \in {"save", "recheck", "replace"}
          => \A s \in h.verified : <<s, h.subject>> \in shown
    /\ ~over => /\ h.account # None => Own(h.account)
                /\ h.at \in Connecting => h.refresh = h.subject
                /\ h.at = "compare" => h.refresh \in {h.subject, None}
                /\ h.at = "add" => h.subject = h.account.identity

\* The tokens in the row and those of the candidates are their own.
Apart ==
    ~overtaken =>
        /\ account # None => Own(account)
        /\ \A o \in Operations :
              candidate[o] # None => candidate[o].refresh = candidate[o].subject

IInv ==
    /\ TypeOK
    /\ Apart
    /\ SourcesWereVerified
    /\ \A c \in Calls : Sound(call[c], overtaken, proven)

-----------------------------------------------------------------------------

LEMMA InitHolds == Init => IInv
<1> SUFFICES ASSUME Init PROVE IInv
  OBVIOUS
<1> USE GoogleConstants
<1>1. Idle \in CallStates
  BY DEF Idle, CallStates, Places
<1>2. /\ status \in [Operations -> {"none", "gone"} \cup Open \cup Ended]
      /\ candidate \in [Operations -> Candidates \cup {None}]
      /\ call \in [Calls -> CallStates]
  BY <1>1 DEF Init
<1> DEFINE Right ==
       /\ account \in Accounts \cup {None}
       /\ source \in [Sources -> Attachments \cup {None}]
       /\ proven \subseteq Sources \X Subjects
       /\ account # None => Own(account)
       /\ \A s \in Sources : source[s] # None => <<s, source[s].identity>> \in proven
<1>3. Right
  <2>1. CASE account = None /\ source = [s \in Sources |-> None] /\ proven = {}
    BY <2>1
  <2>2. ASSUME NEW g \in Subjects, NEW S \in SUBSET Sources,
               account = [id |-> 1, identity |-> g, refresh |-> g, access |-> g],
               source = [s \in Sources |->
                            IF s \in S THEN [account |-> 1, identity |-> g]
                                       ELSE None],
               proven = S \X {g}
        PROVE  Right
    <3>1. account \in Accounts /\ Own(account)
      BY <2>2 DEF Accounts, Own
    <3>2. source \in [Sources -> Attachments \cup {None}]
      BY <2>2 DEF Attachments
    <3>3. \A s \in Sources : source[s] # None => s \in S /\ source[s].identity = g
      BY <2>2
    <3> QED
      BY <2>2, <3>1, <3>2, <3>3
  <2> QED
    BY <2>1, <2>2 DEF Init
<1>4. TypeOK
  <2>1. /\ live \subseteq Sessions /\ late \subseteq Operations
        /\ states \subseteq Operations /\ lapsed \subseteq Operations
        /\ ids \in Nat /\ overtaken \in BOOLEAN
    BY DEF Init
  <2>2. trouble \in 0..MaxTrouble
    BY DEF Init
  <2> QED
    BY <1>2, <1>3, <2>1, <2>2 DEF TypeOK
<1>5. Apart /\ SourcesWereVerified
  BY <1>3 DEF Init, Apart, SourcesWereVerified
<1>6. \A c \in Calls : Sound(call[c], overtaken, proven)
  BY DEF Init, Sound, Idle, Connecting
<1> QED
  BY <1>4, <1>5, <1>6 DEF IInv

\* A request that moves on knows what its new place needs; the other requests
\* do not lose what they know when history goes on.
LEMMA CallMoves ==
    ASSUME IInv, NEW c \in Calls, NEW h \in CallStates, Becomes(c, h),
           overtaken => overtaken', proven \subseteq proven',
           Sound(h, overtaken', proven')
    PROVE  /\ call' \in [Calls -> CallStates]
           /\ \A d \in Calls : Sound(call'[d], overtaken', proven')
<1>1. /\ call \in [Calls -> CallStates]
      /\ \A d \in Calls : Sound(call[d], overtaken, proven)
  BY DEF IInv, TypeOK
<1>2. /\ call' \in [Calls -> CallStates]
      /\ call'[c] = h
      /\ \A d \in Calls \ {c} : call'[d] = call[d]
  BY <1>1 DEF Becomes
<1>3. \A d \in Calls : Sound(call[d], overtaken', proven')
  BY <1>1 DEF Sound
<1> QED
  BY <1>2, <1>3

LEMMA IdleIsSound ==
    /\ Idle \in CallStates
    /\ \A over, shown : Sound(Idle, over, shown)
<1>1. Idle \in CallStates
  BY DEF Idle, CallStates, Places
<1>2. \A over, shown : Sound(Idle, over, shown)
  BY DEF Idle, Sound, Connecting
<1> QED
  BY <1>1, <1>2

Holds(x, place, o, g, r, a, found, shown) ==
    /\ x.at = place /\ x.op = o /\ x.subject = g /\ x.refresh = r
    /\ x.account = a /\ x.rows = found /\ x.verified = shown

\* No candidate appears or changes its tokens.
Fewer(c1, c0) ==
    /\ c1 \in [Operations -> Candidates \cup {None}]
    /\ \A o \in Operations : c1[o] # None =>
          /\ c0[o] # None
          /\ c1[o].subject = c0[o].subject
          /\ c1[o].refresh = c0[o].refresh

LEMMA ShutIsFewer ==
    ASSUME NEW candidates \in [Operations -> Candidates \cup {None}], NEW S
    PROVE  Fewer(Shut(candidates, S), candidates)
<1> USE GoogleConstants
<1> SUFFICES ASSUME NEW o \in Operations
             PROVE  LET x == Shut(candidates, S)[o] IN
                    /\ x \in Candidates \cup {None}
                    /\ x # None => /\ candidates[o] # None
                                   /\ x.subject = candidates[o].subject
                                   /\ x.refresh = candidates[o].refresh
  BY DEF Fewer, Shut
<1>1. candidates[o] # None => candidates[o] \in Candidates
  OBVIOUS
<1>2. candidates[o] # None =>
         /\ [candidates[o] EXCEPT !.open = FALSE] \in Candidates
         /\ [candidates[o] EXCEPT !.open = FALSE].subject = candidates[o].subject
         /\ [candidates[o] EXCEPT !.open = FALSE].refresh = candidates[o].refresh
  BY <1>1 DEF Candidates
<1> QED
  BY <1>2 DEF Shut

LEMMA CleanIsFewer ==
    ASSUME candidate \in [Operations -> Candidates \cup {None}]
    PROVE  Fewer(CleanCandidates, candidate)
  BY DEF Fewer, CleanCandidates

LEMMA FewerIsTransitive ==
    ASSUME NEW x, NEW y, NEW z, Fewer(x, y), Fewer(y, z)
    PROVE  Fewer(x, z)
  BY DEF Fewer

LEMMA CleanStatusIsTyped ==
    ASSUME TypeOK
    PROVE  CleanStatus \in [Operations -> {"none", "gone"} \cup Open \cup Ended]
  BY DEF TypeOK, CleanStatus, Open, Ended

LEMMA TroubleIsTyped ==
    ASSUME TypeOK
    PROVE  (trouble' = trouble \/ Trouble) => trouble' \in 0..MaxTrouble
  BY GoogleConstants DEF TypeOK, Trouble

-----------------------------------------------------------------------------
(* Steps that neither touch the account nor the sources *)

RowsTyped ==
    /\ live' \subseteq Sessions
    /\ status' \in [Operations -> {"none", "gone"} \cup Open \cup Ended]
    /\ late' \subseteq Operations
    /\ states' \subseteq Operations
    /\ lapsed' \subseteq Operations
    /\ trouble' \in 0..MaxTrouble

LEMMA RowsChange ==
    ASSUME IInv, RowsTyped, Fewer(candidate', candidate),
           UNCHANGED <<account, ids, source>>, UNCHANGED history,
           call' \in [Calls -> CallStates],
           \A d \in Calls : Sound(call'[d], overtaken', proven')
    PROVE  IInv'
<1>1. TypeOK'
  BY DEF IInv, TypeOK, RowsTyped, Fewer, history
<1>2. Apart'
  BY DEF IInv, Apart, Fewer, history
<1>3. SourcesWereVerified'
  BY DEF IInv, SourcesWereVerified, history
<1> QED
  BY <1>1, <1>2, <1>3 DEF IInv

\* The same, if only the record of one request changes.
LEMMA OnlyCallMoves ==
    ASSUME IInv, NEW c \in Calls, NEW h \in CallStates, Becomes(c, h),
           UNCHANGED rows, UNCHANGED <<account, ids, source>>,
           UNCHANGED history, trouble' \in 0..MaxTrouble,
           Sound(h, overtaken, proven)
    PROVE  IInv'
<1>1. /\ call' \in [Calls -> CallStates]
      /\ \A d \in Calls : Sound(call'[d], overtaken', proven')
  BY CallMoves DEF history
<1>2. RowsTyped
  BY DEF RowsTyped, IInv, TypeOK, rows
<1>3. Fewer(candidate', candidate)
  BY DEF Fewer, IInv, TypeOK, rows
<1> QED
  BY <1>1, <1>2, <1>3, RowsChange

\* Connecting, polling, cancelling, expiring, logging out, restarting.
LEMMA RowSteps ==
    ASSUME IInv,
           \/ \E o \in Operations : \/ Connect(o) \/ CancelOperation(o)
                                    \/ CancelConnect(o)
                                    \/ OperationExpires(o) \/ CandidateExpires(o)
           \/ \E x \in Sessions : Logout(x)
           \/ CleanUp \/ Restart
    PROVE  IInv'
<1>1. /\ candidate \in [Operations -> Candidates \cup {None}]
      /\ CleanStatus \in [Operations -> {"none", "gone"} \cup Open \cup Ended]
      /\ trouble \in 0..MaxTrouble
      /\ call \in [Calls -> CallStates]
  BY CleanStatusIsTyped DEF IInv, TypeOK
<1>2. Fewer(CleanCandidates, candidate) /\ Fewer(candidate, candidate)
  BY <1>1, CleanIsFewer DEF Fewer
<1>3. UNCHANGED <<account, ids, source>> /\ UNCHANGED history
  BY DEF Connect, CancelOperation, CancelConnect, OperationExpires,
         CandidateExpires, Logout, CleanUp, Restart
<1>4. /\ call' \in [Calls -> CallStates]
      /\ \A d \in Calls : Sound(call'[d], overtaken', proven')
  <2>1. CASE Restart
    BY <2>1, IdleIsSound DEF Restart
  <2>2. CASE UNCHANGED call
    BY <1>1, <1>3, <2>2 DEF IInv, history
  <2> QED
    BY <2>1, <2>2 DEF Connect, CancelOperation, CancelConnect, OperationExpires,
                      CandidateExpires, Logout, CleanUp
<1>5. RowsTyped
  <2>1. trouble' \in 0..MaxTrouble
    BY TroubleIsTyped DEF IInv, Connect, CancelOperation, CancelConnect,
       OperationExpires, CandidateExpires, Logout, CleanUp, Restart
  <2>2. ASSUME NEW o \in Operations, Connect(o) PROVE RowsTyped
    BY <1>1, <2>1, <2>2 DEF Connect, RowsTyped, IInv, TypeOK, Open
  <2>3. ASSUME NEW o \in Operations, CancelOperation(o) PROVE RowsTyped
    BY <1>1, <2>1, <2>3 DEF CancelOperation, RowsTyped, IInv, TypeOK, Ended
  <2>4. ASSUME NEW o \in Operations, CancelConnect(o) PROVE RowsTyped
    BY <2>1, <2>4 DEF CancelConnect, EndPending, RowsTyped, IInv, TypeOK, Ended
  <2>5. ASSUME NEW o \in Operations, OperationExpires(o) \/ CandidateExpires(o)
        PROVE  RowsTyped
    BY <2>1, <2>5 DEF OperationExpires, CandidateExpires, RowsTyped, IInv, TypeOK
  <2>6. ASSUME NEW x \in Sessions, Logout(x) PROVE RowsTyped
    BY <2>1, <2>6 DEF Logout, Forget, RowsTyped, IInv, TypeOK
  <2>7. CASE CleanUp \/ Restart
    BY <1>1, <2>1, <2>7 DEF CleanUp, Restart, RowsTyped, IInv, TypeOK
  <2> QED
    BY <2>2, <2>3, <2>4, <2>5, <2>6, <2>7
<1>6. Fewer(candidate', candidate)
  <2>1. ASSUME NEW o \in Operations, CancelOperation(o)
        PROVE  Fewer(candidate', candidate)
    <3>1. Fewer(Shut(CleanCandidates, {o}), CleanCandidates)
      BY <1>2, ShutIsFewer DEF Fewer
    <3> QED
      BY <1>2, <2>1, <3>1, FewerIsTransitive DEF CancelOperation
  <2>2. ASSUME NEW x \in Sessions, Logout(x)
        PROVE  Fewer(candidate', candidate)
    BY <1>1, <2>2 DEF Logout, Forget, Fewer
  <2>3. CASE candidate' = CleanCandidates \/ candidate' = candidate
    BY <1>2, <2>3
  <2> QED
    BY <2>1, <2>2, <2>3 DEF Connect, CancelConnect, OperationExpires,
                            CandidateExpires, CleanUp, Restart
<1> QED
  BY <1>3, <1>4, <1>5, <1>6, RowsChange

-----------------------------------------------------------------------------
(* The callback, the answer to a candidate, the use of tokens *)

LEMMA RefreshIsTyped ==
    ASSUME IInv, NEW c \in Calls
    PROVE  /\ RefreshFor(c) \in Subjects \cup {None}
           /\ At(c, "compare") /\ ~overtaken
                 => RefreshFor(c) \in {call[c].subject, None}
<1>1. call[c].refresh \in Subjects \cup {None} /\ Sound(call[c], overtaken, proven)
  BY DEF IInv, TypeOK, CallStates
<1>2. account # None => account.refresh \in Subjects
  BY DEF IInv, TypeOK, Accounts
<1>3. account # None /\ ~overtaken => account.refresh = account.identity
  BY DEF IInv, Apart, Own
<1> QED
  BY <1>1, <1>2, <1>3 DEF RefreshFor, At, Sound

\* The requests that have read and have not written yet.
LEMMA ReadingSteps ==
    ASSUME IInv, NEW c \in Calls,
           \/ \E o \in Operations : ReadState(c, o)
           \/ Exchange(c) \/ ExchangeFails(c) \/ CompareRefuses(c)
           \/ ReadSources(c) \/ SaveRefuses(c) \/ ReadRows(c) \/ Recheck(c)
           \/ ReadAccount(c) \/ UseToken(c) \/ EndCall(c)
    PROVE  IInv'
<1> USE GoogleConstants DEF Holds
<1>1. /\ UNCHANGED rows /\ UNCHANGED <<account, ids, source>>
      /\ UNCHANGED history /\ trouble' \in 0..MaxTrouble
  BY TroubleIsTyped DEF IInv, ReadState, Exchange, ExchangeFails, CompareRefuses,
     ReadSources, SaveRefuses, ReadRows, Recheck, ReadAccount, UseToken, EndCall
<1>2. ASSUME NEW h \in CallStates, Becomes(c, h), Sound(h, overtaken, proven)
      PROVE  IInv'
  BY <1>1, <1>2, OnlyCallMoves
<1>3. /\ call[c] \in CallStates
      /\ Sound(call[c], overtaken, proven)
      /\ account \in Accounts \cup {None}
  BY DEF IInv, TypeOK
<1>4. call[c].op \in Operations \cup {None} /\ call[c].account \in Accounts \cup {None}
      /\ call[c].subject \in Subjects \cup {None}
      /\ call[c].refresh \in Subjects \cup {None}
  BY <1>3 DEF CallStates
<1>5. ASSUME NEW o \in Operations, ReadState(c, o)
      PROVE  IInv'
  <2> DEFINE place == IF o \notin late /\ SessionOf[o] \in live
                         THEN "exchange" ELSE "fail"
             h == [Idle EXCEPT !.at = place, !.op = o]
  <2>1. Holds(h, place, o, None, None, None, {}, {})
    BY DEF Idle
  <2>2. place \in {"exchange", "fail"}
    OBVIOUS
  <2>3. h \in CallStates
    BY <2>2, IdleIsSound DEF CallStates, Places
  <2>4. Sound(h, overtaken, proven)
    BY <2>1, <2>2 DEF Sound, Connecting
  <2> QED
    BY <1>2, <1>5, <2>3, <2>4 DEF ReadState
<1>6. CASE Exchange(c)
  <2>1. PICK g \in Subjects, r \in Subjects \cup {None} :
           /\ r \in {g, None}
           /\ Becomes(c, [call[c] EXCEPT !.at = "compare", !.subject = g,
                                         !.refresh = r])
    BY <1>6 DEF Exchange
  <2> DEFINE h == [call[c] EXCEPT !.at = "compare", !.subject = g, !.refresh = r]
  <2>2. Holds(h, "compare", call[c].op, g, r, call[c].account, call[c].rows,
              call[c].verified)
    BY <1>3 DEF CallStates
  <2>3. h \in CallStates
    BY <1>3, <2>2 DEF CallStates, Places
  <2>4. Sound(h, overtaken, proven)
    BY <1>3, <1>6, <2>1, <2>2 DEF Sound, Connecting, Exchange, At
  <2> QED
    BY <1>2, <2>1, <2>3, <2>4
\* A failing connection keeps its operation.
<1>7. CASE ExchangeFails(c) \/ CompareRefuses(c) \/ SaveRefuses(c)
  <2> DEFINE h == [call[c] EXCEPT !.at = "fail"]
  <2>1. h \in CallStates /\ h.at = "fail" /\ h.op = call[c].op
        /\ h.account = call[c].account
    BY <1>3 DEF CallStates, Places
  <2>2. call[c].at \in Connecting \cup {"exchange", "compare"}
    BY <1>7 DEF ExchangeFails, CompareRefuses, SaveRefuses, At, Connecting
  <2>3. Sound(h, overtaken, proven)
    BY <1>3, <2>1, <2>2 DEF Sound, Connecting
  <2> QED
    BY <1>2, <1>7, <2>1, <2>3 DEF ExchangeFails, CompareRefuses, SaveRefuses, Goes
<1>8. CASE ReadSources(c)
  <2> DEFINE found == {s \in Sources :
                          /\ source[s] # None
                          /\ \/ source[s].identity = call[c].subject
                             \/ /\ account # None
                                /\ source[s].account = account.id}
             h == [call[c] EXCEPT !.at = "validate", !.refresh = RefreshFor(c),
                                  !.account = account, !.rows = found]
  <2>1. RefreshFor(c) \in Subjects
        /\ (~overtaken => RefreshFor(c) = call[c].subject)
    BY <1>8, RefreshIsTyped DEF ReadSources
  <2>2. Holds(h, "validate", call[c].op, call[c].subject, RefreshFor(c),
              account, found, call[c].verified)
    BY <1>3 DEF CallStates
  <2>3. h \in CallStates
    BY <1>3, <2>1, <2>2 DEF CallStates, Places
  <2>4. call[c].op \in Operations /\ call[c].subject \in Subjects
    BY <1>3, <1>8 DEF ReadSources, At, Sound
  <2>5. account # None => account.identity = call[c].subject
    BY <1>8 DEF ReadSources, IsMismatch
  <2>6. ~overtaken /\ account # None => Own(account)
    BY DEF IInv, Apart
  <2>7. Sound(h, overtaken, proven)
    BY <2>1, <2>2, <2>4, <2>5, <2>6 DEF Sound, Connecting
  <2>8. Becomes(c, h)
    BY <1>8 DEF ReadSources
  <2> HIDE DEF h
  <2> QED
    BY <1>2, <2>3, <2>7, <2>8
<1>9. CASE ReadRows(c)
  <2> DEFINE found == {s \in Sources :
                          /\ source[s] # None /\ account # None
                          /\ \/ source[s].identity = account.identity
                             \/ source[s].account = account.id}
             h == [call[c] EXCEPT !.at = "migrate", !.account = account,
                                  !.rows = found]
  <2>1. Holds(h, "migrate", call[c].op, call[c].subject, call[c].refresh,
              account, found, call[c].verified)
    BY <1>3 DEF CallStates
  <2>2. h \in CallStates
    BY <1>3, <2>1 DEF CallStates, Places
  <2>3. ~overtaken /\ account # None => Own(account)
    BY DEF IInv, Apart
  <2>4. Sound(h, overtaken, proven)
    BY <1>3, <1>9, <2>1, <2>3 DEF Sound, Connecting, ReadRows, At
  <2>5. Becomes(c, h)
    BY <1>9 DEF ReadRows
  <2> HIDE DEF h
  <2> QED
    BY <1>2, <2>2, <2>4, <2>5
<1>10. CASE Recheck(c)
  <2>1. CASE Finishes(c)
    BY <1>2, <2>1, IdleIsSound DEF Finishes
  <2>2. CASE Goes(c, "replace")
    <3> DEFINE h == [call[c] EXCEPT !.at = "replace"]
    <3>1. Holds(h, "replace", call[c].op, call[c].subject, call[c].refresh,
                call[c].account, call[c].rows, call[c].verified)
      BY <1>3 DEF CallStates
    <3>2. h \in CallStates
      BY <1>3, <3>1 DEF CallStates, Places
    <3>3. Sound(h, overtaken, proven)
      BY <1>3, <1>10, <3>1 DEF Sound, Connecting, Recheck, At
    <3> QED
      BY <1>2, <2>2, <3>2, <3>3 DEF Goes
  <2> QED
    BY <1>10, <2>1, <2>2 DEF Recheck
<1>11. CASE ReadAccount(c)
  <2> DEFINE h == [Idle EXCEPT !.at = "token", !.account = account]
  <2>1. Holds(h, "token", None, None, None, account, {}, {})
    BY DEF Idle
  <2>2. h \in CallStates
    BY <1>3, IdleIsSound DEF CallStates, Places
  <2>3. ~overtaken => Own(account)
    BY <1>11 DEF IInv, Apart, ReadAccount
  <2>4. Sound(h, overtaken, proven)
    BY <1>11, <2>1, <2>3 DEF Sound, Connecting, ReadAccount
  <2> QED
    BY <1>2, <1>11, <2>2, <2>4 DEF ReadAccount
<1>12. CASE UseToken(c)
  <2> DEFINE read == call[c].account
             h == [call[c] EXCEPT !.at = "add", !.subject = read.access]
  <2>1. read \in Accounts /\ (~overtaken => Own(read))
    BY <1>3, <1>4, <1>12 DEF UseToken, At, Sound
  <2>2. Holds(h, "add", call[c].op, read.access, call[c].refresh, read,
              call[c].rows, call[c].verified)
    BY <1>3 DEF CallStates
  <2>3. read.access \in Subjects /\ read # None
    BY <2>1 DEF Accounts
  <2>4. h \in CallStates
    BY <1>3, <2>2, <2>3 DEF CallStates, Places
  <2>5. Sound(h, overtaken, proven)
    BY <2>1, <2>2, <2>3 DEF Sound, Connecting, Own
  <2>6. Becomes(c, h)
    BY <1>12 DEF UseToken
  <2> HIDE DEF h
  <2> QED
    BY <1>2, <2>4, <2>5, <2>6
<1>13. CASE EndCall(c)
  BY <1>2, <1>13, IdleIsSound DEF EndCall, Finishes
<1> QED
  BY <1>5, <1>6, <1>7, <1>8, <1>9, <1>10, <1>11, <1>12, <1>13

\* The requests that change an operation and its candidate.
LEMMA CandidateSteps ==
    ASSUME IInv, NEW c \in Calls,
           \/ \E o \in Operations : \/ LoadCandidate(c, o, "rows")
                                    \/ LoadCandidate(c, o, "drop")
           \/ Fail(c) \/ DropCandidate(c)
    PROVE  IInv'
<1> USE GoogleConstants DEF Holds
<1>1. /\ candidate \in [Operations -> Candidates \cup {None}]
      /\ CleanStatus \in [Operations -> {"none", "gone"} \cup Open \cup Ended]
      /\ trouble \in 0..MaxTrouble
      /\ call[c] \in CallStates
      /\ Sound(call[c], overtaken, proven)
  BY CleanStatusIsTyped DEF IInv, TypeOK
<1>2. /\ UNCHANGED <<account, ids, source>> /\ UNCHANGED history
      /\ trouble' = trouble
  BY DEF LoadCandidate, Fail, DropCandidate
<1>3. ASSUME NEW o \in Operations, NEW next \in {"rows", "drop"},
             LoadCandidate(c, o, next)
      PROVE  IInv'
  <2> DEFINE h == [Idle EXCEPT !.at = next, !.op = o,
                               !.subject = candidate[o].subject,
                               !.refresh = candidate[o].refresh]
  <2>1. candidate[o] \in Candidates
    BY <1>1, <1>3 DEF LoadCandidate, Active
  <2>2. candidate[o].subject \in Subjects /\ candidate[o].refresh \in Subjects
    BY <2>1 DEF Candidates
  <2>3. Holds(h, next, o, candidate[o].subject, candidate[o].refresh, None,
              {}, {})
    BY DEF Idle
  <2>4. h \in CallStates
    BY <2>2, IdleIsSound DEF CallStates, Places
  <2>5. ~overtaken => candidate[o].refresh = candidate[o].subject
    BY <1>3 DEF IInv, Apart, LoadCandidate, Active
  <2>6. Sound(h, overtaken, proven)
    BY <2>2, <2>3, <2>5 DEF Sound, Connecting
  <2>7. Becomes(c, h)
    BY <1>3 DEF LoadCandidate
  <2> HIDE DEF h
  <2>8. /\ call' \in [Calls -> CallStates]
        /\ \A d \in Calls : Sound(call'[d], overtaken', proven')
    BY <1>2, <2>4, <2>6, <2>7, CallMoves DEF history
  <2>9. RowsTyped
    BY <1>1, <1>3 DEF LoadCandidate, RowsTyped, IInv, TypeOK
  <2>10. Fewer(candidate', candidate)
    BY <1>1, <1>3, CleanIsFewer DEF LoadCandidate
  <2> QED
    BY <1>2, <2>8, <2>9, <2>10, RowsChange
<1>4. CASE Fail(c) \/ DropCandidate(c)
  <2>1. Becomes(c, Idle)
    BY <1>4 DEF Fail, DropCandidate, Finishes
  <2>2. /\ call' \in [Calls -> CallStates]
        /\ \A d \in Calls : Sound(call'[d], overtaken', proven')
    BY <1>2, <2>1, IdleIsSound, CallMoves DEF history
  <2>3. call[c].op \in Operations
    BY <1>1, <1>4 DEF Fail, DropCandidate, At, Sound, Connecting
  <2>4. RowsTyped
    <3>1. CASE Fail(c)
      BY <1>1, <2>3, <3>1 DEF Fail, EndPending, RowsTyped, IInv, TypeOK, Ended
    <3>2. CASE DropCandidate(c)
      BY <1>1, <2>3, <3>2 DEF DropCandidate, RowsTyped, IInv, TypeOK, Ended
    <3> QED
      BY <1>4, <3>1, <3>2
  <2>5. Fewer(candidate', candidate)
    BY <1>1, <1>4, ShutIsFewer DEF Fail, DropCandidate, Fewer
  <2> QED
    BY <1>2, <2>2, <2>4, <2>5, RowsChange
<1> QED
  BY <1>3, <1>4

\* A candidate is made of what Google has answered.
LEMMA MakingSteps ==
    ASSUME IInv, NEW c \in Calls, MakeCandidate(c)
    PROVE  IInv'
<1> USE GoogleConstants
<1> DEFINE o == call[c].op
           siblings == {p \in Operations : SessionOf[p] = SessionOf[o]}
           shut == Shut(candidate, siblings)
           new == [subject |-> call[c].subject, refresh |-> RefreshFor(c),
                   open |-> TRUE]
<1>1. /\ call[c] \in CallStates
      /\ Sound(call[c], overtaken, proven)
      /\ candidate \in [Operations -> Candidates \cup {None}]
  BY DEF IInv, TypeOK
<1>2. o \in Operations /\ call[c].subject \in Subjects
  BY <1>1 DEF MakeCandidate, At, Sound
<1>3. /\ RefreshFor(c) \in Subjects
      /\ ~overtaken => RefreshFor(c) = call[c].subject
  BY RefreshIsTyped DEF MakeCandidate
<1>4. new \in Candidates /\ (~overtaken => new.refresh = new.subject)
  BY <1>2, <1>3 DEF Candidates
<1>5. Fewer(shut, candidate)
  BY <1>1, ShutIsFewer
<1>6. candidate' = [shut EXCEPT ![o] = new]
  BY DEF MakeCandidate
<1>7. UNCHANGED <<live, late, lapsed, account, ids, source, trouble>>
      /\ UNCHANGED history /\ Becomes(c, Idle)
  BY DEF MakeCandidate, Finishes
<1>8. /\ status' \in [Operations -> {"none", "gone"} \cup Open \cup Ended]
      /\ states' \subseteq Operations
  BY DEF MakeCandidate, IInv, TypeOK, Open
<1> HIDE DEF shut, new, o
<1>9. /\ candidate' \in [Operations -> Candidates \cup {None}]
      /\ ~overtaken => \A p \in Operations :
            candidate'[p] # None => candidate'[p].refresh = candidate'[p].subject
  BY <1>2, <1>4, <1>5, <1>6 DEF Fewer, IInv, Apart
<1>10. /\ call' \in [Calls -> CallStates]
       /\ \A d \in Calls : Sound(call'[d], overtaken', proven')
  BY <1>7, IdleIsSound, CallMoves DEF history
<1>11. TypeOK'
  BY <1>7, <1>8, <1>9, <1>10 DEF IInv, TypeOK, history
<1>12. Apart' /\ SourcesWereVerified'
  BY <1>7, <1>9 DEF IInv, Apart, SourcesWereVerified, history
<1> QED
  BY <1>10, <1>11, <1>12 DEF IInv

-----------------------------------------------------------------------------
(* Steps that change the account, the sources or what is proven *)

\* A row of the user, or none, its sources, and the history, of a step in which
\* the request c ends or goes on as h.
LEMMA AccountChanges ==
    ASSUME IInv, NEW c \in Calls, NEW h \in CallStates, Becomes(c, h),
           RowsTyped, Fewer(candidate', candidate),
           account' \in Accounts \cup {None}, ids' \in Nat,
           source' \in [Sources -> Attachments \cup {None}],
           overtaken' \in BOOLEAN, overtaken => overtaken',
           proven' \subseteq Sources \X Subjects, proven \subseteq proven',
           ~overtaken' /\ account' # None => Own(account'),
           SourcesWereVerified',
           Sound(h, overtaken', proven')
    PROVE  IInv'
<1>1. /\ call' \in [Calls -> CallStates]
      /\ \A d \in Calls : Sound(call'[d], overtaken', proven')
  BY CallMoves
<1>2. TypeOK'
  BY <1>1 DEF TypeOK, RowsTyped, Fewer
<1>3. Apart'
  BY DEF IInv, Apart, Fewer
<1> QED
  BY <1>1, <1>2, <1>3 DEF IInv

LEMMA RowsStay ==
    ASSUME IInv, UNCHANGED rows, trouble' = trouble
    PROVE  RowsTyped /\ Fewer(candidate', candidate)
BY DEF IInv, TypeOK, RowsTyped, Fewer, rows

LEMMA Validates ==
    ASSUME IInv, NEW c \in Calls, Validate(c)
    PROVE  IInv'
<1> USE DEF Holds
<1>1. PICK S \in SUBSET call[c].rows :
         /\ Becomes(c, [call[c] EXCEPT
                           !.at = IF @ = "validate" THEN "save" ELSE "recheck",
                           !.verified = S])
         /\ proven' = proven \cup S \X {call[c].subject}
  BY DEF Validate
<1> DEFINE place == IF call[c].at = "validate" THEN "save" ELSE "recheck"
           h == [call[c] EXCEPT !.at = place, !.verified = S]
<1>2. /\ call[c] \in CallStates /\ Sound(call[c], overtaken, proven)
      /\ call[c].at \in {"validate", "migrate"}
  BY DEF IInv, TypeOK, Validate, At
<1>3. Becomes(c, h)
  BY <1>1
<1>4. Holds(h, place, call[c].op, call[c].subject, call[c].refresh,
            call[c].account, call[c].rows, S)
  BY <1>2 DEF CallStates
<1>5. S \in SUBSET Sources
  BY <1>1, <1>2 DEF CallStates
<1>6. h \in CallStates
  BY <1>2, <1>5 DEF CallStates, Places
<1>7. call[c].subject \in Subjects
  BY <1>2 DEF Sound, Connecting
<1>8. /\ proven' \subseteq Sources \X Subjects /\ proven \subseteq proven'
      /\ \A s \in S : <<s, call[c].subject>> \in proven'
  BY <1>1, <1>5, <1>7 DEF IInv, TypeOK
<1>9. UNCHANGED rows /\ UNCHANGED <<account, ids, source, trouble, overtaken>>
  BY DEF Validate
<1>10. Sound(h, overtaken', proven')
  <2>1. place \in {"save", "recheck"} /\ (place = "save" => call[c].at = "validate")
    BY <1>2
  <2> HIDE DEF h, place
  <2> QED
    BY <1>2, <1>4, <1>8, <1>9, <2>1 DEF Sound, Connecting
<1>11. SourcesWereVerified'
  BY <1>8, <1>9 DEF IInv, SourcesWereVerified
<1> HIDE DEF h
<1> QED
  BY <1>3, <1>6, <1>8, <1>9, <1>10, <1>11, RowsStay, AccountChanges
     DEF IInv, TypeOK, Apart

\* The account that a request saves, and the sources it attaches, are those it
\* has tokens and proofs for.
LEMMA Attaches ==
    ASSUME IInv, NEW c \in Calls, At(c, "save") \/ At(c, "replace"),
           Upsert(c), Apply(c), UNCHANGED history
    PROVE  /\ account' \in Accounts /\ ids' \in Nat
           /\ account'.identity = call[c].subject
           /\ ~overtaken' => Own(account')
           /\ source' \in [Sources -> Attachments \cup {None}]
           /\ SourcesWereVerified'
<1> USE GoogleConstants
<1>1. call[c] \in CallStates /\ Sound(call[c], overtaken, proven)
      /\ call[c].at \in {"save", "replace"}
  BY DEF IInv, TypeOK, At
<1>2. /\ call[c].subject \in Subjects /\ call[c].refresh \in Subjects
      /\ \A s \in call[c].verified : <<s, call[c].subject>> \in proven
      /\ ~overtaken => call[c].refresh = call[c].subject
  BY <1>1 DEF Sound, Connecting
<1>3. ids \in Nat /\ (account # None => account.id \in Nat)
  BY DEF IInv, TypeOK, Accounts
<1>4. ids' \in Nat
  BY <1>3 DEF Upsert
<1> DEFINE new == IF account = None THEN ids + 1 ELSE account.id
<1>5. new \in Nat
  BY <1>3
<1>6. account' = [id |-> new, identity |-> call[c].subject,
                  refresh |-> call[c].refresh, access |-> call[c].subject]
  BY DEF Upsert
<1> HIDE DEF new
<1>7. /\ account' \in Accounts
      /\ account'.id \in Nat
      /\ account'.identity = call[c].subject
      /\ account'.refresh = call[c].refresh
      /\ account'.access = call[c].subject
  BY <1>2, <1>5, <1>6 DEF Accounts
<1>8. ~overtaken' => Own(account')
  BY <1>2, <1>7 DEF Own, history
<1>9. source \in [Sources -> Attachments \cup {None}]
  BY DEF IInv, TypeOK
<1> DEFINE attached == [account |-> account'.id, identity |-> call[c].subject]
<1>10. attached \in Attachments /\ attached.identity = call[c].subject
  BY <1>2, <1>7 DEF Attachments
<1>11. source' = [s \in Sources |->
                    IF s \in call[c].verified THEN attached
                    ELSE IF s \in call[c].rows /\ source[s] # None
                        THEN [source[s] EXCEPT !.account = None]
                        ELSE source[s]]
  BY DEF Apply
<1> HIDE DEF attached
<1>12. \A s \in Sources : source[s] # None =>
          /\ [source[s] EXCEPT !.account = None] \in Attachments
          /\ [source[s] EXCEPT !.account = None].account = None
  BY <1>9 DEF Attachments
<1>13. source' \in [Sources -> Attachments \cup {None}]
  BY <1>9, <1>10, <1>11, <1>12
<1>14. SourcesWereVerified'
  BY <1>2, <1>10, <1>11, <1>12 DEF IInv, SourcesWereVerified, history
<1> QED
  BY <1>4, <1>7, <1>8, <1>13, <1>14

LEMMA SavingSteps ==
    ASSUME IInv, NEW c \in Calls, Save(c) \/ Replace(c)
    PROVE  IInv'
<1> USE GoogleConstants
<1>1. /\ call[c] \in CallStates /\ Sound(call[c], overtaken, proven)
      /\ candidate \in [Operations -> Candidates \cup {None}]
  BY DEF IInv, TypeOK
<1>2. call[c].op \in Operations
  BY <1>1 DEF Save, Replace, At, Sound, Connecting
<1>3. RowsTyped
  BY <1>2 DEF Save, Replace, RowsTyped, IInv, TypeOK, Ended
<1>4. Fewer(candidate', candidate)
  BY <1>1, ShutIsFewer DEF Save, Replace, Fewer
<1>5. /\ At(c, "save") \/ At(c, "replace")
      /\ Upsert(c) /\ Apply(c) /\ UNCHANGED history /\ Becomes(c, Idle)
  BY DEF Save, Replace, Finishes
<1>6. /\ account' \in Accounts /\ ids' \in Nat
      /\ ~overtaken' => Own(account')
      /\ source' \in [Sources -> Attachments \cup {None}]
      /\ SourcesWereVerified'
  BY <1>5, Attaches
<1> QED
  BY <1>3, <1>4, <1>5, <1>6, IdleIsSound, AccountChanges DEF IInv, TypeOK, history

\* The tokens of a refresh are those that were read; only if the account has
\* been replaced since do they differ from it, and then history says so.
LEMMA TokenSteps ==
    ASSUME IInv, NEW c \in Calls, StoreToken(c)
    PROVE  IInv'
<1> USE GoogleConstants DEF Holds
<1> DEFINE read == call[c].account
           h == [call[c] EXCEPT !.at = "add", !.subject = read.refresh]
<1>1. /\ call[c] \in CallStates /\ Sound(call[c], overtaken, proven)
      /\ At(c, "token")
  BY DEF IInv, TypeOK, StoreToken
<1>2. read # None /\ read \in Accounts /\ (~overtaken => Own(read))
  BY <1>1 DEF CallStates, Sound, At
<1>3. /\ read.id \in Nat /\ read.identity \in Subjects /\ read.refresh \in Subjects
  BY <1>2 DEF Accounts
<1>4. Holds(h, "add", call[c].op, read.refresh, call[c].refresh, read,
            call[c].rows, call[c].verified)
  BY <1>1 DEF CallStates
<1>5. h \in CallStates
  BY <1>1, <1>3 DEF CallStates, Places
<1>6. /\ UNCHANGED rows /\ UNCHANGED <<ids, source, trouble, proven>>
      /\ Becomes(c, h)
  BY DEF StoreToken
<1>7. account \in Accounts \cup {None} /\ overtaken \in BOOLEAN
      /\ (account # None /\ ~overtaken => Own(account))
  BY DEF IInv, TypeOK, Apart
<1>8. /\ account' \in Accounts \cup {None}
      /\ overtaken' \in BOOLEAN /\ (overtaken => overtaken')
      /\ ~overtaken' /\ account' # None => Own(account')
  <2>1. CASE account # None /\ account.id = read.id
    <3>1. /\ account' = [account EXCEPT !.refresh = read.refresh,
                                        !.access = read.refresh]
          /\ overtaken' = (overtaken \/ account.identity # read.identity)
      BY <2>1 DEF StoreToken
    <3>2. account' \in Accounts
      BY <1>3, <1>7, <2>1, <3>1 DEF Accounts
    <3>3. /\ account'.identity = account.identity
          /\ account'.refresh = read.refresh /\ account'.access = read.refresh
      BY <1>7, <2>1, <3>1 DEF Accounts
    <3> QED
      BY <1>2, <1>7, <3>1, <3>2, <3>3 DEF Own
  <2>2. CASE UNCHANGED <<account, overtaken>>
    BY <1>7, <2>2
  <2> QED
    BY <2>1, <2>2 DEF StoreToken
<1> HIDE DEF h
<1>9. Sound(h, overtaken', proven')
  BY <1>2, <1>3, <1>4, <1>8 DEF Sound, Connecting, Own
<1>10. SourcesWereVerified'
  BY <1>6, <1>8 DEF IInv, SourcesWereVerified
<1> QED
  BY <1>5, <1>6, <1>8, <1>9, <1>10, RowsStay, AccountChanges DEF IInv, TypeOK

\* A new source is filed under the account whose token has opened its folder.
LEMMA AddingSteps ==
    ASSUME IInv, NEW c \in Calls, NEW s \in Sources, AddSource(c, s)
    PROVE  IInv'
<1> USE GoogleConstants
<1> DEFINE read == call[c].account
           new == [account |-> read.id, identity |-> read.identity]
<1>1. /\ call[c] \in CallStates /\ Sound(call[c], overtaken, proven)
      /\ At(c, "add")
  BY DEF IInv, TypeOK, AddSource
<1>2. /\ read \in Accounts /\ call[c].subject \in Subjects
      /\ ~overtaken => call[c].subject = read.identity
  BY <1>1 DEF CallStates, Sound, At
<1>3. new \in Attachments /\ new.identity = read.identity
  BY <1>2 DEF Accounts, Attachments
<1>4. /\ source' = [source EXCEPT ![s] = new]
      /\ proven' = proven \cup {<<s, call[c].subject>>}
      /\ UNCHANGED rows /\ UNCHANGED <<account, ids, trouble, overtaken>>
      /\ Becomes(c, Idle)
  BY DEF AddSource, Finishes
<1> HIDE DEF new, read
<1>5. /\ source' \in [Sources -> Attachments \cup {None}]
      /\ proven' \subseteq Sources \X Subjects /\ proven \subseteq proven'
  BY <1>2, <1>3, <1>4 DEF IInv, TypeOK
<1>6. SourcesWereVerified'
  BY <1>2, <1>3, <1>4, <1>5 DEF IInv, TypeOK, SourcesWereVerified
<1> QED
  BY <1>4, <1>5, <1>6, IdleIsSound, RowsStay, AccountChanges
     DEF IInv, TypeOK, Apart

LEMMA DisconnectingSteps ==
    ASSUME IInv, Disconnect
    PROVE  IInv'
<1> USE GoogleConstants
<1>1. /\ call' = call /\ account' = None /\ ids' = ids /\ UNCHANGED history
      /\ source \in [Sources -> Attachments \cup {None}]
      /\ candidate \in [Operations -> Candidates \cup {None}]
  BY DEF IInv, TypeOK, Disconnect
<1>2. RowsTyped
  BY TroubleIsTyped DEF Disconnect, Forget, RowsTyped, IInv, TypeOK
<1>3. Fewer(candidate', candidate)
  BY <1>1 DEF Disconnect, Forget, Fewer
<1>4. \A s \in Sources : source[s] # None =>
         /\ [source[s] EXCEPT !.account = None] \in Attachments
         /\ [source[s] EXCEPT !.account = None].account = None
  BY <1>1 DEF Attachments
<1>5. \A s \in Sources :
         \/ source'[s] = source[s]
         \/ source[s] # None /\ source'[s] = [source[s] EXCEPT !.account = None]
  BY DEF Disconnect
<1>6. source' \in [Sources -> Attachments \cup {None}]
  BY <1>1, <1>4, <1>5 DEF Disconnect
<1>7. SourcesWereVerified'
  BY <1>1, <1>4, <1>5 DEF IInv, SourcesWereVerified, history
<1>8. TypeOK'
  BY <1>1, <1>2, <1>3, <1>6 DEF IInv, TypeOK, RowsTyped, Fewer, history
<1>9. Apart'
  BY <1>1, <1>3 DEF IInv, Apart, Fewer, history
<1> QED
  BY <1>1, <1>7, <1>8, <1>9 DEF IInv, history

LEMMA InvariantHolds == Spec => []IInv
<1>1. ASSUME IInv, [Next]_vars PROVE IInv'
  <2>1. CASE UNCHANGED vars
    BY <1>1, <2>1 DEF vars, history, IInv, TypeOK, Apart, SourcesWereVerified
  <2>2. ASSUME NEW c \in Calls, Callback(c) \/ Answer(c) \/ UseAccount(c)
        PROVE  IInv'
    BY <1>1, <2>2, ReadingSteps, CandidateSteps, MakingSteps, Validates,
       SavingSteps, TokenSteps, AddingSteps DEF Callback, Answer, UseAccount
  <2>3. CASE Disconnect
    BY <1>1, <2>3, DisconnectingSteps
  <2> QED
    BY <1>1, <2>1, <2>2, <2>3, RowSteps DEF Next
<1> QED
  BY InitHolds, <1>1, PTL DEF Spec

-----------------------------------------------------------------------------

\* Every reachable state is well typed; in particular every refresh token that
\* is about to be saved is there (complete_google_drive_connect refuses without
\* one).
THEOREM TypeCorrect == Spec => []TypeOK
<1>1. IInv => TypeOK
  BY DEF IInv
<1> QED
  BY InvariantHolds, <1>1, PTL

\* The tokens in google_drive_accounts belong to the account the row names,
\* however connections, confirmations and refreshes interleave, until a refresh
\* (_ensure_access_token) overtakes a replacement.
THEOREM TokensAreKeptApart == Spec => []TokensBelongToAccount
<1>1. IInv => TokensBelongToAccount
  BY DEF IInv, Apart, Own, TokensBelongToAccount
<1> QED
  BY InvariantHolds, <1>1, PTL

\* No source is attached under an identity that has not been shown its folder,
\* however late a validation is filed
\* (_apply_google_source_validation_results_in_connection).
THEOREM AttachmentsAreProven == Spec => []SourcesWereVerified
<1>1. IInv => SourcesWereVerified
  BY DEF IInv
<1> QED
  BY InvariantHolds, <1>1, PTL

\* An account at Google becomes that of the user only in the last section of a
\* callback whose operation is pending and which had compared it with somebody
\* else or nobody, or in that of a confirmation.
THEOREM NobodyIsReplacedUnasked == Spec => AccountChangesWereAsked
<1> DEFINE Changed == account' # None /\ (account = None \/ account'.identity # account.identity)
           Step == Changed => \E c \in Calls : MayConnect(c, account'.identity)
<1>1. ASSUME IInv, [Next]_vars PROVE [Step]_vars
  <2> USE GoogleConstants
  <2> SUFFICES ASSUME Changed
               PROVE  \E c \in Calls : MayConnect(c, account'.identity)
    OBVIOUS
  <2>1. ASSUME NEW c \in Calls, Save(c) \/ Replace(c)
        PROVE  MayConnect(c, account'.identity)
    <3>1. /\ At(c, "save") \/ At(c, "replace")
          /\ Upsert(c) /\ Apply(c) /\ UNCHANGED history
          /\ At(c, "replace") \/ Waiting(call[c].op)
      BY <2>1 DEF Save, Replace
    <3>2. account'.identity = call[c].subject
      BY <1>1, <3>1, Attaches
    <3>3. At(c, "save") /\ call[c].account # None
             => call[c].account.identity = call[c].subject
      BY <1>1 DEF IInv, Sound, At
    <3> QED
      BY <3>1, <3>2, <3>3 DEF MayConnect
  <2>2. ASSUME NEW c \in Calls, StoreToken(c)
        PROVE  FALSE
    <3>1. CASE account # None
      <4>1. account \in Accounts
        BY <1>1, <3>1 DEF IInv, TypeOK
      <4> QED
        BY <2>2, <3>1, <4>1 DEF StoreToken, Accounts
    <3>2. CASE account = None
      BY <2>2, <3>2 DEF StoreToken
    <3> QED
      BY <3>1, <3>2
  <2>3. CASE account' = account \/ account' = None
    BY <2>3
  <2>4. ASSUME NEW c \in Calls, Callback(c) \/ Answer(c) \/ UseAccount(c),
               ~(Save(c) \/ Replace(c) \/ StoreToken(c))
        PROVE  account' = account
    BY <2>4 DEF Callback, Answer, UseAccount, ReadState, Exchange, ExchangeFails,
       CompareRefuses, MakeCandidate, ReadSources, Validate, SaveRefuses, Fail,
       LoadCandidate, ReadRows, Recheck, DropCandidate, ReadAccount, UseToken,
       AddSource, EndCall
  <2>5. CASE \/ \E o \in Operations : \/ Connect(o) \/ CancelOperation(o)
                                      \/ CancelConnect(o)
                                      \/ OperationExpires(o) \/ CandidateExpires(o)
             \/ \E x \in Sessions : Logout(x)
             \/ CleanUp \/ Disconnect \/ Restart \/ UNCHANGED vars
    BY <2>3, <2>5 DEF Connect, CancelOperation, CancelConnect, OperationExpires,
       CandidateExpires, Logout, CleanUp, Disconnect, Restart, vars
  <2> QED
    BY <1>1, <2>1, <2>2, <2>3, <2>4, <2>5 DEF Next
<1> QED
  BY InvariantHolds, <1>1, PTL DEF Spec, AccountChangesWereAsked
=============================================================================
