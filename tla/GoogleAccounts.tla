--------------------------- MODULE GoogleAccounts ---------------------------
(***************************************************************************)
(* The Google Drive account of one user: connecting it, replacing it,      *)
(* refreshing its tokens and attaching library sources to it               *)
(* (services/cloud_provider_auth_service.py).                              *)
(*                                                                         *)
(* A request works in sections of one database transaction each, with      *)
(* calls to Google in between; all it keeps over such a call is what it    *)
(* has read before.  A section is one step.  An operation stands for its   *)
(* random identifier as well, so it is never used twice, and for its       *)
(* candidate, of which it has at most one.                                 *)
(***************************************************************************)
EXTENDS Naturals

CONSTANTS
    Operations,    \* identifiers of connect operations
    Sessions,      \* logins of the user
    SessionOf,     \* the login that starts each operation
    Subjects,      \* accounts at Google
    Sources,       \* rows of library_sources
    Calls,         \* request threads
    MaxTrouble,    \* bound: what Trouble counts
    None

ASSUME GoogleConstants ==
    /\ SessionOf \in [Operations -> Sessions]
    /\ MaxTrouble \in Nat
    /\ None \notin Operations \cup Subjects \cup Nat
    /\ None \notin [subject : Subjects, refresh : Subjects, open : BOOLEAN]
    /\ None \notin [id : Nat, identity : Subjects, refresh : Subjects,
                    access : Subjects]
    /\ None \notin [account : Nat \cup {None}, identity : Subjects]

VARIABLES
    live,          \* logins that are not revoked
    status,        \* google_oauth_operations: the status of each row
    late,          \* operations that are past their expires_at
    states,        \* google_oauth_states: operations the callback can find
    candidate,     \* google_oauth_account_candidates: the one of an operation
    lapsed,        \* operations whose candidate is past its expires_at
    account,       \* google_drive_accounts: the row of the user
    ids,           \* the last id that table has given
    source,        \* library_sources: account and identity of each row
    call,          \* what each request holds
    trouble,
    overtaken,     \* history: tokens were stored for a replaced account
    proven         \* history: <<source, subject>>: Google showed it to them

vars == <<live, status, late, states, candidate, lapsed, account, ids, source,
          call, trouble, overtaken, proven>>
rows == <<live, status, late, states, candidate, lapsed>>
history == <<overtaken, proven>>

Pending == "pending"
Mismatch == "account_mismatch"
Open == {Pending, Mismatch}
Ended == {"connected", "cancelled", "error", "expired"}

\* A token is named after the account at Google that it belongs to.
Candidates == [subject : Subjects, refresh : Subjects, open : BOOLEAN]
Accounts == [id : Nat, identity : Subjects, refresh : Subjects,
             access : Subjects]
Attachments == [account : Nat \cup {None}, identity : Subjects]
Places == {"idle", "exchange", "compare", "validate", "save", "fail",
           "rows", "migrate", "recheck", "replace", "drop", "token", "add"}
CallStates == [at : Places, op : Operations \cup {None},
               subject : Subjects \cup {None}, refresh : Subjects \cup {None},
               account : Accounts \cup {None}, rows : SUBSET Sources,
               verified : SUBSET Sources]
Idle == [at |-> "idle", op |-> None, subject |-> None, refresh |-> None,
         account |-> None, rows |-> {}, verified |-> {}]

TypeOK ==
    /\ live \subseteq Sessions
    /\ status \in [Operations -> {"none", "gone"} \cup Open \cup Ended]
    /\ late \subseteq Operations
    /\ states \subseteq Operations
    /\ candidate \in [Operations -> Candidates \cup {None}]
    /\ lapsed \subseteq Operations
    /\ account \in Accounts \cup {None}
    /\ ids \in Nat
    /\ source \in [Sources -> Attachments \cup {None}]
    /\ call \in [Calls -> CallStates]
    /\ trouble \in 0..MaxTrouble
    /\ overtaken \in BOOLEAN
    /\ proven \subseteq Sources \X Subjects

\* The user has connected nothing yet, or an account with some sources.
Init ==
    /\ live = Sessions
    /\ status = [o \in Operations |-> "none"]
    /\ late = {}
    /\ states = {}
    /\ candidate = [o \in Operations |-> None]
    /\ lapsed = {}
    /\ ids = 1
    /\ call = [c \in Calls |-> Idle]
    /\ trouble = 0
    /\ overtaken = FALSE
    /\ \/ /\ account = None
          /\ source = [s \in Sources |-> None]
          /\ proven = {}
       \/ \E g \in Subjects, S \in SUBSET Sources :
             /\ account = [id |-> 1, identity |-> g, refresh |-> g,
                           access |-> g]
             /\ source = [s \in Sources |->
                             IF s \in S THEN [account |-> 1, identity |-> g]
                                        ELSE None]
             /\ proven = S \X {g}

Trouble == trouble < MaxTrouble /\ trouble' = trouble + 1
At(c, place) == call[c].at = place
Becomes(c, held) == call' = [call EXCEPT ![c] = held]
Goes(c, place) == Becomes(c, [call[c] EXCEPT !.at = place])
Finishes(c) == Becomes(c, Idle)

\* _cleanup_google_oauth_artifacts_in_connection, but for the rows of
\* yesterday.
CleanStatus == [o \in Operations |->
                   IF status[o] \in Open /\ o \in late THEN "expired"
                                                       ELSE status[o]]
CleanCandidates == [o \in Operations |->
                       IF o \in lapsed THEN None ELSE candidate[o]]

\* The candidates of S can no longer be confirmed.
Shut(candidates, S) ==
    [o \in Operations |->
        IF o \in S /\ candidates[o] # None
            THEN [candidates[o] EXCEPT !.open = FALSE]
            ELSE candidates[o]]

\* The rows of the operations S are deleted, with their states and candidates.
Forget(S) ==
    /\ status' = [o \in Operations |->
                     IF o \in S /\ status[o] # "none" THEN "gone"
                                                      ELSE status[o]]
    /\ states' = states \ S
    /\ candidate' = [o \in Operations |->
                        IF o \in S THEN None ELSE candidate[o]]
    /\ UNCHANGED <<late, lapsed>>

\* What _load_active_google_account_candidate and the last section of a
\* confirmation ask for.
Active(o) ==
    /\ status[o] = Mismatch
    /\ o \notin late \cup lapsed
    /\ candidate[o] # None
    /\ candidate[o].open
    /\ SessionOf[o] \in live

Waiting(o) == status[o] = Pending /\ o \notin late

-----------------------------------------------------------------------------
(* Sections of one transaction *)

\* build_google_drive_connect_response
Connect(o) ==
    /\ status[o] = "none"
    /\ SessionOf[o] \in live
    /\ status' = [CleanStatus EXCEPT ![o] = Pending]
    /\ states' = (states \ late) \cup {o}
    /\ candidate' = CleanCandidates
    /\ UNCHANGED <<live, late, lapsed, account, ids, source, call, trouble>>
    /\ UNCHANGED history

\* get_google_oauth_operation_payload, or a refused request for a candidate.
CleanUp ==
    /\ status' = CleanStatus
    /\ states' = states \ late
    /\ candidate' = CleanCandidates
    /\ UNCHANGED <<live, late, lapsed, account, ids, source, call, trouble>>
    /\ UNCHANGED history

\* cancel_google_oauth_operation
CancelOperation(o) ==
    /\ CleanStatus[o] \in Open
    /\ SessionOf[o] \in live
    /\ status' = [CleanStatus EXCEPT ![o] = "cancelled"]
    /\ states' = (states \ late) \ {o}
    /\ candidate' = Shut(CleanCandidates, {o})
    /\ UNCHANGED <<live, late, lapsed, account, ids, source, call, trouble>>
    /\ UNCHANGED history

\* What cancel_google_drive_connect and fail_google_drive_connect do with an
\* operation whose state they find.
EndPending(o, outcome) ==
    /\ status' = [status EXCEPT ![o] = IF o \in states /\ @ = Pending
                                          THEN outcome ELSE @]
    /\ states' = states \ {o}

\* The callback brings an error: the user has refused.
CancelConnect(o) ==
    /\ o \in states
    /\ EndPending(o, "cancelled")
    /\ UNCHANGED <<live, late, candidate, lapsed, account, ids, source, call,
                   trouble>>
    /\ UNCHANGED history

\* disconnect_google_drive_account
Disconnect ==
    /\ Trouble
    /\ account' = None
    /\ source' = [s \in Sources |->
                     IF account # None /\ source[s] # None
                           /\ source[s].account = account.id
                         THEN [source[s] EXCEPT !.account = None]
                         ELSE source[s]]
    /\ Forget(Operations)
    /\ UNCHANGED <<live, ids, call>>
    /\ UNCHANGED history

\* logout and _revoke_session_ids
Logout(x) ==
    /\ x \in live
    /\ Trouble
    /\ live' = live \ {x}
    /\ Forget({o \in Operations : SessionOf[o] = x})
    /\ UNCHANGED <<account, ids, source, call>>
    /\ UNCHANGED history

-----------------------------------------------------------------------------
(* The callback of Google: complete_google_drive_connect *)

ReadState(c, o) ==
    /\ At(c, "idle")
    /\ o \in states
    /\ Becomes(c, [Idle EXCEPT
                      !.at = IF o \notin late /\ SessionOf[o] \in live
                                 THEN "exchange" ELSE "fail",
                      !.op = o])
    /\ UNCHANGED rows
    /\ UNCHANGED <<account, ids, source, trouble>>
    /\ UNCHANGED history

\* The code is exchanged for tokens; a refresh token may not be among them.
Exchange(c) ==
    /\ At(c, "exchange")
    /\ \E g \in Subjects : \E r \in {g, None} :
          Becomes(c, [call[c] EXCEPT !.at = "compare", !.subject = g,
                                     !.refresh = r])
    /\ UNCHANGED rows
    /\ UNCHANGED <<account, ids, source, trouble>>
    /\ UNCHANGED history

ExchangeFails(c) ==
    /\ At(c, "exchange")
    /\ Trouble
    /\ Goes(c, "fail")
    /\ UNCHANGED rows
    /\ UNCHANGED <<account, ids, source>>
    /\ UNCHANGED history

Historical == {source[s].identity : s \in {s \in Sources : source[s] # None}}

\* Variant: only the sources say which account the user has.
IsMismatchOfSources(g) == Historical \notin {{}, {g}}

\* The account at Google is another one than the user has or had.
IsMismatch(g) ==
    IF account # None THEN account.identity # g
                      ELSE Historical \notin {{}, {g}}

\* Variant: the stored refresh token is kept whomever it belongs to.
RefreshForAnybody(c) ==
    IF call[c].refresh = None /\ account # None THEN account.refresh
                                                ELSE call[c].refresh

\* The refresh token to store, if there is one.
RefreshFor(c) ==
    IF call[c].refresh # None THEN call[c].refresh
    ELSE IF account # None /\ account.identity = call[c].subject
        THEN account.refresh
        ELSE None

CompareRefuses(c) ==
    /\ At(c, "compare")
    /\ ~Waiting(call[c].op) \/ RefreshFor(c) = None
    /\ Goes(c, "fail")
    /\ UNCHANGED rows
    /\ UNCHANGED <<account, ids, source, trouble>>
    /\ UNCHANGED history

\* The user is asked: the account becomes a candidate, the only one of the
\* login.
MakeCandidate(c) ==
    LET o == call[c].op IN
    /\ At(c, "compare")
    /\ Waiting(o)
    /\ RefreshFor(c) # None
    /\ IsMismatch(call[c].subject)
    /\ candidate' =
          [Shut(candidate, {p \in Operations : SessionOf[p] = SessionOf[o]})
              EXCEPT ![o] = [subject |-> call[c].subject,
                             refresh |-> RefreshFor(c), open |-> TRUE]]
    /\ status' = [status EXCEPT ![o] = Mismatch]
    /\ states' = states \ {o}
    /\ Finishes(c)
    /\ UNCHANGED <<live, late, lapsed, account, ids, source, trouble>>
    /\ UNCHANGED history

\* The sources that the account is to be tried on.
ReadSources(c) ==
    /\ At(c, "compare")
    /\ Waiting(call[c].op)
    /\ RefreshFor(c) # None
    /\ ~IsMismatch(call[c].subject)
    /\ Becomes(c, [call[c] EXCEPT
             !.at = "validate",
             !.refresh = RefreshFor(c),
             !.account = account,
             !.rows = {s \in Sources :
                          /\ source[s] # None
                          /\ \/ source[s].identity = call[c].subject
                             \/ /\ account # None
                                /\ source[s].account = account.id}])
    /\ UNCHANGED rows
    /\ UNCHANGED <<account, ids, source, trouble>>
    /\ UNCHANGED history

\* _validate_google_source_access
Validate(c) ==
    /\ At(c, "validate") \/ At(c, "migrate")
    /\ \E S \in SUBSET call[c].rows :
          /\ Becomes(c, [call[c] EXCEPT
                            !.at = IF @ = "validate" THEN "save" ELSE "recheck",
                            !.verified = S])
          /\ proven' = proven \cup S \X {call[c].subject}
    /\ UNCHANGED rows
    /\ UNCHANGED <<account, ids, source, trouble, overtaken>>

\* The row of the user is inserted, or updated and keeps its id.
Upsert(c) ==
    /\ ids' = IF account = None THEN ids + 1 ELSE ids
    /\ account' = [id |-> IF account = None THEN ids + 1 ELSE account.id,
                   identity |-> call[c].subject,
                   refresh |-> call[c].refresh,
                   access |-> call[c].subject]

\* Variant: every source that was tried is attached, whatever Google said.
ApplyToAll(c) ==
    source' = [s \in Sources |->
                  IF s \in call[c].rows
                      THEN [account |-> account'.id,
                            identity |-> call[c].subject]
                      ELSE source[s]]

\* _apply_google_source_validation_results_in_connection
Apply(c) ==
    source' = [s \in Sources |->
                  IF s \in call[c].verified
                      THEN [account |-> account'.id,
                            identity |-> call[c].subject]
                  ELSE IF s \in call[c].rows /\ source[s] # None
                      THEN [source[s] EXCEPT !.account = None]
                      ELSE source[s]]

Save(c) ==
    LET o == call[c].op IN
    /\ At(c, "save")
    /\ Waiting(o)
    /\ Upsert(c)
    /\ Apply(c)
    /\ status' = [status EXCEPT ![o] = "connected"]
    /\ states' = states \ {o}
    /\ Finishes(c)
    /\ UNCHANGED <<live, late, candidate, lapsed, trouble>>
    /\ UNCHANGED history

SaveRefuses(c) ==
    /\ At(c, "save")
    /\ ~Waiting(call[c].op)
    /\ Goes(c, "fail")
    /\ UNCHANGED rows
    /\ UNCHANGED <<account, ids, source, trouble>>
    /\ UNCHANGED history

\* fail_google_drive_connect
Fail(c) ==
    /\ At(c, "fail")
    /\ EndPending(call[c].op, "error")
    /\ Finishes(c)
    /\ UNCHANGED <<live, late, candidate, lapsed, account, ids, source,
                   trouble>>
    /\ UNCHANGED history

-----------------------------------------------------------------------------
(* The answer to a candidate *)

\* The first section of confirm_google_account_candidate and of
\* cancel_google_account_candidate.
LoadCandidate(c, o, next) ==
    /\ At(c, "idle")
    /\ Active(o)
    /\ status' = CleanStatus
    /\ states' = states \ late
    /\ candidate' = CleanCandidates
    /\ Becomes(c, [Idle EXCEPT !.at = next, !.op = o,
                               !.subject = candidate[o].subject,
                               !.refresh = candidate[o].refresh])
    /\ UNCHANGED <<live, late, lapsed, account, ids, source, trouble>>
    /\ UNCHANGED history

ReadRows(c) ==
    /\ At(c, "rows")
    /\ Becomes(c, [call[c] EXCEPT
             !.at = "migrate",
             !.account = account,
             !.rows = {s \in Sources :
                          /\ source[s] # None /\ account # None
                          /\ \/ source[s].identity = account.identity
                             \/ source[s].account = account.id}])
    /\ UNCHANGED rows
    /\ UNCHANGED <<account, ids, source, trouble>>
    /\ UNCHANGED history

\* The second look at the candidate.  It is not yet part of the transaction,
\* which only begins with the first write.
Recheck(c) ==
    /\ At(c, "recheck")
    /\ IF Active(call[c].op) THEN Goes(c, "replace") ELSE Finishes(c)
    /\ UNCHANGED rows
    /\ UNCHANGED <<account, ids, source, trouble>>
    /\ UNCHANGED history

Replace(c) ==
    LET o == call[c].op IN
    /\ At(c, "replace")
    /\ Upsert(c)
    /\ Apply(c)
    /\ candidate' = Shut(candidate, {o})
    /\ status' = [status EXCEPT ![o] = IF @ = Mismatch THEN "connected" ELSE @]
    /\ Finishes(c)
    /\ UNCHANGED <<live, late, states, lapsed, trouble>>
    /\ UNCHANGED history

\* The second section of cancel_google_account_candidate.
DropCandidate(c) ==
    LET o == call[c].op IN
    /\ At(c, "drop")
    /\ candidate' = Shut(candidate, {o})
    /\ status' = [status EXCEPT ![o] = IF @ = Mismatch /\ candidate[o] # None
                                          THEN "cancelled" ELSE @]
    /\ Finishes(c)
    /\ UNCHANGED <<live, late, states, lapsed, account, ids, source, trouble>>
    /\ UNCHANGED history

-----------------------------------------------------------------------------
(* Tokens and sources *)

\* get_google_drive_account_access_token, also by account id
ReadAccount(c) ==
    /\ At(c, "idle")
    /\ account # None
    /\ Becomes(c, [Idle EXCEPT !.at = "token", !.account = account])
    /\ UNCHANGED rows
    /\ UNCHANGED <<account, ids, source, trouble>>
    /\ UNCHANGED history

\* _ensure_access_token: the token that was read has not expired,
UseToken(c) ==
    /\ At(c, "token")
    /\ Becomes(c, [call[c] EXCEPT !.at = "add",
                                  !.subject = call[c].account.access])
    /\ UNCHANGED rows
    /\ UNCHANGED <<account, ids, source, trouble>>
    /\ UNCHANGED history

\* or Google has given a new one, which is stored with the refresh token that
\* was read, wherever there is a row with that id.
StoreToken(c) ==
    LET read == call[c].account IN
    /\ At(c, "token")
    /\ IF account # None /\ account.id = read.id
          THEN /\ account' = [account EXCEPT !.refresh = read.refresh,
                                             !.access = read.refresh]
               /\ overtaken' = (overtaken \/ account.identity # read.identity)
          ELSE UNCHANGED <<account, overtaken>>
    /\ Becomes(c, [call[c] EXCEPT !.at = "add", !.subject = read.refresh])
    /\ UNCHANGED rows
    /\ UNCHANGED <<ids, source, trouble, proven>>

\* add_google_drive_library_source_record: Google shows the folder, and the
\* row refers to the account that was read, which must still exist.
AddSource(c, s) ==
    /\ At(c, "add")
    /\ source[s] = None
    /\ account # None
    /\ account.id = call[c].account.id
    /\ source' = [source EXCEPT ![s] = [account |-> call[c].account.id,
                                        identity |-> call[c].account.identity]]
    /\ proven' = proven \cup {<<s, call[c].subject>>}
    /\ Finishes(c)
    /\ UNCHANGED rows
    /\ UNCHANGED <<account, ids, trouble, overtaken>>

\* The token was for a synchronisation or a stream, or Google refuses.
EndCall(c) ==
    /\ At(c, "token") \/ At(c, "add")
    /\ Finishes(c)
    /\ UNCHANGED rows
    /\ UNCHANGED <<account, ids, source, trouble>>
    /\ UNCHANGED history

-----------------------------------------------------------------------------
(* Time, and the end of the process *)

OperationExpires(o) ==
    /\ status[o] \in Open
    /\ o \notin late
    /\ Trouble
    /\ late' = late \cup {o}
    /\ UNCHANGED <<live, status, states, candidate, lapsed, account, ids,
                   source, call>>
    /\ UNCHANGED history

CandidateExpires(o) ==
    /\ candidate[o] # None
    /\ o \notin lapsed
    /\ Trouble
    /\ lapsed' = lapsed \cup {o}
    /\ UNCHANGED <<live, status, late, states, candidate, account, ids, source,
                   call>>
    /\ UNCHANGED history

\* All requests are lost; init_db cleans up.
Restart ==
    /\ Trouble
    /\ call' = [c \in Calls |-> Idle]
    /\ status' = CleanStatus
    /\ states' = states \ late
    /\ candidate' = CleanCandidates
    /\ UNCHANGED <<live, late, lapsed, account, ids, source>>
    /\ UNCHANGED history

Callback(c) ==
    \/ \E o \in Operations : ReadState(c, o)
    \/ Exchange(c) \/ ExchangeFails(c)
    \/ CompareRefuses(c) \/ MakeCandidate(c) \/ ReadSources(c)
    \/ Validate(c)
    \/ Save(c) \/ SaveRefuses(c) \/ Fail(c)

Answer(c) ==
    \/ \E o \in Operations : \/ LoadCandidate(c, o, "rows")
                             \/ LoadCandidate(c, o, "drop")
    \/ ReadRows(c) \/ Recheck(c) \/ Replace(c) \/ DropCandidate(c)

UseAccount(c) ==
    \/ ReadAccount(c) \/ UseToken(c) \/ StoreToken(c)
    \/ \E s \in Sources : AddSource(c, s)
    \/ EndCall(c)

Next ==
    \/ \E c \in Calls : Callback(c) \/ Answer(c) \/ UseAccount(c)
    \/ \E o \in Operations : \/ Connect(o) \/ CancelOperation(o)
                             \/ CancelConnect(o)
                             \/ OperationExpires(o) \/ CandidateExpires(o)
    \/ \E x \in Sessions : Logout(x)
    \/ CleanUp \/ Disconnect \/ Restart

Spec == Init /\ [][Next]_vars

-----------------------------------------------------------------------------
(* Properties *)

\* The tokens in the row belong to the account at Google that the row names,
\* whoever connected, confirmed or refreshed in between; only a refresh that
\* was still under way while its account was replaced stores the tokens of the
\* old one (cloud_provider_auth_service.py:1307).
TokensBelongToAccount ==
    account # None /\ ~overtaken =>
        account.refresh = account.identity /\ account.access = account.identity

\* A source is attached under an identity only if Google has shown its folder
\* to that very account: the results of a validation and of an addition are
\* never filed under somebody else, however late they come.
SourcesWereVerified ==
    ~overtaken =>
        \A s \in Sources :
            source[s] # None /\ source[s].account # None
                => <<s, source[s].identity>> \in proven

\* The request c may now make the account at Google g that of the user: the
\* user has confirmed it, or its operation is pending, still valid, and has
\* compared g with the account that is there.
MayConnect(c, g) ==
    /\ call[c].subject = g
    /\ \/ At(c, "replace")
       \/ /\ At(c, "save")
          /\ Waiting(call[c].op)
          /\ call[c].account = account => account = None \/ account.identity = g

\* An account appears, or gives way to another one, only by a request that may
\* do so: a connection that was cancelled, has expired, or was wiped out by a
\* disconnect or a logout changes nothing, a refresh does not bring back what
\* was disconnected, and nobody replaces the very account he compared with
\* unless the user has said so.
AccountChangesWereAsked ==
    [][ account' # None /\ (account = None \/ account'.identity # account.identity)
           => \E c \in Calls : MayConnect(c, account'.identity) ]_vars
=============================================================================
