------------------------- MODULE AccessGrantsProofs -------------------------
(***************************************************************************)
(* Proofs about AccessGrants: its types, that grants follow what they were *)
(* made from, and that external playback is left alone by all else.        *)
(*                                                                         *)
(* What no step may do to users and logins is said once (UsersKeep,        *)
(* LoginsKeep), and so is what it may do to a grant that stands            *)
(* (GrantKept); the invariant needs of a step no more than these.          *)
(***************************************************************************)
EXTENDS AccessGrants, TLAPS

Standing == {"open", "lapsed"}

\* Of every login there is a user, once created.
LoginOk(s) ==
    sessions[s].state # "none" =>
        /\ sessions[s].user \in Users
        /\ users[sessions[s].user].role # "none"

\* A request that authenticated is of the user of its login, and unless all
\* that user had has ended since, the user is enabled.
RequestOk(r) ==
    LET held == requests[r] IN
    /\ held.at # "idle" =>
           /\ held.user \in Users
           /\ users[held.user].role # "none"
    /\ held.at \in {"insert", "backend"} =>
           /\ held.kind \in Kinds
           /\ held.session \in Logins
           /\ sessions[held.session].state # "none"
           /\ sessions[held.session].user = held.user
           /\ held.bounds <= users[held.user].bounds
           /\ held.bounds = users[held.user].bounds => users[held.user].enabled

\* An update that disables its user is one that ends all the user had.
UpdateOk(w) ==
    LET held == updates[w] IN
    /\ held.at \notin {"idle", "maintain"} =>
           /\ held.user \in Users
           /\ users[held.user].role # "none"
    /\ held.at = "update" =>
           /\ held.role \in Roles
           /\ held.enabled \/ held.cuts

GrantOk(g) ==
    grants[g].state \in Standing =>
        /\ grants[g].kind \in Kinds
        /\ grants[g].user \in Users
        /\ users[grants[g].user].role # "none"
        /\ grants[g].session \in Logins
        /\ sessions[grants[g].session].state # "none"
        /\ sessions[grants[g].session].user = grants[g].user
        /\ ~grants[g].late =>
               /\ grants[g].bounds = users[grants[g].user].bounds
               /\ users[grants[g].user].enabled
               /\ sessions[grants[g].session].reason
                      \in EndsThatSpare(grants[g].kind)

\* The inductive invariant.
Inv ==
    /\ TypeOK
    /\ \A s \in Logins : LoginOk(s)
    /\ \A r \in Requests : RequestOk(r)
    /\ \A w \in Updates : UpdateOk(w)
    /\ \A g \in Grants : GrantOk(g)

\* A step may not take a user back to before its creation, count its changes
\* down, or disable it without a change that counts.
UsersKeep ==
    \A u \in Users :
        /\ users'[u].bounds >= users[u].bounds
        /\ users[u].role # "none" =>
               /\ users'[u].role # "none"
               /\ users[u].enabled /\ users'[u].bounds = users[u].bounds
                      => users'[u].enabled

\* A login stays that of its user.
LoginsKeep ==
    \A s \in Logins :
        /\ sessions[s].state # "none" =>
               /\ sessions'[s].state # "none"
               /\ sessions'[s].user = sessions[s].user
        /\ sessions'[s].state # "none" /\ sessions[s].state = "none" =>
               /\ sessions'[s].user \in Users
               /\ users[sessions'[s].user].role # "none"

\* A grant that stands after a step stood before it, and the step ended
\* neither all of its user nor, for its kind, its login.
GrantKept(g) ==
    grants'[g].state \in Standing =>
        /\ grants[g].state \in Standing
        /\ grants'[g].kind = grants[g].kind
        /\ grants'[g].user = grants[g].user
        /\ grants'[g].session = grants[g].session
        /\ grants'[g].bounds = grants[g].bounds
        /\ grants'[g].late = grants[g].late
        /\ users'[grants[g].user].bounds = users[grants[g].user].bounds
        /\ \/ sessions'[grants[g].session].reason
                  = sessions[grants[g].session].reason
           \/ sessions'[grants[g].session].reason
                  \in EndsThatSpare(grants[g].kind)

Kept == UsersKeep /\ LoginsKeep /\ \A g \in Grants : GrantKept(g)

-----------------------------------------------------------------------------
\* Types.

LEMMA RevokeType ==
    ASSUME TypeOK, NEW S, Revoke(S)
    PROVE  grants' \in [Grants -> GrantRows]
  <1>1. Over("revoked") \in GrantRows
    BY DEF Over, GrantRows
  <1>2. \A g \in Grants : grants[g] \in GrantRows
    BY DEF TypeOK
  <1> QED BY <1>1, <1>2 DEF Revoke

LEMMA EndLoginsType ==
    ASSUME TypeOK, NEW L, NEW state \in {"expired", "revoked", "gone"},
           NEW reason \in Reasons, EndLogins(L, state, reason)
    PROVE  sessions' \in [Logins -> SessionRows]
  <1>1. \A s \in Logins : sessions[s] \in SessionRows
    BY DEF TypeOK
  <1>2. ASSUME NEW s \in Logins
        PROVE  [sessions[s] EXCEPT !.state = state, !.reason = reason]
                   \in SessionRows
    BY <1>1 DEF SessionRows, Unrevoked
  <1> QED BY <1>1, <1>2 DEF EndLogins

LEMMA BoundaryType ==
    ASSUME TypeOK, NEW u, Boundary(u)
    PROVE  /\ sessions' \in [Logins -> SessionRows]
           /\ grants' \in [Grants -> GrantRows]
  <1>1. EndLogins(LoginsOf(u), "revoked", "ended") /\ Revoke(GrantsOf(u))
    BY DEF Boundary
  <1>2. "ended" \in Reasons
    BY DEF Reasons
  <1> QED BY <1>1, <1>2, RevokeType, EndLoginsType

LEMMA LoginStepsType ==
    ASSUME TypeOK, LoginSteps PROVE TypeOK'
  <1>1. ASSUME NEW r \in Requests, NEW u \in Users, LoginStart(r, u)
        PROVE  TypeOK'
    <2>1. [Idle EXCEPT !.at = "login", !.user = u] \in RequestStates
      BY DEF Idle, RequestStates
    <2> QED BY <1>1, <2>1 DEF LoginStart, TypeOK, Becomes
  <1>2. ASSUME NEW r \in Requests, NEW s \in Logins, LoginInsert(r, s)
        PROVE  TypeOK'
    <2>1. Idle \in RequestStates
      BY DEF Idle, RequestStates
    <2>2. requests[r].user \in Users \cup {None}
      BY DEF TypeOK, RequestStates
    <2>3. [state |-> "live", user |-> requests[r].user, reason |-> "none"]
              \in SessionRows
      BY <2>2 DEF SessionRows, Unrevoked, Reasons
    <2> QED BY <1>2, <2>1, <2>3 DEF LoginInsert, TypeOK, Finishes, Becomes
  <1>3. ASSUME NEW r \in Requests, InsertFails(r)
        PROVE  TypeOK'
    <2>1. Idle \in RequestStates
      BY DEF Idle, RequestStates
    <2> QED BY <1>3, <2>1 DEF InsertFails, TypeOK, Finishes, Becomes
  <1>4. ASSUME NEW s \in Logins, LoginExpires(s)
        PROVE  TypeOK'
    <2>1. EndLogins({s}, "expired", "expired") /\ "expired" \in Reasons
      BY <1>4 DEF LoginExpires, Reasons
    <2> QED BY <1>4, <2>1, EndLoginsType DEF LoginExpires, TypeOK
  <1>5. "ended" \in Reasons /\ "admin_revoked" \in Reasons
    BY DEF Reasons
  <1>6. ASSUME NEW s \in Logins, AuthExpires(s)
        PROVE  TypeOK'
    <2>1. EndLogins({s}, "gone", "ended")
      BY <1>6 DEF AuthExpires
    <2>2. PICK S : Revoke(S)
      BY <1>6 DEF AuthExpires
    <2> QED BY <1>6, <2>1, <2>2, <1>5, RevokeType, EndLoginsType
            DEF AuthExpires, TypeOK
  <1>7. ASSUME NEW s \in Logins, ForgetLogin(s)
        PROVE  TypeOK'
    <2>1. sessions' \in [Logins -> SessionRows]
      <3>1. EndLogins({s}, "gone", "forgotten") /\ "forgotten" \in Reasons
        BY <1>7 DEF ForgetLogin, Reasons
      <3> QED BY <3>1, EndLoginsType
    <2>2. PICK S : Revoke(S)
      BY <1>7 DEF ForgetLogin
    <2> QED BY <1>7, <2>1, <2>2, RevokeType DEF ForgetLogin, TypeOK
  <1>8. ASSUME NEW s \in Logins, Logout(s)
        PROVE  TypeOK'
    <2>1. EndLogins({s}, "revoked", "ended")
      BY <1>8 DEF Logout
    <2>2. PICK S : Revoke(S)
      BY <1>8 DEF Logout
    <2> QED BY <1>8, <2>1, <2>2, <1>5, RevokeType, EndLoginsType
            DEF Logout, TypeOK
  <1>9. ASSUME NEW s \in Logins, NEW a \in Users, RevokeLogin(a, s)
        PROVE  TypeOK'
    <2>1. EndLogins({s}, "revoked", "admin_revoked")
      BY <1>9 DEF RevokeLogin
    <2>2. PICK S : Revoke(S)
      BY <1>9 DEF RevokeLogin
    <2> QED BY <1>9, <2>1, <2>2, <1>5, RevokeType, EndLoginsType
            DEF RevokeLogin, TypeOK
  <1> QED BY <1>1, <1>2, <1>3, <1>4, <1>6, <1>7, <1>8, <1>9 DEF LoginSteps

LEMMA GrantStepsType ==
    ASSUME TypeOK, \A s \in Logins : LoginOk(s), GrantSteps
    PROVE  TypeOK'
  <1>1. ASSUME NEW r \in Requests, NEW s \in Logins, NEW kind \in Kinds,
               NEW place \in {"insert", "backend"},
               Authenticate(r, s, place, kind)
        PROVE  TypeOK'
    <2>1. sessions[s].user \in Users
      BY <1>1 DEF Authenticate, LoginOk
    <2>2. users[sessions[s].user].bounds \in Nat
      BY <2>1 DEF TypeOK, UserRows
    <2>3. [Idle EXCEPT !.at = place, !.user = sessions[s].user, !.session = s,
                       !.kind = kind,
                       !.bounds = users[sessions[s].user].bounds]
              \in RequestStates
      BY <2>1, <2>2 DEF Idle, RequestStates
    <2> QED BY <1>1, <2>3 DEF Authenticate, TypeOK, Becomes
  <1>2. ASSUME NEW r \in Requests, NEW g \in Grants, InsertGrant(r, g)
        PROVE  TypeOK'
    <2>1. requests[r] \in RequestStates
      BY DEF TypeOK
    <2>2. NewGrant(requests[r]) \in GrantRows
      BY <2>1 DEF NewGrant, GrantRows, RequestStates
    <2>3. Idle \in RequestStates
      BY DEF Idle, RequestStates
    <2>4. [requests[r] EXCEPT !.at = "insert", !.kind = "handoff"]
              \in RequestStates
      BY <2>1 DEF RequestStates, Kinds
    <2>5. requests' \in [Requests -> RequestStates]
      BY <1>2, <2>3, <2>4 DEF InsertGrant, Finishes, Becomes, TypeOK
    <2> QED BY <1>2, <2>2, <2>5 DEF InsertGrant, TypeOK
  <1>3. ASSUME NEW g \in Grants, CloseGrant(g)
        PROVE  TypeOK'
    <2>1. Over("closed") \in GrantRows
      BY DEF Over, GrantRows
    <2> QED BY <1>3, <2>1 DEF CloseGrant, TypeOK
  <1>4. ASSUME NEW g \in Grants, Expire(g)
        PROVE  TypeOK'
    <2>1. Over("closed") \in GrantRows
      BY DEF Over, GrantRows
    <2>2. [grants[g] EXCEPT !.state = "lapsed"] \in GrantRows
      BY DEF TypeOK, GrantRows
    <2> QED BY <1>4, <2>1, <2>2 DEF Expire, TypeOK
  <1>5. ASSUME NEW g \in Grants, \/ StartStream(g)
                                 \/ IntervalPasses(g)
                                 \/ Chunk(g)
                                 \/ StreamEnds(g)
        PROVE  TypeOK'
    <2>1. streams' \in [Grants -> {"none", "checked", "due"}]
      BY <1>5 DEF StartStream, IntervalPasses, Chunk, StreamEnds, TypeOK
    <2> QED BY <1>5, <2>1
            DEF StartStream, IntervalPasses, Chunk, StreamEnds, TypeOK
  <1> QED BY <1>1, <1>2, <1>3, <1>4, <1>5 DEF GrantSteps

LEMMA UserStepsType ==
    ASSUME TypeOK, \A w \in Updates : UpdateOk(w), UserSteps
    PROVE  TypeOK'
  <1> USE AccessConstants
  <1>1. NoUpdate \in UpdateStates
    BY DEF NoUpdate, UpdateStates
  <1>2. ASSUME NEW a \in Users, NEW u \in Users, NEW role \in Roles,
               NEW enabled \in BOOLEAN, CreateUser(a, u, role, enabled)
        PROVE  TypeOK'
    BY <1>2 DEF CreateUser, TypeOK, UserRows
  <1>3. ASSUME NEW w \in Updates, NEW a \in Users, NEW u \in Users,
               NEW role \in Roles, NEW enabled \in BOOLEAN,
               UpdateRead(w, a, u, role, enabled)
        PROVE  TypeOK'
    <2>1. [NoUpdate EXCEPT !.at = "update", !.user = u, !.role = role,
                           !.enabled = enabled,
                           !.cuts = role # users[u].role \/ ~enabled]
              \in UpdateStates
      BY DEF NoUpdate, UpdateStates
    <2>2. trouble' \in 0..MaxTrouble
      BY <1>3 DEF UpdateRead, Trouble, TypeOK
    <2> QED BY <1>3, <2>1, <2>2 DEF UpdateRead, Holds, TypeOK
  <1>4. ASSUME NEW a \in Users, NEW u \in Users, ChangePassword(a, u)
        PROVE  TypeOK'
    <2>1. users' \in [Users -> UserRows]
      BY <1>4 DEF ChangePassword, TypeOK, UserRows
    <2>2. trouble' \in 0..MaxTrouble
      BY <1>4 DEF ChangePassword, Trouble, TypeOK
    <2>3. Boundary(u)
      BY <1>4 DEF ChangePassword
    <2> QED BY <1>4, <2>1, <2>2, <2>3, BoundaryType DEF ChangePassword, TypeOK
  <1>5. ASSUME NEW a \in Users, NEW u \in Users, NEW S \in SUBSET Grants,
               ChangeDownloadAccess(a, u, S)
        PROVE  TypeOK'
    <2>1. Revoke(S)
      BY <1>5 DEF ChangeDownloadAccess
    <2> QED BY <1>5, <2>1, RevokeType DEF ChangeDownloadAccess, TypeOK
  <1>6. ASSUME NEW w \in Updates, NEW a \in Users, NEW u \in Users,
               DeleteRead(w, a, u)
        PROVE  TypeOK'
    <2>1. [NoUpdate EXCEPT !.at = IF a = u THEN "self" ELSE "delete",
                           !.user = u]
              \in UpdateStates
      BY DEF NoUpdate, UpdateStates
    <2>2. trouble' \in 0..MaxTrouble
      BY <1>6 DEF DeleteRead, Trouble, TypeOK
    <2> QED BY <1>6, <2>1, <2>2 DEF DeleteRead, Holds, TypeOK
  <1>7. ASSUME NEW w \in Updates, UpdateWrite(w)
        PROVE  TypeOK'
    <2> DEFINE u == updates[w].user
    <2>1. /\ updates[w] \in UpdateStates
          /\ updates[w].at = "update" => u \in Users /\ users[u] \in UserRows
      BY DEF TypeOK, UpdateOk
    <2>2. updates' \in [Updates -> UpdateStates]
      BY <1>7, <1>1 DEF UpdateWrite, Holds, TypeOK
    <2>3. users' \in [Users -> UserRows]
      BY <1>7, <2>1 DEF UpdateWrite, TypeOK, UserRows, UpdateStates
    <2>4. Boundary(u) \/ UNCHANGED <<sessions, grants>>
      BY <1>7 DEF UpdateWrite
    <2>5. /\ sessions' \in [Logins -> SessionRows]
          /\ grants' \in [Grants -> GrantRows]
      BY <2>4, BoundaryType DEF TypeOK
    <2> QED BY <1>7, <2>2, <2>3, <2>5 DEF UpdateWrite, TypeOK
  <1>8. ASSUME NEW w \in Updates, DeleteWrite(w)
        PROVE  TypeOK'
    <2> DEFINE u == updates[w].user
    <2>0. u \in Users /\ users[u] \in UserRows
      BY <1>8 DEF DeleteWrite, TypeOK, UpdateOk
    <2>a. [users[u] EXCEPT !.role = "gone", !.bounds = users[u].bounds + 1]
              \in UserRows
      <3>1. users[u].bounds + 1 \in Nat
        BY <2>0 DEF UserRows
      <3>2. ASSUME NEW row \in UserRows, NEW n \in Nat
            PROVE  [row EXCEPT !.role = "gone", !.bounds = n] \in UserRows
        BY DEF UserRows, Roles
      <3> QED BY <2>0, <3>1, <3>2
    <2>b. users' = [users EXCEPT ![u] =
                       [users[u] EXCEPT !.role = "gone",
                                        !.bounds = users[u].bounds + 1]]
      BY <1>8, <2>0 DEF DeleteWrite, TypeOK
    <2>1. users' \in [Users -> UserRows]
      BY <2>0, <2>a, <2>b DEF TypeOK
    <2>2. Revoke(GrantsOf(u))
      BY <1>8 DEF DeleteWrite
    <2>3. ASSUME NEW s \in Logins
          PROVE  /\ sessions[s] \in SessionRows
                 /\ [sessions[s] EXCEPT
                        !.state = "gone",
                        !.reason = IF sessions[s].state \in Unrevoked
                                       THEN "ended"
                                       ELSE sessions[s].reason]
                        \in SessionRows
      BY DEF TypeOK, SessionRows, Reasons
    <2>4. sessions' \in [Logins -> SessionRows]
      BY <1>8, <2>3 DEF DeleteWrite
    <2>5. updates' \in [Updates -> UpdateStates]
      BY <1>8, <1>1 DEF DeleteWrite, Holds, TypeOK
    <2> QED BY <1>8, <2>1, <2>2, <2>4, <2>5, RevokeType DEF DeleteWrite, TypeOK
  <1>9. ASSUME NEW w \in Updates, SelfRevoke(w)
        PROVE  TypeOK'
    <2>0. updates[w].user \in Users /\ users[updates[w].user] \in UserRows
      BY <1>9 DEF SelfRevoke, TypeOK, UpdateOk
    <2>a. [users[updates[w].user] EXCEPT !.bounds = users[updates[w].user].bounds + 1]
              \in UserRows
      BY <2>0 DEF UserRows
    <2>b. users' = [users EXCEPT ![updates[w].user] =
                       [users[updates[w].user] EXCEPT
                           !.bounds = users[updates[w].user].bounds + 1]]
      BY <1>9, <2>0 DEF SelfRevoke, TypeOK
    <2>1. users' \in [Users -> UserRows]
      BY <2>0, <2>a, <2>b DEF TypeOK
    <2>2. PICK u : Boundary(u)
      BY <1>9 DEF SelfRevoke
    <2>3. updates' \in [Updates -> UpdateStates]
      BY <1>9 DEF SelfRevoke, Holds, TypeOK, UpdateStates
    <2> QED BY <1>9, <2>1, <2>2, <2>3, BoundaryType DEF SelfRevoke, TypeOK
  <1>10. ASSUME NEW w \in Updates, SelfErase(w)
        PROVE  TypeOK'
    <2>1. users' \in [Users -> UserRows]
      BY <1>10 DEF SelfErase, TypeOK, UserRows
    <2>2. sessions' \in [Logins -> SessionRows]
      BY <1>10 DEF SelfErase, TypeOK, SessionRows
    <2>3. Over("closed") \in GrantRows
      BY DEF Over, GrantRows
    <2>4. grants' \in [Grants -> GrantRows]
      BY <1>10, <2>3 DEF SelfErase, TypeOK
    <2>5. updates' \in [Updates -> UpdateStates]
      BY <1>10, <1>1 DEF SelfErase, Holds, TypeOK
    <2> QED BY <1>10, <2>1, <2>2, <2>4, <2>5 DEF SelfErase, TypeOK
  <1> QED BY <1>2, <1>3, <1>4, <1>5, <1>6, <1>7, <1>8, <1>9, <1>10 DEF UserSteps

LEMMA ServerStepsType ==
    ASSUME TypeOK, ServerSteps PROVE TypeOK'
  <1> USE AccessConstants
  <1>1. ASSUME NEW w \in Updates, NEW a \in Users, LockServer(w, a)
        PROVE  TypeOK'
    <2>1. [NoUpdate EXCEPT !.at = "maintain"] \in UpdateStates
      BY DEF NoUpdate, UpdateStates
    <2>2. trouble' \in 0..MaxTrouble
      BY <1>1 DEF LockServer, Trouble, TypeOK
    <2> QED BY <1>1, <2>1, <2>2 DEF LockServer, Holds, TypeOK
  <1>2. ASSUME NEW w \in Updates, MaintenanceRevoke(w)
        PROVE  TypeOK'
    <2>1. NoUpdate \in UpdateStates /\ "maintenance_mode" \in Reasons
      BY DEF NoUpdate, UpdateStates, Reasons
    <2>2. PICK L : EndLogins(L, "revoked", "maintenance_mode")
      BY <1>2 DEF MaintenanceRevoke
    <2>3. PICK S : Revoke(S)
      BY <1>2 DEF MaintenanceRevoke
    <2>4. sessions' \in [Logins -> SessionRows]
      BY <2>1, <2>2, EndLoginsType
    <2>5. updates' \in [Updates -> UpdateStates]
      BY <1>2, <2>1 DEF MaintenanceRevoke, Holds, TypeOK
    <2> QED BY <1>2, <2>3, <2>4, <2>5, RevokeType DEF MaintenanceRevoke, TypeOK
  <1>3. ASSUME NEW a \in Users, UnlockServer(a)
        PROVE  TypeOK'
    BY <1>3 DEF UnlockServer, TypeOK
  <1>4. ASSUME RotatePrefix
        PROVE  TypeOK'
    <2>0. ASSUME NEW u \in Users
          PROVE  [users[u] EXCEPT !.bounds = users[u].bounds + 1] \in UserRows
      BY DEF TypeOK, UserRows
    <2>1. users' \in [Users -> UserRows]
      BY <1>4, <2>0 DEF RotatePrefix
    <2>2. sessions' \in [Logins -> SessionRows]
      BY <1>4 DEF RotatePrefix, TypeOK, SessionRows
    <2>3. trouble' \in 0..MaxTrouble
      BY <1>4 DEF RotatePrefix, Trouble, TypeOK
    <2>4. Revoke(Grants)
      BY <1>4 DEF RotatePrefix
    <2> QED BY <1>4, <2>1, <2>2, <2>3, <2>4, RevokeType DEF RotatePrefix, TypeOK
  <1> QED BY <1>1, <1>2, <1>3, <1>4 DEF ServerSteps

-----------------------------------------------------------------------------
\* What the revocations leave.

LEMMA RevokeLeaves ==
    ASSUME TypeOK, NEW S, Revoke(S), NEW g \in Grants,
           grants'[g].state \in Standing
    PROVE  /\ grants'[g] = grants[g]
           /\ grants[g].state \in Standing
           /\ g \notin S
  <1>1. grants'[g] = IF g \in S /\ grants[g].state \in {"open", "lapsed"}
                         THEN Over("revoked")
                         ELSE grants[g]
    BY DEF Revoke
  <1>2. Over("revoked").state = "revoked"
    BY DEF Over
  <1> QED BY <1>1, <1>2 DEF Standing

LEMMA EndLoginsLeaves ==
    ASSUME TypeOK, NEW L, NEW state \in {"expired", "revoked", "gone"}, NEW reason,
           EndLogins(L, state, reason), NEW s \in Logins
    PROVE  /\ sessions'[s].user = sessions[s].user
           /\ sessions[s].state # "none" <=> sessions'[s].state # "none"
           /\ \/ sessions'[s].reason = sessions[s].reason
              \/ s \in L /\ sessions'[s].reason = reason
  <1>1. sessions'[s] = IF s \in L /\ sessions[s].state \in Unrevoked
                           THEN [sessions[s] EXCEPT !.state = state,
                                                    !.reason = reason]
                           ELSE sessions[s]
    BY DEF EndLogins
  <1>2. sessions[s] \in SessionRows
    BY DEF TypeOK
  <1>3. CASE s \in L /\ sessions[s].state \in Unrevoked
    <2>1. /\ sessions'[s].user = sessions[s].user
          /\ sessions'[s].state = state
          /\ sessions'[s].reason = reason
      BY <1>1, <1>2, <1>3 DEF SessionRows
    <2> QED BY <1>3, <2>1 DEF Unrevoked
  <1>4. CASE ~(s \in L /\ sessions[s].state \in Unrevoked)
    BY <1>1, <1>4
  <1> QED BY <1>3, <1>4

\* The end of logins with the grants of some kinds made from them: the other
\* kinds must be those that this reason spares.
LEMMA EndKeeps ==
    ASSUME Inv, NEW L \in SUBSET Logins,
           NEW state \in {"expired", "revoked", "gone"},
           NEW reason \in Reasons, NEW kinds,
           EndLogins(L, state, reason), Revoke(GrantedFrom(L, kinds)),
           \A kind \in Kinds \ kinds : reason \in EndsThatSpare(kind),
           users' = users
    PROVE  Kept
  <1>1. UsersKeep
    BY DEF UsersKeep, Inv, TypeOK, UserRows
  <1>2. LoginsKeep
    BY EndLoginsLeaves DEF LoginsKeep, Inv
  <1>3. ASSUME NEW g \in Grants, grants'[g].state \in Standing
        PROVE  GrantKept(g)
    <2>1. /\ grants'[g] = grants[g]
          /\ grants[g].state \in Standing
          /\ g \notin GrantedFrom(L, kinds)
      BY <1>3, RevokeLeaves DEF Inv
    <2>2. grants[g].kind \in Kinds /\ grants[g].session \in Logins
      BY <2>1 DEF Inv, GrantOk
    <2> DEFINE s == grants[g].session
    <2>3. \/ sessions'[s].reason = sessions[s].reason
          \/ s \in L /\ sessions'[s].reason = reason
      BY <2>2, EndLoginsLeaves DEF Inv
    <2>4. s \in L => grants[g].kind \notin kinds
      BY <2>1 DEF GrantedFrom
    <2> QED BY <2>1, <2>2, <2>3, <2>4 DEF GrantKept
  <1>4. \A g \in Grants : GrantKept(g)
    BY <1>3 DEF GrantKept
  <1> QED BY <1>1, <1>2, <1>4 DEF Kept

\* A step that counts for one user and ends all that user has.
LEMMA BoundaryKeeps ==
    ASSUME Inv, NEW u \in Users, Boundary(u), UsersKeep,
           \A v \in Users \ {u} : users'[v] = users[v]
    PROVE  Kept
  <1>1. EndLogins(LoginsOf(u), "revoked", "ended") /\ Revoke(GrantsOf(u))
    BY DEF Boundary
  <1>2. LoginsKeep
    BY <1>1, EndLoginsLeaves DEF LoginsKeep, Inv
  <1>3. ASSUME NEW g \in Grants, grants'[g].state \in Standing
        PROVE  GrantKept(g)
    <2>1. /\ grants'[g] = grants[g]
          /\ grants[g].state \in Standing
          /\ g \notin GrantsOf(u)
      BY <1>1, <1>3, RevokeLeaves DEF Inv
    <2>2. /\ grants[g].user \in Users \ {u}
          /\ grants[g].session \in Logins
          /\ sessions[grants[g].session].user = grants[g].user
      BY <2>1 DEF Inv, GrantOk, GrantsOf
    <2>3. sessions'[grants[g].session].reason
              = sessions[grants[g].session].reason
      BY <1>1, <2>2, EndLoginsLeaves DEF LoginsOf, Inv
    <2> QED BY <2>1, <2>2, <2>3 DEF GrantKept
  <1>4. \A g \in Grants : GrantKept(g)
    BY <1>3 DEF GrantKept
  <1> QED BY <1>2, <1>4 DEF Kept

\* A step that only takes grants away.
LEMMA FewerKeeps ==
    ASSUME Inv, users' = users,
           \A s \in Logins : /\ sessions'[s].user = sessions[s].user
                             /\ sessions'[s].reason = sessions[s].reason
                             /\ sessions[s].state # "none"
                                    <=> sessions'[s].state # "none",
           \A g \in Grants : grants'[g].state \in Standing =>
               /\ grants[g].state \in Standing
               /\ grants'[g].kind = grants[g].kind
               /\ grants'[g].user = grants[g].user
               /\ grants'[g].session = grants[g].session
               /\ grants'[g].bounds = grants[g].bounds
               /\ grants'[g].late = grants[g].late
    PROVE  Kept
  <1>1. UsersKeep
    BY DEF UsersKeep, Inv, TypeOK, UserRows
  <1>2. LoginsKeep
    BY DEF LoginsKeep
  <1>3. \A g \in Grants : GrantKept(g)
    BY DEF GrantKept, Inv, GrantOk
  <1> QED BY <1>1, <1>2, <1>3 DEF Kept

-----------------------------------------------------------------------------
\* What each step leaves.

LEMMA StillKeeps ==
    ASSUME Inv, UNCHANGED <<users, sessions, grants>>
    PROVE  Kept
  BY FewerKeeps

LEMMA LoginStepsKeep ==
    ASSUME Inv, LoginSteps
    PROVE  Kept
  <1>1. ASSUME NEW r \in Requests, NEW u \in Users, LoginStart(r, u)
        PROVE  Kept
    BY <1>1, StillKeeps DEF LoginStart
  <1>2. ASSUME NEW r \in Requests, NEW s \in Logins, LoginInsert(r, s)
        PROVE  Kept
    <2> DEFINE u == requests[r].user
    <2>1. u \in Users /\ users[u].role # "none"
      BY <1>2 DEF Inv, RequestOk, LoginInsert, At
    <2>2. /\ sessions[s].state = "none"
          /\ sessions' = [sessions EXCEPT ![s] =
                             [state |-> "live", user |-> u, reason |-> "none"]]
          /\ users' = users
          /\ grants' = grants
      BY <1>2 DEF LoginInsert
    <2>3. LoginsKeep
      BY <2>1, <2>2 DEF LoginsKeep, Inv, TypeOK
    <2>4. UsersKeep
      BY <2>2 DEF UsersKeep, Inv, TypeOK, UserRows
    <2>5. \A g \in Grants : GrantKept(g)
      BY <2>2 DEF GrantKept, Inv, GrantOk, TypeOK
    <2> QED BY <2>3, <2>4, <2>5 DEF Kept
  <1>3. ASSUME NEW r \in Requests, InsertFails(r)
        PROVE  Kept
    BY <1>3, StillKeeps DEF InsertFails
  <1>4. ASSUME NEW s \in Logins, LoginExpires(s)
        PROVE  Kept
    <2>1. EndLogins({s}, "expired", "expired") /\ users' = users
      BY <1>4 DEF LoginExpires
    <2>2. Revoke(GrantedFrom({s}, {}))
      BY <1>4 DEF LoginExpires, Revoke, GrantedFrom, Inv, TypeOK
    <2>3. /\ "expired" \in Reasons
          /\ \A kind \in Kinds \ {} : "expired" \in EndsThatSpare(kind)
      BY DEF Kinds, EndsThatSpare, Reasons
    <2> QED BY <2>1, <2>2, <2>3, EndKeeps
  <1>5. \A kind \in Kinds \ {"coupled", "handoff", "download"} :
            "ended" \in EndsThatSpare(kind)
    BY DEF Kinds, EndsThatSpare, Reasons
  <1>6. "ended" \in Reasons /\ "admin_revoked" \in Reasons
    BY DEF Reasons
  <1>7. ASSUME NEW s \in Logins, AuthExpires(s)
        PROVE  Kept
    BY <1>5, <1>6, <1>7, EndKeeps DEF AuthExpires
  <1>8. ASSUME NEW s \in Logins, ForgetLogin(s)
        PROVE  Kept
    <2>1. /\ EndLogins({s}, "gone", "forgotten") /\ users' = users
          /\ Revoke(GrantedFrom({s}, {"download"}))
      BY <1>8 DEF ForgetLogin
    <2>2. /\ "forgotten" \in Reasons
          /\ \A kind \in Kinds \ {"download"} : "forgotten" \in EndsThatSpare(kind)
      BY DEF Kinds, EndsThatSpare, Reasons
    <2> QED BY <2>1, <2>2, EndKeeps
  <1>9. ASSUME NEW s \in Logins, Logout(s)
        PROVE  Kept
    BY <1>5, <1>6, <1>9, EndKeeps DEF Logout
  <1>10. ASSUME NEW s \in Logins, NEW a \in Users, RevokeLogin(a, s)
         PROVE  Kept
    <2>1. Kinds \ KindsEndedBy("admin_revoked") = {}
      BY DEF Kinds, KindsEndedBy
    <2> QED BY <1>6, <1>10, <2>1, EndKeeps DEF RevokeLogin
  <1> QED BY <1>1, <1>2, <1>3, <1>4, <1>7, <1>8, <1>9, <1>10 DEF LoginSteps

LEMMA GrantStepsKeep ==
    ASSUME Inv, GrantSteps,
           ~ \E r \in Requests, g \in Grants : InsertGrant(r, g)
    PROVE  Kept
  <1>1. ASSUME NEW r \in Requests, NEW s \in Logins, NEW kind \in Kinds,
               NEW place \in {"insert", "backend"},
               Authenticate(r, s, place, kind)
        PROVE  Kept
    BY <1>1, StillKeeps DEF Authenticate
  <1>2. ASSUME NEW g \in Grants, CloseGrant(g)
        PROVE  Kept
    <2>1. \A x \in Grants : grants'[x].state \in Standing =>
              grants'[x] = grants[x] /\ grants[x].state \in Standing
      BY <1>2 DEF CloseGrant, Over, Standing, Inv, TypeOK
    <2> QED BY <1>2, <2>1, FewerKeeps DEF CloseGrant
  <1>3. ASSUME NEW g \in Grants, Expire(g)
        PROVE  Kept
    <2>1. grants[g].state = "open" /\ grants[g] \in GrantRows
      BY <1>3 DEF Expire, Inv, TypeOK
    <2>2. /\ \A x \in Grants \ {g} : grants'[x] = grants[x]
          /\ grants'[g] = IF grants[g].kind = "download"
                              THEN [grants[g] EXCEPT !.state = "lapsed"]
                              ELSE Over("closed")
      BY <1>3 DEF Expire, Inv, TypeOK
    <2>3. grants'[g].state \in Standing =>
              /\ grants'[g].kind = grants[g].kind
              /\ grants'[g].user = grants[g].user
              /\ grants'[g].session = grants[g].session
              /\ grants'[g].bounds = grants[g].bounds
              /\ grants'[g].late = grants[g].late
      <3>1. CASE grants[g].kind = "download"
        <4>1. grants'[g] = [grants[g] EXCEPT !.state = "lapsed"]
          BY <2>2, <3>1
        <4> QED BY <2>1, <4>1 DEF GrantRows
      <3>2. CASE grants[g].kind # "download"
        <4>1. grants'[g].state = "closed"
          BY <2>2, <3>2 DEF Over
        <4> QED BY <4>1 DEF Standing
      <3> QED BY <3>1, <3>2
    <2>4. \A x \in Grants : grants'[x].state \in Standing =>
              /\ grants[x].state \in Standing
              /\ grants'[x].kind = grants[x].kind
              /\ grants'[x].user = grants[x].user
              /\ grants'[x].session = grants[x].session
              /\ grants'[x].bounds = grants[x].bounds
              /\ grants'[x].late = grants[x].late
      BY <2>1, <2>2, <2>3 DEF Standing
    <2> QED BY <1>3, <2>4, FewerKeeps DEF Expire
  <1>4. ASSUME NEW g \in Grants, \/ StartStream(g)
                                 \/ IntervalPasses(g)
                                 \/ Chunk(g)
                                 \/ StreamEnds(g)
        PROVE  Kept
    BY <1>4, StillKeeps DEF StartStream, IntervalPasses, Chunk, StreamEnds
  <1> QED BY <1>1, <1>2, <1>3, <1>4 DEF GrantSteps

LEMMA UserStepsKeep ==
    ASSUME Inv, UserSteps
    PROVE  Kept
  <1>1. ASSUME NEW a \in Users, NEW u \in Users, NEW role \in Roles,
               NEW enabled \in BOOLEAN, CreateUser(a, u, role, enabled)
        PROVE  Kept
    <2>1. /\ users[u].role = "none"
          /\ \A v \in Users : users'[v].bounds = users[v].bounds
          /\ \A v \in Users \ {u} : users'[v] = users[v]
          /\ sessions' = sessions
          /\ grants' = grants
      BY <1>1 DEF CreateUser, Inv, TypeOK, UserRows
    <2>2. \A v \in Users : users[v].bounds \in Nat
      BY DEF Inv, TypeOK, UserRows
    <2>3. UsersKeep
      BY <2>1, <2>2 DEF UsersKeep
    <2>4. LoginsKeep
      BY <2>1 DEF LoginsKeep
    <2>5. \A g \in Grants : GrantKept(g)
      BY <2>1 DEF GrantKept, Inv, GrantOk
    <2> QED BY <2>3, <2>4, <2>5 DEF Kept
  <1>2. ASSUME NEW w \in Updates, NEW a \in Users, NEW u \in Users,
               NEW role \in Roles, NEW enabled \in BOOLEAN,
               UpdateRead(w, a, u, role, enabled)
        PROVE  Kept
    BY <1>2, StillKeeps DEF UpdateRead
  <1>3. ASSUME NEW a \in Users, NEW u \in Users, ChangePassword(a, u)
        PROVE  Kept
    <2>1. /\ users' = [users EXCEPT ![u].bounds = @ + 1]
          /\ Boundary(u)
      BY <1>3 DEF ChangePassword
    <2>2. \A v \in Users \ {u} : users'[v] = users[v]
      BY <2>1 DEF Inv, TypeOK
    <2>3. UsersKeep
      BY <2>1 DEF UsersKeep, Inv, TypeOK, UserRows
    <2> QED BY <2>1, <2>2, <2>3, BoundaryKeeps
  <1>4. ASSUME NEW a \in Users, NEW u \in Users, NEW S \in SUBSET Grants,
               ChangeDownloadAccess(a, u, S)
        PROVE  Kept
    <2>1. Revoke(S)
      BY <1>4 DEF ChangeDownloadAccess
    <2>2. \A g \in Grants : grants'[g].state \in Standing =>
              grants'[g] = grants[g] /\ grants[g].state \in Standing
      BY <2>1, RevokeLeaves DEF Inv
    <2> QED BY <1>4, <2>2, FewerKeeps DEF ChangeDownloadAccess
  <1>5. ASSUME NEW w \in Updates, NEW a \in Users, NEW u \in Users,
               DeleteRead(w, a, u)
        PROVE  Kept
    BY <1>5, StillKeeps DEF DeleteRead
  <1>6. ASSUME NEW w \in Updates, UpdateWrite(w)
        PROVE  Kept
    <2> DEFINE u == updates[w].user
               held == updates[w]
    <2>1. /\ u \in Users /\ users[u] \in UserRows
          /\ held.role \in Roles
          /\ held.enabled \in BOOLEAN /\ held.cuts \in BOOLEAN
          /\ held.enabled \/ held.cuts
      BY <1>6 DEF UpdateWrite, Inv, UpdateOk, TypeOK, UpdateStates
    <2>2. CASE ~Present(u)
      BY <1>6, <2>2, StillKeeps DEF UpdateWrite
    <2>3. CASE Present(u)
      <3>1. /\ users'[u].role = held.role
            /\ users'[u].enabled = held.enabled
            /\ users'[u].bounds = IF held.cuts THEN users[u].bounds + 1
                                               ELSE users[u].bounds
            /\ \A v \in Users \ {u} : users'[v] = users[v]
        BY <1>6, <2>1, <2>3 DEF UpdateWrite, Inv, TypeOK, UserRows
      <3>2. held.role # "none"
        BY <2>1 DEF Roles
      <3>3. \A v \in Users : users[v].bounds \in Nat
        BY DEF Inv, TypeOK, UserRows
      <3>4. UsersKeep
        BY <2>1, <3>1, <3>2, <3>3 DEF UsersKeep
      <3>5. CASE held.cuts
        <4>1. Boundary(u)
          BY <1>6, <2>3, <3>5 DEF UpdateWrite
        <4> QED BY <2>1, <3>1, <3>4, <4>1, BoundaryKeeps
      <3>6. CASE ~held.cuts
        <4>1. sessions' = sessions /\ grants' = grants
          BY <1>6, <2>3, <3>6 DEF UpdateWrite
        <4>2. \A v \in Users : users'[v].bounds = users[v].bounds
          BY <3>1, <3>6
        <4>3. LoginsKeep
          BY <4>1 DEF LoginsKeep
        <4>4. \A g \in Grants : GrantKept(g)
          BY <4>1, <4>2 DEF GrantKept, Inv, GrantOk
        <4> QED BY <3>4, <4>3, <4>4 DEF Kept
      <3> QED BY <3>5, <3>6
    <2> QED BY <2>2, <2>3
  <1>7. ASSUME NEW w \in Updates, DeleteWrite(w)
        PROVE  Kept
    <2> DEFINE u == updates[w].user
    <2>1. u \in Users /\ users[u].role # "none" /\ users[u] \in UserRows
      BY <1>7 DEF DeleteWrite, Inv, UpdateOk, TypeOK
    <2>2. /\ users'[u].role = "gone"
          /\ users'[u].bounds = users[u].bounds + 1
          /\ \A v \in Users \ {u} : users'[v] = users[v]
      BY <1>7, <2>1 DEF DeleteWrite, Inv, TypeOK, UserRows
    <2>3. \A v \in Users : users[v].bounds \in Nat
      BY DEF Inv, TypeOK, UserRows
    <2>4. UsersKeep
      BY <2>1, <2>2, <2>3 DEF UsersKeep
    <2>5. ASSUME NEW s \in Logins
          PROVE  /\ sessions'[s].user = sessions[s].user
                 /\ sessions[s].state # "none" => sessions'[s].state # "none"
                 /\ sessions[s].user # u => sessions'[s] = sessions[s]
      <3>1. sessions[s] \in SessionRows
        BY DEF Inv, TypeOK
      <3>2. sessions'[s] = IF s \in LoginsOf(u)
                               THEN [sessions[s] EXCEPT
                                        !.state = "gone",
                                        !.reason =
                                            IF sessions[s].state \in Unrevoked
                                                THEN "ended" ELSE @]
                               ELSE sessions[s]
        BY <1>7 DEF DeleteWrite
      <3> QED BY <3>1, <3>2 DEF LoginsOf, SessionRows
    <2>6. LoginsKeep
      BY <2>1, <2>5 DEF LoginsKeep
    <2>7. ASSUME NEW g \in Grants, grants'[g].state \in Standing
          PROVE  GrantKept(g)
      <3>1. /\ grants'[g] = grants[g]
            /\ grants[g].state \in Standing
            /\ g \notin GrantsOf(u)
        BY <1>7, <2>7, RevokeLeaves DEF DeleteWrite, Inv
      <3>2. /\ grants[g].user \in Users \ {u}
            /\ grants[g].session \in Logins
            /\ sessions[grants[g].session].user = grants[g].user
        BY <3>1 DEF Inv, GrantOk, GrantsOf
      <3> QED BY <2>2, <2>5, <3>1, <3>2 DEF GrantKept
    <2>8. \A g \in Grants : GrantKept(g)
      BY <2>7 DEF GrantKept
    <2> QED BY <2>4, <2>6, <2>8 DEF Kept
  <1>8. ASSUME NEW w \in Updates, SelfRevoke(w)
        PROVE  Kept
    <2> DEFINE u == updates[w].user
    <2>1. u \in Users
      BY <1>8 DEF SelfRevoke, Inv, UpdateOk
    <2>2. /\ users' = [users EXCEPT ![u].bounds = @ + 1]
          /\ Boundary(u)
      BY <1>8 DEF SelfRevoke
    <2>3. \A v \in Users \ {u} : users'[v] = users[v]
      BY <2>2 DEF Inv, TypeOK
    <2>4. UsersKeep
      BY <2>1, <2>2 DEF UsersKeep, Inv, TypeOK, UserRows
    <2> QED BY <2>1, <2>2, <2>3, <2>4, BoundaryKeeps
  <1>9. ASSUME NEW w \in Updates, SelfErase(w)
        PROVE  Kept
    <2> DEFINE u == updates[w].user
    <2>1. u \in Users /\ users[u].role # "none" /\ users[u] \in UserRows
      BY <1>9 DEF SelfErase, Inv, UpdateOk, TypeOK
    <2>2. /\ users'[u].role = "gone"
          /\ users'[u].enabled = users[u].enabled
          /\ users'[u].bounds = users[u].bounds
          /\ \A v \in Users \ {u} : users'[v] = users[v]
      BY <1>9, <2>1 DEF SelfErase, Inv, TypeOK, UserRows
    <2>3. \A v \in Users : users[v].bounds \in Nat
      BY DEF Inv, TypeOK, UserRows
    <2>4. UsersKeep
      BY <2>1, <2>2, <2>3 DEF UsersKeep
    <2>5. ASSUME NEW s \in Logins
          PROVE  /\ sessions'[s].user = sessions[s].user
                 /\ sessions'[s].reason = sessions[s].reason
                 /\ sessions[s].state # "none" => sessions'[s].state # "none"
                 /\ sessions[s].user # u => sessions'[s] = sessions[s]
      BY <1>9 DEF SelfErase, LoginsOf, Inv, TypeOK, SessionRows
    <2>6. LoginsKeep
      BY <2>1, <2>5 DEF LoginsKeep
    <2>7. ASSUME NEW g \in Grants, grants'[g].state \in Standing
          PROVE  GrantKept(g)
      <3>1. grants'[g] = grants[g]
        BY <1>9, <2>7 DEF SelfErase, Over, Standing
      <3>2. grants[g].user \in Users /\ grants[g].session \in Logins
        BY <2>7, <3>1 DEF Inv, GrantOk
      <3>3. users'[grants[g].user].bounds = users[grants[g].user].bounds
        BY <2>2, <3>2
      <3> QED BY <2>5, <2>7, <3>1, <3>2, <3>3 DEF GrantKept
    <2>8. \A g \in Grants : GrantKept(g)
      BY <2>7 DEF GrantKept
    <2> QED BY <2>4, <2>6, <2>8 DEF Kept
  <1> QED BY <1>1, <1>2, <1>3, <1>4, <1>5, <1>6, <1>7, <1>8, <1>9 DEF UserSteps

LEMMA ServerStepsKeep ==
    ASSUME Inv, ServerSteps
    PROVE  Kept
  <1>1. ASSUME NEW w \in Updates, NEW a \in Users, LockServer(w, a)
        PROVE  Kept
    BY <1>1, StillKeeps DEF LockServer
  <1>2. ASSUME NEW w \in Updates, MaintenanceRevoke(w)
        PROVE  Kept
    <2> DEFINE L == {s \in Logins : /\ sessions[s].state \in Unrevoked
                                    /\ users[sessions[s].user].role # "admin"}
    <2>1. /\ EndLogins(L, "revoked", "maintenance_mode")
          /\ Revoke(GrantedFrom(L, {"coupled", "download"}))
          /\ users' = users
      BY <1>2 DEF MaintenanceRevoke
    <2>2. \A kind \in Kinds \ {"coupled", "download"} :
              "maintenance_mode" \in EndsThatSpare(kind)
      BY DEF Kinds, EndsThatSpare, Reasons
    <2>3. L \in SUBSET Logins /\ "maintenance_mode" \in Reasons
      BY DEF Reasons
    <2> HIDE DEF L
    <2> QED BY <2>1, <2>2, <2>3, EndKeeps
  <1>3. ASSUME NEW a \in Users, UnlockServer(a)
        PROVE  Kept
    BY <1>3, StillKeeps DEF UnlockServer
  <1>4. ASSUME RotatePrefix
        PROVE  Kept
    <2>1. \A u \in Users : /\ users'[u].role = users[u].role
                           /\ users'[u].bounds = users[u].bounds + 1
                           /\ users[u].bounds \in Nat
      BY <1>4 DEF RotatePrefix, Inv, TypeOK, UserRows
    <2>2. UsersKeep
      BY <2>1 DEF UsersKeep
    <2>3. LoginsKeep
      BY <1>4 DEF RotatePrefix, LoginsKeep, Inv, TypeOK, SessionRows
    <2>4. Revoke(Grants)
      BY <1>4 DEF RotatePrefix
    <2>5. \A g \in Grants : GrantKept(g)
      BY <2>4, RevokeLeaves DEF GrantKept, Inv
    <2> QED BY <2>2, <2>3, <2>5 DEF Kept
  <1> QED BY <1>1, <1>2, <1>3, <1>4 DEF ServerSteps

-----------------------------------------------------------------------------
\* What the invariant needs of a step.

LEMMA GrantStays ==
    ASSUME Inv, TypeOK', Kept, NEW g \in Grants
    PROVE  GrantOk(g)'
  <1> SUFFICES ASSUME grants'[g].state \in Standing
               PROVE  GrantOk(g)'
    BY DEF GrantOk
  <1>1. GrantKept(g)
    BY DEF Kept
  <1>2. grants[g].state \in Standing
    BY <1>1 DEF GrantKept
  <1> DEFINE u == grants[g].user
             s == grants[g].session
  <1>3. /\ grants'[g].kind = grants[g].kind
        /\ grants'[g].user = u
        /\ grants'[g].session = s
        /\ grants'[g].bounds = grants[g].bounds
        /\ grants'[g].late = grants[g].late
        /\ users'[u].bounds = users[u].bounds
        /\ \/ sessions'[s].reason = sessions[s].reason
           \/ sessions'[s].reason \in EndsThatSpare(grants[g].kind)
    BY <1>1 DEF GrantKept
  <1>4. /\ grants[g].kind \in Kinds
        /\ u \in Users /\ users[u].role # "none"
        /\ s \in Logins /\ sessions[s].state # "none" /\ sessions[s].user = u
        /\ ~grants[g].late =>
               /\ grants[g].bounds = users[u].bounds
               /\ users[u].enabled
               /\ sessions[s].reason \in EndsThatSpare(grants[g].kind)
    BY <1>2 DEF Inv, GrantOk
  <1>5. /\ users'[u].role # "none"
        /\ users[u].enabled => users'[u].enabled
    BY <1>3, <1>4 DEF Kept, UsersKeep
  <1>6. sessions'[s].state # "none" /\ sessions'[s].user = u
    BY <1>4 DEF Kept, LoginsKeep
  <1> HIDE DEF u, s
  <1>7. /\ users[u].enabled /\ ~grants[g].late => users'[u].enabled
        /\ ~grants[g].late => sessions'[s].reason
                                  \in EndsThatSpare(grants[g].kind)
    BY <1>3, <1>4, <1>5
  <1>8. EndsThatSpare(grants[g].kind)' = EndsThatSpare(grants[g].kind)
    BY <1>3 DEF EndsThatSpare
  <1> QED BY <1>3, <1>4, <1>5, <1>6, <1>7, <1>8 DEF GrantOk

LEMMA LoginStays ==
    ASSUME Inv, TypeOK', UsersKeep, LoginsKeep, NEW s \in Logins
    PROVE  LoginOk(s)'
  <1> SUFFICES ASSUME sessions'[s].state # "none"
               PROVE  /\ sessions'[s].user \in Users
                      /\ users'[sessions'[s].user].role # "none"
    BY DEF LoginOk
  <1>1. /\ sessions'[s].user \in Users
        /\ users[sessions'[s].user].role # "none"
    BY DEF Inv, LoginOk, LoginsKeep
  <1> QED BY <1>1 DEF UsersKeep

LEMMA RequestStays ==
    ASSUME Inv, TypeOK', UsersKeep, LoginsKeep, NEW r \in Requests,
           requests'[r] = requests[r]
    PROVE  RequestOk(r)'
  <1> DEFINE u == requests[r].user
             s == requests[r].session
  <1>1. requests[r].at # "idle" => u \in Users /\ users'[u].role # "none"
    BY DEF Inv, RequestOk, UsersKeep
  <1>2. ASSUME requests[r].at \in {"insert", "backend"}
        PROVE  /\ requests[r].kind \in Kinds
               /\ s \in Logins
               /\ sessions'[s].state # "none" /\ sessions'[s].user = u
               /\ requests[r].bounds <= users'[u].bounds
               /\ requests[r].bounds = users'[u].bounds => users'[u].enabled
    <2>1. /\ requests[r].kind \in Kinds
          /\ u \in Users /\ users[u].role # "none"
          /\ s \in Logins
          /\ sessions[s].state # "none" /\ sessions[s].user = u
          /\ requests[r].bounds <= users[u].bounds
          /\ requests[r].bounds = users[u].bounds => users[u].enabled
      BY <1>2 DEF Inv, RequestOk
    <2>2. /\ users'[u].bounds >= users[u].bounds
          /\ users[u].enabled /\ users'[u].bounds = users[u].bounds
                 => users'[u].enabled
      BY <2>1 DEF UsersKeep
    <2>3. sessions'[s].state # "none" /\ sessions'[s].user = u
      BY <2>1 DEF LoginsKeep
    <2>4. /\ requests[r].bounds \in Nat
          /\ users[u].bounds \in Nat /\ users'[u].bounds \in Nat
      <3>1. users[u] \in UserRows /\ users'[u] \in UserRows
        BY <2>1 DEF Inv, TypeOK
      <3>2. requests[r] \in RequestStates
        BY DEF Inv, TypeOK
      <3> QED BY <3>1, <3>2 DEF UserRows, RequestStates
    <2> HIDE DEF u, s
    <2> QED BY <2>1, <2>2, <2>3, <2>4
  <1> QED BY <1>1, <1>2 DEF RequestOk

LEMMA UpdateStays ==
    ASSUME Inv, TypeOK', UsersKeep, LoginsKeep, NEW w \in Updates,
           updates'[w] = updates[w]
    PROVE  UpdateOk(w)'
  BY DEF Inv, UpdateOk, UsersKeep

\* Held by a request that finished.
LEMMA IdleOk ==
    ASSUME NEW r \in Requests, requests'[r] = Idle
    PROVE  RequestOk(r)'
  BY DEF RequestOk, Idle

LEMMA NoUpdateOk ==
    ASSUME NEW w \in Updates, updates'[w] = NoUpdate
    PROVE  UpdateOk(w)'
  BY DEF UpdateOk, NoUpdate

LEMMA RequestsNext ==
    ASSUME Inv, TypeOK', UsersKeep, LoginsKeep, Next
    PROVE  \A r \in Requests : RequestOk(r)'
  <1>1. ASSUME NEW r \in Requests, NEW held \in RequestStates,
               Becomes(r, held)
        PROVE  /\ requests'[r] = held
               /\ \A x \in Requests \ {r} : requests'[x] = requests[x]
    BY <1>1 DEF Becomes, Inv, TypeOK
  <1>2. ASSUME NEW r \in Requests, Finishes(r)
        PROVE  \A x \in Requests : RequestOk(x)'
    <2>1. Idle \in RequestStates /\ Becomes(r, Idle)
      BY <1>2 DEF Idle, RequestStates, Finishes
    <2> QED BY <1>1, <2>1, IdleOk, RequestStays
  <1>3. ASSUME NEW r \in Requests, NEW u \in Users, LoginStart(r, u)
        PROVE  \A x \in Requests : RequestOk(x)'
    <2> DEFINE held == [Idle EXCEPT !.at = "login", !.user = u]
    <2>1. /\ held \in RequestStates
          /\ held.at = "login"
          /\ held.user = u
      BY DEF Idle, RequestStates
    <2>2. users'[u].role # "none"
      BY <1>3 DEF LoginStart, Present, Roles
    <2>3. Becomes(r, held)
      BY <1>3 DEF LoginStart
    <2> HIDE DEF held
    <2>4. requests'[r] = held
      BY <1>1, <2>1, <2>3
    <2>5. RequestOk(r)'
      BY <2>1, <2>2, <2>4 DEF RequestOk
    <2> QED BY <1>1, <2>1, <2>3, <2>5, RequestStays
  <1>4. ASSUME NEW r \in Requests, NEW s \in Logins, LoginInsert(r, s)
        PROVE  \A x \in Requests : RequestOk(x)'
    BY <1>2, <1>4 DEF LoginInsert
  <1>5. ASSUME NEW r \in Requests, InsertFails(r)
        PROVE  \A x \in Requests : RequestOk(x)'
    BY <1>2, <1>5 DEF InsertFails
  <1>6. ASSUME NEW r \in Requests, NEW s \in Logins, NEW kind \in Kinds,
               NEW place \in {"insert", "backend"},
               Authenticate(r, s, place, kind)
        PROVE  \A x \in Requests : RequestOk(x)'
    <2> DEFINE u == sessions[s].user
               held == [Idle EXCEPT !.at = place, !.user = u, !.session = s,
                                    !.kind = kind, !.bounds = users[u].bounds]
    <2>1. /\ u \in Users
          /\ users[u].role # "none" /\ users[u].enabled
          /\ sessions[s].state # "none"
          /\ users' = users /\ sessions' = sessions
          /\ Becomes(r, held)
      BY <1>6 DEF Authenticate, Inv, LoginOk
    <2>2. users[u].bounds \in Nat
      BY <2>1 DEF Inv, TypeOK, UserRows
    <2>3. /\ held.at = place
          /\ held.user = u
          /\ held.session = s
          /\ held.kind = kind
          /\ held.bounds = users[u].bounds
      BY DEF Idle
    <2>4. held \in RequestStates
      BY <2>1, <2>2 DEF Idle, RequestStates
    <2> HIDE DEF held
    <2>5. requests'[r] = held
      BY <1>1, <2>1, <2>4
    <2>6. RequestOk(r)'
      BY <2>1, <2>2, <2>3, <2>5 DEF RequestOk
    <2> QED BY <1>1, <2>1, <2>4, <2>6, RequestStays
  <1>7. ASSUME NEW r \in Requests, NEW g \in Grants, InsertGrant(r, g)
        PROVE  \A x \in Requests : RequestOk(x)'
    <2>1. CASE requests[r].at # "backend"
      BY <1>2, <1>7, <2>1 DEF InsertGrant
    <2>2. CASE requests[r].at = "backend"
      <3> DEFINE held == [requests[r] EXCEPT !.at = "insert",
                                             !.kind = "handoff"]
      <3>1. Becomes(r, held)
        BY <1>7, <2>2 DEF InsertGrant
      <3>2. requests[r] \in RequestStates
        BY DEF Inv, TypeOK
      <3>3. /\ held \in RequestStates
            /\ held.at = "insert"
            /\ held.user = requests[r].user
            /\ held.session = requests[r].session
            /\ held.kind = "handoff"
            /\ held.bounds = requests[r].bounds
        BY <3>2 DEF RequestStates, Kinds
      <3> HIDE DEF held
      <3>4. requests'[r] = held
        BY <1>1, <3>1, <3>3
      <3>5. users' = users /\ sessions' = sessions
        BY <1>7 DEF InsertGrant
      <3>6. /\ requests[r].user \in Users
            /\ users[requests[r].user].role # "none"
            /\ requests[r].session \in Logins
            /\ sessions[requests[r].session].state # "none"
            /\ sessions[requests[r].session].user = requests[r].user
            /\ requests[r].bounds <= users[requests[r].user].bounds
            /\ requests[r].bounds = users[requests[r].user].bounds
                   => users[requests[r].user].enabled
        BY <2>2 DEF Inv, RequestOk
      <3>7. "handoff" \in Kinds
        BY DEF Kinds
      <3>8. RequestOk(r)'
        BY <3>3, <3>4, <3>5, <3>6, <3>7 DEF RequestOk
      <3> QED BY <1>1, <3>1, <3>3, <3>8, RequestStays
    <2> QED BY <2>1, <2>2
  <1>8. CASE requests' = requests
    BY <1>8, RequestStays
  <1>9. CASE LoginSteps
    BY <1>9, <1>3, <1>4, <1>5, <1>8
       DEF LoginSteps, LoginExpires, AuthExpires, ForgetLogin, Logout,
           RevokeLogin
  <1>10. CASE GrantSteps
    BY <1>10, <1>6, <1>7, <1>8
       DEF GrantSteps, CloseGrant, Expire, StartStream, IntervalPasses, Chunk,
           StreamEnds
  <1>11. CASE UserSteps
    BY <1>11, <1>8
       DEF UserSteps, CreateUser, UpdateRead, ChangePassword,
           ChangeDownloadAccess, DeleteRead, UpdateWrite, DeleteWrite,
           SelfRevoke, SelfErase
  <1>12. CASE ServerSteps
    BY <1>12, <1>8
       DEF ServerSteps, LockServer, MaintenanceRevoke, UnlockServer,
           RotatePrefix
  <1> QED BY <1>9, <1>10, <1>11, <1>12 DEF Next

LEMMA UpdatesNext ==
    ASSUME Inv, TypeOK', UsersKeep, LoginsKeep, Next
    PROVE  \A w \in Updates : UpdateOk(w)'
  <1>1. ASSUME NEW w \in Updates, NEW held \in UpdateStates, Holds(w, held)
        PROVE  /\ updates'[w] = held
               /\ \A x \in Updates \ {w} : updates'[x] = updates[x]
    BY <1>1 DEF Holds, Inv, TypeOK
  <1>2. ASSUME NEW w \in Updates, Holds(w, NoUpdate)
        PROVE  \A x \in Updates : UpdateOk(x)'
    <2>1. NoUpdate \in UpdateStates
      BY DEF NoUpdate, UpdateStates
    <2> QED BY <1>1, <1>2, <2>1, NoUpdateOk, UpdateStays
  <1>3. ASSUME NEW w \in Updates, NEW a \in Users, NEW u \in Users,
               NEW role \in Roles, NEW enabled \in BOOLEAN,
               UpdateRead(w, a, u, role, enabled)
        PROVE  \A x \in Updates : UpdateOk(x)'
    <2> DEFINE held == [NoUpdate EXCEPT
                           !.at = "update", !.user = u, !.role = role,
                           !.enabled = enabled,
                           !.cuts = role # users[u].role \/ ~enabled]
    <2>1. /\ held \in UpdateStates
          /\ held.at = "update"
          /\ held.user = u
          /\ held.role = role
          /\ held.enabled \/ held.cuts
      BY DEF NoUpdate, UpdateStates
    <2>2. users' = users /\ users[u].role # "none" /\ Holds(w, held)
      BY <1>3 DEF UpdateRead, Present, Roles
    <2> HIDE DEF held
    <2>3. updates'[w] = held
      BY <1>1, <2>1, <2>2
    <2>4. UpdateOk(w)'
      BY <2>1, <2>2, <2>3 DEF UpdateOk
    <2> QED BY <1>1, <2>1, <2>2, <2>4, UpdateStays
  <1>4. ASSUME NEW w \in Updates, NEW a \in Users, NEW u \in Users,
               DeleteRead(w, a, u)
        PROVE  \A x \in Updates : UpdateOk(x)'
    <2> DEFINE held == [NoUpdate EXCEPT
                           !.at = IF a = u THEN "self" ELSE "delete",
                           !.user = u]
    <2>1. /\ held \in UpdateStates
          /\ held.at \in {"self", "delete"}
          /\ held.user = u
      BY DEF NoUpdate, UpdateStates
    <2>2. users' = users /\ users[u].role # "none" /\ Holds(w, held)
      BY <1>4 DEF DeleteRead, Present, Roles
    <2> HIDE DEF held
    <2>3. updates'[w] = held
      BY <1>1, <2>1, <2>2
    <2>4. UpdateOk(w)'
      BY <2>1, <2>2, <2>3 DEF UpdateOk
    <2> QED BY <1>1, <2>1, <2>2, <2>4, UpdateStays
  <1>5. ASSUME NEW w \in Updates, SelfRevoke(w)
        PROVE  \A x \in Updates : UpdateOk(x)'
    <2> DEFINE held == [updates[w] EXCEPT !.at = "erase"]
    <2>1. updates[w] \in UpdateStates
      BY DEF Inv, TypeOK
    <2>2. /\ held \in UpdateStates
          /\ held.at = "erase"
          /\ held.user = updates[w].user
      BY <2>1 DEF UpdateStates
    <2>3. Holds(w, held)
      BY <1>5 DEF SelfRevoke
    <2>4. held.user \in Users /\ users'[held.user].role # "none"
      BY <1>5, <2>2 DEF SelfRevoke, Inv, UpdateOk, UsersKeep
    <2> HIDE DEF held
    <2>5. updates'[w] = held
      BY <1>1, <2>2, <2>3
    <2>6. UpdateOk(w)'
      BY <2>2, <2>4, <2>5 DEF UpdateOk
    <2> QED BY <1>1, <2>2, <2>3, <2>6, UpdateStays
  <1>6. ASSUME NEW w \in Updates, NEW a \in Users, LockServer(w, a)
        PROVE  \A x \in Updates : UpdateOk(x)'
    <2> DEFINE held == [NoUpdate EXCEPT !.at = "maintain"]
    <2>1. held \in UpdateStates /\ held.at = "maintain"
      BY DEF NoUpdate, UpdateStates
    <2>2. Holds(w, held)
      BY <1>6 DEF LockServer
    <2> HIDE DEF held
    <2>3. updates'[w] = held
      BY <1>1, <2>1, <2>2
    <2>4. UpdateOk(w)'
      BY <2>1, <2>3 DEF UpdateOk
    <2> QED BY <1>1, <2>1, <2>2, <2>4, UpdateStays
  <1>7. CASE updates' = updates
    BY <1>7, UpdateStays
  <1>8. CASE LoginSteps
    BY <1>8, <1>7
       DEF LoginSteps, LoginStart, LoginInsert, InsertFails, LoginExpires,
           AuthExpires, ForgetLogin, Logout, RevokeLogin
  <1>9. CASE GrantSteps
    BY <1>9, <1>7
       DEF GrantSteps, Authenticate, InsertGrant, CloseGrant, Expire,
           StartStream, IntervalPasses, Chunk, StreamEnds
  <1>10. CASE UserSteps
    <2>1. ASSUME NEW w \in Updates, UpdateWrite(w) \/ DeleteWrite(w)
                                                   \/ SelfErase(w)
          PROVE  \A x \in Updates : UpdateOk(x)'
      BY <1>2, <2>1 DEF UpdateWrite, DeleteWrite, SelfErase
    <2> QED BY <1>10, <1>3, <1>4, <1>5, <1>7, <2>1
            DEF UserSteps, CreateUser, ChangePassword, ChangeDownloadAccess
  <1>11. CASE ServerSteps
    <2>1. ASSUME NEW w \in Updates, MaintenanceRevoke(w)
          PROVE  \A x \in Updates : UpdateOk(x)'
      BY <1>2, <2>1 DEF MaintenanceRevoke
    <2> QED BY <1>11, <1>6, <1>7, <2>1
            DEF ServerSteps, UnlockServer, RotatePrefix
  <1> QED BY <1>8, <1>9, <1>10, <1>11 DEF Next

LEMMA InsertGrantOk ==
    ASSUME Inv, TypeOK', NEW r \in Requests, NEW g \in Grants,
           InsertGrant(r, g)
    PROVE  \A x \in Grants : GrantOk(x)'
  <1> DEFINE held == requests[r]
  <1>1. /\ users' = users /\ sessions' = sessions
        /\ grants'[g] = NewGrant(held)
        /\ \A x \in Grants \ {g} : grants'[x] = grants[x]
    BY DEF InsertGrant, Inv, TypeOK
  <1>2. /\ held.user \in Users
        /\ users[held.user].role # "none"
        /\ held.kind \in Kinds
        /\ held.session \in Logins
        /\ sessions[held.session].state # "none"
        /\ sessions[held.session].user = held.user
        /\ held.bounds = users[held.user].bounds => users[held.user].enabled
    BY DEF Inv, RequestOk, InsertGrant
  <1>3. /\ grants'[g].kind = held.kind
        /\ grants'[g].user = held.user
        /\ grants'[g].session = held.session
        /\ grants'[g].bounds = held.bounds
        /\ ~grants'[g].late =>
               /\ users[held.user].bounds = held.bounds
               /\ sessions[held.session].reason \in EndsThatSpare(held.kind)
    BY <1>1 DEF NewGrant
  <1>4. UNCHANGED <<users, sessions>>
    BY <1>1
  <1>5. EndsThatSpare(grants[g].kind)' = EndsThatSpare(held.kind)
    BY <1>3 DEF EndsThatSpare
  <1> HIDE DEF held
  <1>6. GrantOk(g)'
    BY <1>1, <1>2, <1>3, <1>4, <1>5 DEF GrantOk
  <1>7. ASSUME NEW x \in Grants \ {g}
        PROVE  GrantOk(x)'
    <2>1. grants'[x] = grants[x]
      BY <1>1
    <2>2. EndsThatSpare(grants[x].kind)' = EndsThatSpare(grants[x].kind)
      BY <2>1 DEF EndsThatSpare
    <2> QED BY <1>1, <2>1, <2>2 DEF GrantOk, Inv
  <1> QED BY <1>6, <1>7

-----------------------------------------------------------------------------
\* The invariant.

LEMMA InvInit == Init => Inv
  <1> SUFFICES ASSUME Init PROVE Inv
    OBVIOUS
  <1> USE AccessConstants
  <1>1. ASSUME NEW s \in Logins PROVE sessions[s] = NoLogin
    BY <1>1 DEF Init
  <1>2. ASSUME NEW r \in Requests PROVE requests[r] = Idle
    BY <1>2 DEF Init
  <1>3. ASSUME NEW w \in Updates PROVE updates[w] = NoUpdate
    BY <1>3 DEF Init
  <1>4. ASSUME NEW g \in Grants PROVE grants[g] = NoGrant
    BY <1>4 DEF Init
  <1>5. users \in [Users -> UserRows]
    BY DEF Init, UserRows, Roles
  <1>6. /\ NoLogin \in SessionRows
        /\ NoGrant \in GrantRows
        /\ Idle \in RequestStates
        /\ NoUpdate \in UpdateStates
    BY DEF NoLogin, NoGrant, Idle, NoUpdate, Over, SessionRows, GrantRows,
           RequestStates, UpdateStates, Reasons, Unrevoked
  <1>7. TypeOK
    <2>1. /\ sessions = [s \in Logins |-> NoLogin]
          /\ grants = [g \in Grants |-> NoGrant]
          /\ streams = [g \in Grants |-> "none"]
          /\ requests = [r \in Requests |-> Idle]
          /\ updates = [w \in Updates |-> NoUpdate]
          /\ maintenance = FALSE
          /\ trouble = 0
      BY DEF Init
    <2>2. trouble \in 0..MaxTrouble
      BY <2>1
    <2>3. sessions \in [Logins -> SessionRows]
      BY <1>6, <2>1
    <2>4. grants \in [Grants -> GrantRows]
      BY <1>6, <2>1
    <2>5. requests \in [Requests -> RequestStates]
      BY <1>6, <2>1
    <2>6. updates \in [Updates -> UpdateStates]
      BY <1>6, <2>1
    <2>7. streams \in [Grants -> {"none", "checked", "due"}]
      BY <2>1
    <2>8. maintenance \in BOOLEAN
      BY <2>1
    <2> QED BY <1>5, <2>2, <2>3, <2>4, <2>5, <2>6, <2>7, <2>8 DEF TypeOK
  <1>8. \A s \in Logins : LoginOk(s)
    BY <1>1 DEF LoginOk, NoLogin
  <1>9. \A r \in Requests : RequestOk(r)
    BY <1>2 DEF RequestOk, Idle
  <1>10. \A w \in Updates : UpdateOk(w)
    BY <1>3 DEF UpdateOk, NoUpdate
  <1>11. \A g \in Grants : GrantOk(g)
    BY <1>4 DEF GrantOk, NoGrant, Over, Standing
  <1> QED BY <1>7, <1>8, <1>9, <1>10, <1>11 DEF Inv

LEMMA TypeNext ==
    ASSUME Inv, Next PROVE TypeOK'
  BY LoginStepsType, GrantStepsType, UserStepsType, ServerStepsType
     DEF Next, Inv

LEMMA InvNext == Inv /\ [Next]_vars => Inv'
  <1> SUFFICES ASSUME Inv, [Next]_vars PROVE Inv'
    OBVIOUS
  <1>1. CASE Next
    <2>1. TypeOK'
      BY <1>1, TypeNext
    <2>2. UsersKeep /\ LoginsKeep /\ \A g \in Grants : GrantOk(g)'
      <3>1. CASE \E r \in Requests, g \in Grants : InsertGrant(r, g)
        <4>1. PICK r \in Requests, g \in Grants : InsertGrant(r, g)
          BY <3>1
        <4>2. users' = users /\ sessions' = sessions
          BY <4>1 DEF InsertGrant
        <4>3. UsersKeep /\ LoginsKeep
          BY <4>2 DEF UsersKeep, LoginsKeep, Inv, TypeOK, UserRows
        <4> QED BY <2>1, <4>1, <4>3, InsertGrantOk
      <3>2. CASE ~ \E r \in Requests, g \in Grants : InsertGrant(r, g)
        <4>1. Kept
          BY <1>1, <3>2, LoginStepsKeep, GrantStepsKeep, UserStepsKeep,
             ServerStepsKeep DEF Next
        <4>2. UsersKeep /\ LoginsKeep
          BY <4>1 DEF Kept
        <4> QED BY <2>1, <4>1, <4>2, GrantStays
      <3> QED BY <3>1, <3>2
    <2>3. \A s \in Logins : LoginOk(s)'
      BY <2>1, <2>2, LoginStays
    <2>4. \A r \in Requests : RequestOk(r)'
      BY <1>1, <2>1, <2>2, RequestsNext
    <2>5. \A w \in Updates : UpdateOk(w)'
      BY <1>1, <2>1, <2>2, UpdatesNext
    <2> QED BY <2>1, <2>2, <2>3, <2>4, <2>5 DEF Inv
  <1>2. CASE UNCHANGED vars
    <2>1. UNCHANGED <<users, sessions, grants, streams, requests, updates,
                      maintenance, trouble>>
      BY <1>2 DEF vars
    <2>2. TypeOK'
      BY <2>1 DEF Inv, TypeOK
    <2>3. Kept /\ UsersKeep /\ LoginsKeep
      BY <2>1, StillKeeps DEF Kept
    <2> QED BY <2>1, <2>2, <2>3, GrantStays, LoginStays, RequestStays,
               UpdateStays DEF Inv
  <1> QED BY <1>1, <1>2

THEOREM InvAlways == Spec => []Inv
  BY InvInit, InvNext, PTL DEF Spec

\* Every reachable state is well typed: the rows of auth.py, admin_service.py
\* and the tables of grants take no other shape.
THEOREM TypeCorrect == Spec => []TypeOK
  <1>1. Inv => TypeOK
    BY DEF Inv
  <1> QED BY <1>1, InvAlways, PTL

\* A grant whose request was not overtaken stands only while its user has not
\* been changed and its login not been ended in a way that revokes grants of its
\* kind, for any number of users, logins, grants and threads
\* (_revoke_session_ids, cleanup_expired_sessions,
\* _revoke_user_security_boundary_in_connection).
THEOREM GrantsFollow == Spec => []GrantsFollowTheirLogin
  <1>1. Inv => GrantsFollowTheirLogin
    BY DEF Inv, GrantOk, GrantsFollowTheirLogin, Standing
  <1> QED BY <1>1, InvAlways, PTL

-----------------------------------------------------------------------------
\* External playback.

\* What a step may do to open external playback.
Spared(g) ==
    grants[g].kind = "external" /\ grants[g].state = "open" =>
        \/ grants'[g].state \in {"open", "closed"}
        \/ users'[grants[g].user] # users[grants[g].user]
        \/ sessions'[grants[g].session].reason = "admin_revoked"

LEMMA RevokeSpares ==
    ASSUME NEW S, Revoke(S), NEW g \in Grants \ S
    PROVE  Spared(g)
  BY DEF Revoke, Spared

LEMMA GrantedFromSpares ==
    ASSUME NEW L, NEW kinds, "external" \notin kinds,
           Revoke(GrantedFrom(L, kinds)), NEW g \in Grants
    PROVE  Spared(g)
  BY RevokeSpares DEF GrantedFrom, Spared

\* One whose change counts is not the same row.
LEMMA BoundaryChanges ==
    ASSUME Inv, NEW u \in Users, users'[u].bounds = users[u].bounds + 1
    PROVE  users'[u] # users[u]
  <1>1. users[u].bounds \in Nat
    BY DEF Inv, TypeOK, UserRows
  <1> QED BY <1>1

LEMMA BoundarySpares ==
    ASSUME NEW u \in Users, Revoke(GrantsOf(u)), users'[u] # users[u],
           NEW g \in Grants
    PROVE  Spared(g)
  BY RevokeSpares DEF GrantsOf, Spared

LEMMA NextSpares ==
    ASSUME Inv, Next, NEW g \in Grants
    PROVE  Spared(g)
  <1>1. CASE grants' = grants
    BY <1>1 DEF Spared
  <1>2. CASE LoginSteps
    <2>1. ASSUME NEW s \in Logins, \/ AuthExpires(s)
                                   \/ Logout(s)
                                   \/ ForgetLogin(s)
          PROVE  Spared(g)
      <3>1. PICK kinds \in {{"coupled", "handoff", "download"}, {"download"}} :
                Revoke(GrantedFrom({s}, kinds))
        BY <2>1 DEF AuthExpires, Logout, ForgetLogin
      <3>2. "external" \notin kinds
        OBVIOUS
      <3> QED BY <3>1, <3>2, GrantedFromSpares
    <2>2. ASSUME NEW s \in Logins, NEW a \in Users, RevokeLogin(a, s)
          PROVE  Spared(g)
      <3>1. CASE grants[g].session = s
        <4>1. sessions[s] \in SessionRows
          BY DEF Inv, TypeOK
        <4>2. sessions'[s] = [sessions[s] EXCEPT !.state = "revoked",
                                                 !.reason = "admin_revoked"]
          BY <2>2 DEF RevokeLogin, EndLogins
        <4>3. sessions'[s].reason = "admin_revoked"
          BY <4>1, <4>2 DEF SessionRows
        <4> QED BY <3>1, <4>3 DEF Spared
      <3>2. CASE grants[g].session # s
        BY <2>2, <3>2, RevokeSpares DEF RevokeLogin, GrantedFrom
      <3> QED BY <3>1, <3>2
    <2> QED BY <1>1, <1>2, <2>1, <2>2
            DEF LoginSteps, LoginStart, LoginInsert, InsertFails, LoginExpires
  <1>3. CASE GrantSteps
    <2>1. ASSUME NEW r \in Requests, NEW h \in Grants, InsertGrant(r, h)
          PROVE  Spared(g)
      BY <2>1 DEF InsertGrant, Spared, Inv, TypeOK
    <2>2. ASSUME NEW h \in Grants, CloseGrant(h)
          PROVE  Spared(g)
      BY <2>2 DEF CloseGrant, Spared, Over, Inv, TypeOK
    <2>3. ASSUME NEW h \in Grants, Expire(h)
          PROVE  Spared(g)
      BY <2>3 DEF Expire, Spared, Over, Inv, TypeOK
    <2> QED BY <1>1, <1>3, <2>1, <2>2, <2>3
            DEF GrantSteps, Authenticate, StartStream, IntervalPasses, Chunk,
                StreamEnds
  <1>4. CASE UserSteps
    <2>1. ASSUME NEW a \in Users, NEW u \in Users, ChangePassword(a, u)
          PROVE  Spared(g)
      <3>1. users'[u].bounds = users[u].bounds + 1
        BY <2>1 DEF ChangePassword, Inv, TypeOK, UserRows
      <3> QED BY <2>1, <3>1, BoundaryChanges, BoundarySpares
              DEF ChangePassword, Boundary
    <2>2. ASSUME NEW a \in Users, NEW u \in Users, NEW S \in SUBSET Grants,
                 ChangeDownloadAccess(a, u, S)
          PROVE  Spared(g)
      <3>1. CASE g \in S
        BY <2>2, <3>1 DEF ChangeDownloadAccess, Spared
      <3>2. CASE g \notin S
        BY <2>2, <3>2, RevokeSpares DEF ChangeDownloadAccess
      <3> QED BY <3>1, <3>2
    <2>3. ASSUME NEW w \in Updates, UpdateWrite(w), grants' # grants
          PROVE  Spared(g)
      <3> DEFINE u == updates[w].user
      <3>1. u \in Users /\ users[u] \in UserRows
        BY <2>3 DEF UpdateWrite, Inv, UpdateOk, TypeOK
      <3>2. Boundary(u) /\ updates[w].cuts /\ Present(u)
        BY <2>3 DEF UpdateWrite
      <3>3. users'[u].bounds = users[u].bounds + 1
        BY <2>3, <3>1, <3>2 DEF UpdateWrite, Inv, TypeOK, UserRows
      <3> QED BY <3>1, <3>2, <3>3, BoundaryChanges, BoundarySpares DEF Boundary
    <2>4. ASSUME NEW w \in Updates, DeleteWrite(w)
          PROVE  Spared(g)
      <3> DEFINE u == updates[w].user
      <3>1. u \in Users /\ users[u] \in UserRows
        BY <2>4 DEF DeleteWrite, Inv, UpdateOk, TypeOK
      <3>2. users'[u].bounds = users[u].bounds + 1
        BY <2>4, <3>1 DEF DeleteWrite, Inv, TypeOK, UserRows
      <3>3. Revoke(GrantsOf(u))
        BY <2>4 DEF DeleteWrite
      <3> QED BY <3>1, <3>2, <3>3, BoundaryChanges, BoundarySpares
    <2>5. ASSUME NEW w \in Updates, SelfRevoke(w)
          PROVE  Spared(g)
      <3> DEFINE u == updates[w].user
      <3>1. u \in Users /\ users[u] \in UserRows
        BY <2>5 DEF SelfRevoke, Inv, UpdateOk, TypeOK
      <3>2. users'[u].bounds = users[u].bounds + 1
        BY <2>5, <3>1 DEF SelfRevoke, Inv, TypeOK, UserRows
      <3>3. Revoke(GrantsOf(u))
        BY <2>5 DEF SelfRevoke, Boundary
      <3> QED BY <3>1, <3>2, <3>3, BoundaryChanges, BoundarySpares
    <2>6. ASSUME NEW w \in Updates, SelfErase(w)
          PROVE  Spared(g)
      BY <2>6 DEF SelfErase, Spared, Over
    <2> QED BY <1>1, <1>4, <2>1, <2>2, <2>3, <2>4, <2>5, <2>6
            DEF UserSteps, CreateUser, UpdateRead, DeleteRead
  <1>5. CASE ServerSteps
    <2>1. ASSUME NEW w \in Updates, MaintenanceRevoke(w)
          PROVE  Spared(g)
      BY <2>1, GrantedFromSpares DEF MaintenanceRevoke
    <2>2. ASSUME RotatePrefix
          PROVE  Spared(g)
      <3>1. CASE grants[g].state = "open"
        <4>1. grants[g].user \in Users
          BY <3>1 DEF Inv, GrantOk, Standing
        <4>2. users'[grants[g].user].bounds = users[grants[g].user].bounds + 1
          BY <2>2, <4>1 DEF RotatePrefix, Inv, TypeOK, UserRows
        <4> QED BY <4>1, <4>2, BoundaryChanges DEF Spared
      <3>2. CASE grants[g].state # "open"
        BY <3>2 DEF Spared
      <3> QED BY <3>1, <3>2
    <2> QED BY <1>1, <1>5, <2>1, <2>2 DEF ServerSteps, LockServer, UnlockServer
  <1> QED BY <1>2, <1>3, <1>4, <1>5 DEF Next

\* External playback is revoked by nothing but an administrator's revocation
\* of its login or a change of its user (_revoke_session_ids,
\* revoke_native_playback_sessions_created_from_auth_sessions).
THEOREM ExternalPlaybackStays == Spec => ExternalPlaybackSurvivesLogout
  <1>1. ASSUME Inv, [Next]_vars
        PROVE  \A g \in Grants : Spared(g)
    <2>1. CASE Next
      BY <1>1, <2>1, NextSpares
    <2>2. CASE UNCHANGED vars
      BY <2>2 DEF vars, Spared
    <2> QED BY <1>1, <2>1, <2>2
  <1>2. Inv /\ [Next]_vars =>
            [\A g \in Grants :
                /\ grants[g].kind = "external"
                /\ grants[g].state = "open"
                /\ grants'[g].state \notin {"open", "closed"}
                => \/ users'[grants[g].user] # users[grants[g].user]
                   \/ sessions'[grants[g].session].reason
                          = "admin_revoked"]_vars
    BY <1>1 DEF Spared
  <1> QED BY <1>2, InvAlways, PTL DEF Spec, ExternalPlaybackSurvivesLogout

=============================================================================
