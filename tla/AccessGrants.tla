---------------------------- MODULE AccessGrants ----------------------------
(***************************************************************************)
(* Users, their logins and what is granted from a login: native playback   *)
(* sessions, desktop handoffs and downloads (auth.py, admin_service.py,    *)
(* native_playback_service.py, desktop_playback_handoff_service.py,        *)
(* account_access_service.py, exposure_maintenance_service.py,             *)
(* url_prefix_service.py).                                                 *)
(*                                                                         *)
(* All of it is rows of one database; a transaction is one step.  What a   *)
(* request has read in one transaction and uses in a later one is in       *)
(* requests.  A row id is never given twice, so a row that ended stays as  *)
(* it is.  Ages, titles and the items that a user may download are left    *)
(* out, and so are the second factor and invitations.                      *)
(***************************************************************************)
EXTENDS Naturals, FiniteSets

CONSTANTS
    Users,         \* rows of users, those not created yet included
    Logins,        \* rows of sessions
    Grants,        \* rows of the three tables of grants
    Requests,      \* threads of logins and of requests for a grant
    Updates,       \* threads of administrators
    MaxTrouble,    \* bound: what Trouble counts
    None

ASSUME AccessConstants ==
    /\ MaxTrouble \in Nat
    /\ None \notin Users \cup Logins \cup Grants

VARIABLES
    users,         \* role and enabled of each user
    sessions,      \* the logins
    grants,        \* the grants
    streams,       \* the response that is being sent for a grant
    requests,      \* what each request holds
    updates,       \* what each administrator's request holds
    maintenance,   \* the maintenance lock is set
    trouble

vars == <<users, sessions, grants, streams, requests, updates, maintenance,
          trouble>>

Roles == {"admin", "standard_user"}
\* coupled: a native session with its login; external: with no more than the
\* login it was created from.
Kinds == {"coupled", "external", "handoff", "download"}
Unrevoked == {"live", "expired"}
\* How a login ended.  ended: by logout, by a request that found it idle or
\* expired, or by a change of the user; expired: its time is over and nobody has
\* noticed; forgotten: cleaned up after that.
Reasons == {"none", "expired", "forgotten", "ended", "admin_revoked",
            "maintenance_mode"}

\* bounds counts the changes of a user that end all it was granted.
UserRows == [role : Roles \cup {"none", "gone"}, enabled : BOOLEAN,
             bounds : Nat]
SessionRows == [state : Unrevoked \cup {"none", "revoked", "gone"},
                user : Users \cup {None}, reason : Reasons]
\* lapsed: a download past its expires_at, that only a running stream may use;
\* late: inserted after an end of the login or the user it was asked for that it
\* would not have been spared by.
GrantRows == [state : {"none", "open", "lapsed", "revoked", "closed"},
              kind : Kinds \cup {"none"}, user : Users \cup {None},
              session : Logins \cup {None}, bounds : Nat, late : BOOLEAN]
RequestStates ==
    [at : {"idle", "login", "insert", "backend"}, user : Users \cup {None},
     session : Logins \cup {None}, kind : Kinds \cup {"none"}, bounds : Nat]
\* cuts: the update will end all that the user was granted.
UpdateStates ==
    [at : {"idle", "update", "delete", "self", "erase", "maintain"},
     user : Users \cup {None}, role : Roles \cup {"none"},
     enabled : BOOLEAN, cuts : BOOLEAN]

\* What is left of a row is of no use to anybody.
Over(state) == [state |-> state, kind |-> "none", user |-> None,
                session |-> None, bounds |-> 0, late |-> FALSE]
NoGrant == Over("none")
NoLogin == [state |-> "none", user |-> None, reason |-> "none"]
Idle == [at |-> "idle", user |-> None, session |-> None, kind |-> "none",
         bounds |-> 0]
NoUpdate == [at |-> "idle", user |-> None, role |-> "none", enabled |-> FALSE,
             cuts |-> FALSE]

TypeOK ==
    /\ users \in [Users -> UserRows]
    /\ sessions \in [Logins -> SessionRows]
    /\ grants \in [Grants -> GrantRows]
    /\ streams \in [Grants -> {"none", "checked", "due"}]
    /\ requests \in [Requests -> RequestStates]
    /\ updates \in [Updates -> UpdateStates]
    /\ maintenance \in BOOLEAN
    /\ trouble \in 0..MaxTrouble

Present(u) == users[u].role \in Roles
Admins == {u \in Users : users[u].role = "admin" /\ users[u].enabled}

\* The row of ensure_admin_user.
Bootstrap == CHOOSE u \in Users : TRUE

Init ==
    /\ users = [u \in Users |->
                   [role |-> IF u = Bootstrap THEN "admin" ELSE "none",
                    enabled |-> u = Bootstrap, bounds |-> 0]]
    /\ sessions = [s \in Logins |-> NoLogin]
    /\ grants = [g \in Grants |-> NoGrant]
    /\ streams = [g \in Grants |-> "none"]
    /\ requests = [r \in Requests |-> Idle]
    /\ updates = [w \in Updates |-> NoUpdate]
    /\ maintenance = FALSE
    /\ trouble = 0

Trouble == trouble < MaxTrouble /\ trouble' = trouble + 1
At(r, place) == requests[r].at = place
Becomes(r, held) == requests' = [requests EXCEPT ![r] = held]
Finishes(r) == Becomes(r, Idle)
Holds(w, held) == updates' = [updates EXCEPT ![w] = held]

\* require_admin_user: somebody with a login that lives is an administrator.
ActsAsAdmin(a) ==
    /\ a \in Admins
    /\ \E s \in Logins : sessions[s].state = "live" /\ sessions[s].user = a

\* raise_if_exposure_maintenance_locked
LockedOut(u) == maintenance /\ users[u].role # "admin"

----------------------------------------------------------------------------
\* What the revocations have in common.

\* The unfinished grants among S are revoked.
Revoke(S) ==
    grants' = [g \in Grants |->
                  IF g \in S /\ grants[g].state \in {"open", "lapsed"}
                      THEN Over("revoked")
                      ELSE grants[g]]

\* The grants of the kinds that were made from the logins L.
GrantedFromAll(L, kinds) == {g \in Grants : grants[g].session \in L}

GrantedFrom(L, kinds) ==
    {g \in Grants : grants[g].session \in L /\ grants[g].kind \in kinds}

\* The logins L that are not revoked yet are, for this reason.
EndLogins(L, state, reason) ==
    sessions' = [s \in Logins |->
                    IF s \in L /\ sessions[s].state \in Unrevoked
                        THEN [sessions[s] EXCEPT !.state = state,
                                                 !.reason = reason]
                        ELSE sessions[s]]

LoginsOf(u) == {s \in Logins : sessions[s].user = u}
GrantsOf(u) == {g \in Grants : grants[g].user = u}

\* _revoke_session_ids, with the reason that decides on external playback.
KindsEndedByAny(reason) == {"coupled", "handoff", "download"}

KindsEndedBy(reason) ==
    {"coupled", "handoff", "download"}
        \cup (IF reason = "admin_revoked" THEN {"external"} ELSE {})

\* _revoke_user_security_boundary_in_connection
Boundary(u) ==
    /\ EndLogins(LoginsOf(u), "revoked", "ended")
    /\ Revoke(GrantsOf(u))

----------------------------------------------------------------------------
\* Logins.

\* authenticate_user, and the lock.
LoginStart(r, u) ==
    /\ At(r, "idle")
    /\ Present(u) /\ users[u].enabled
    /\ ~LockedOut(u)
    /\ Becomes(r, [Idle EXCEPT !.at = "login", !.user = u])
    /\ UNCHANGED <<users, sessions, grants, streams, updates, maintenance,
                   trouble>>

\* create_session; a user that is gone has no row to refer to.  Ids are given
\* in a fixed order.
LoginInsert(r, s) ==
    LET u == requests[r].user IN
    /\ At(r, "login")
    /\ Present(u)
    /\ sessions[s].state = "none"
    /\ s = CHOOSE x \in Logins : sessions[x].state = "none"
    /\ sessions' = [sessions EXCEPT ![s] =
                       [state |-> "live", user |-> u, reason |-> "none"]]
    /\ Finishes(r)
    /\ UNCHANGED <<users, grants, streams, updates, maintenance, trouble>>

InsertFails(r) ==
    LET u == requests[r].user IN
    /\ \/ At(r, "login") /\ ~Present(u)
       \/ /\ requests[r].at \in {"insert", "backend"}
          /\ \/ ~Present(u) /\ requests[r].kind # "handoff"
             \/ /\ requests[r].kind = "download"
                /\ sessions[requests[r].session].state = "gone"
    /\ Finishes(r)
    /\ UNCHANGED <<users, sessions, grants, streams, updates, maintenance,
                   trouble>>

\* The end of session_ttl_hours: no grant is touched.
LoginExpires(s) ==
    /\ sessions[s].state = "live"
    /\ EndLogins({s}, "expired", "expired")
    /\ UNCHANGED <<users, grants, streams, requests, updates, maintenance,
                   trouble>>

\* get_user_by_session_token after hours without a request, or on an expired
\* login: _delete_session_for_auth_expiry.
AuthExpires(s) ==
    /\ sessions[s].state \in Unrevoked
    /\ users[sessions[s].user].enabled
    /\ EndLogins({s}, "gone", "ended")
    /\ Revoke(GrantedFrom({s}, {"coupled", "handoff", "download"}))
    /\ UNCHANGED <<users, streams, requests, updates, maintenance, trouble>>

\* cleanup_expired_sessions, which every authentication and login runs, finds
\* a login past its retention; one that was revoked leaves nothing behind.
ForgetLogin(s) ==
    /\ sessions[s].state = "expired"
    /\ EndLogins({s}, "gone", "forgotten")
    /\ Revoke(GrantedFrom({s}, {"download"}))
    /\ UNCHANGED <<users, streams, requests, updates, maintenance, trouble>>

\* destroy_session
Logout(s) ==
    /\ sessions[s].state \in Unrevoked
    /\ EndLogins({s}, "revoked", "ended")
    /\ Revoke(GrantedFrom({s}, {"coupled", "handoff", "download"}))
    /\ UNCHANGED <<users, streams, requests, updates, maintenance, trouble>>

\* revoke_session_by_id, by an administrator.
RevokeLogin(a, s) ==
    /\ ActsAsAdmin(a)
    /\ sessions[s].state \in Unrevoked
    /\ EndLogins({s}, "revoked", "admin_revoked")
    /\ Revoke(GrantedFrom({s}, KindsEndedBy("admin_revoked")))
    /\ UNCHANGED <<users, streams, requests, updates, maintenance, trouble>>

----------------------------------------------------------------------------
\* Grants.

\* The request is who its login says; then details of the item are looked up,
\* over the network at times.  A handoff whose file the client cannot reach
\* gets an external native session first ("backend").
Authenticate(r, s, place, kind) ==
    LET u == sessions[s].user IN
    /\ At(r, "idle")
    /\ sessions[s].state = "live"
    /\ Present(u) /\ users[u].enabled
    /\ ~LockedOut(u)
    /\ place = "backend" => kind = "external"
    /\ Becomes(r, [Idle EXCEPT !.at = place, !.user = u, !.session = s,
                               !.kind = kind, !.bounds = users[u].bounds])
    /\ UNCHANGED <<users, sessions, grants, streams, updates, maintenance,
                   trouble>>

\* The ends of its login that leave a grant of this kind open.  External
\* playback is decoupled from its login; the maintenance mode passes handoffs
\* over, expiry and the cleanup after it all but downloads, which the cleanup
\* revokes.  (A coupled session or a download of a dead login is of no use,
\* Usable; a handoff is.)
EndsThatSpare(kind) ==
    CASE kind = "external" -> Reasons \ {"admin_revoked"}
      [] kind = "handoff" -> {"none", "expired", "forgotten", "maintenance_mode"}
      [] kind = "download" -> {"none", "expired"}
      [] OTHER -> {"none", "expired", "forgotten"}

\* The row is inserted with what the request knows, without another look.
\* Tables with a foreign key refuse a user or a login that has no row.
NewGrant(held) ==
    [state |-> "open", kind |-> held.kind, user |-> held.user,
     session |-> held.session, bounds |-> held.bounds,
     late |-> \/ users[held.user].bounds # held.bounds
              \/ ~Present(held.user)
              \/ sessions[held.session].reason
                     \notin EndsThatSpare(held.kind)]

InsertGrant(r, g) ==
    LET held == requests[r] IN
    /\ held.at \in {"insert", "backend"}
    /\ held.kind # "handoff" => Present(held.user)
    /\ held.kind = "download" => sessions[held.session].state # "gone"
    /\ grants[g].state = "none"
    /\ grants' = [grants EXCEPT ![g] = NewGrant(held)]
    /\ IF held.at = "backend"
           THEN Becomes(r, [held EXCEPT !.at = "insert", !.kind = "handoff"])
           ELSE Finishes(r)
    /\ UNCHANGED <<users, sessions, streams, updates, maintenance, trouble>>

\* What _require_native_session, _require_desktop_vlc_handoff and
\* validate_download_session ask for; a stream goes on past the expires_at of
\* a download.
Usable(g, states) ==
    LET grant == grants[g]
        login == sessions[grant.session].state
    IN  /\ grant.state \in states
        /\ Present(grant.user) /\ users[grant.user].enabled
        /\ grant.kind \in {"coupled", "download"} => login = "live"

\* close_native_playback_session, and a download that is completed, failed or
\* terminated.
CloseGrant(g) ==
    /\ grants[g].kind # "handoff"
    /\ Usable(g, {"open", "lapsed"})
    /\ grants' = [grants EXCEPT ![g] = Over("closed")]
    /\ UNCHANGED <<users, sessions, streams, requests, updates, maintenance,
                   trouble>>

\* The row is past its expires_at.
Expire(g) ==
    /\ grants[g].state = "open"
    /\ grants' = [grants EXCEPT ![g] =
                     IF @.kind = "download" THEN [@ EXCEPT !.state = "lapsed"]
                                            ELSE Over("closed")]
    /\ UNCHANGED <<users, sessions, streams, requests, updates, maintenance,
                   trouble>>

\* build_native_stream_response, download_session: the validator of the
\* response looks at once.
StartStream(g) ==
    /\ streams[g] = "none"
    /\ grants[g].kind # "handoff"
    /\ Usable(g, {"open"})
    /\ grants[g].kind = "download" =>
           ~LockedOut(grants[g].user) /\ sessions[grants[g].session].state = "live"
    /\ streams' = [streams EXCEPT ![g] = "due"]
    /\ UNCHANGED <<users, sessions, grants, requests, updates, maintenance,
                   trouble>>

\* A native stream is looked at every few seconds, a download at every chunk.
IntervalPasses(g) ==
    /\ streams[g] = "checked"
    /\ streams' = [streams EXCEPT ![g] = "due"]
    /\ UNCHANGED <<users, sessions, grants, requests, updates, maintenance,
                   trouble>>

\* _iter_file asks the validator before it reads and before it sends; no is
\* the end of the response.
ChunkRegardless(g) ==
    /\ streams[g] = "due"
    /\ streams' = [streams EXCEPT ![g] =
                      IF grants[g].kind = "download" THEN "due"
                                                     ELSE "checked"]
    /\ UNCHANGED <<users, sessions, grants, requests, updates, maintenance,
                   trouble>>

Chunk(g) ==
    /\ streams[g] = "due"
    /\ streams' = [streams EXCEPT ![g] =
                      IF ~Usable(g, {"open", "lapsed"}) THEN "none"
                      ELSE IF grants[g].kind = "download" THEN "due"
                      ELSE "checked"]
    /\ UNCHANGED <<users, sessions, grants, requests, updates, maintenance,
                   trouble>>

\* The client has it all or has gone away.
StreamEnds(g) ==
    /\ streams[g] # "none"
    /\ streams' = [streams EXCEPT ![g] = "none"]
    /\ UNCHANGED <<users, sessions, grants, requests, updates, maintenance,
                   trouble>>

----------------------------------------------------------------------------
\* Users.

\* create_user
CreateUser(a, u, role, enabled) ==
    /\ ActsAsAdmin(a)
    /\ users[u].role = "none"
    /\ users' = [users EXCEPT ![u].role = role, ![u].enabled = enabled]
    /\ UNCHANGED <<sessions, grants, streams, requests, updates,
                   maintenance, trouble>>

\* The last enabled administrator must stay one.
LastAdmin(u) == u \in Admins /\ Cardinality(Admins) <= 1

\* update_user up to its first write: enabled or role change, or only the age
\* is set, and then both are written back as they were read.
UpdateRead(w, a, u, role, enabled) ==
    /\ updates[w].at = "idle"
    /\ ActsAsAdmin(a)
    /\ Present(u)
    /\ a = u => enabled /\ role = "admin"
    /\ ~enabled \/ role # "admin" => ~LastAdmin(u)
    /\ Trouble
    /\ Holds(w, [NoUpdate EXCEPT !.at = "update", !.user = u, !.role = role,
                                 !.enabled = enabled,
                                 !.cuts = role # users[u].role \/ ~enabled])
    /\ UNCHANGED <<users, sessions, grants, streams, requests, maintenance>>

\* The write; on a row that is gone it changes nothing that counts.
UpdateWrite(w) ==
    LET u == updates[w].user IN
    /\ updates[w].at = "update"
    /\ IF Present(u)
           THEN /\ users' = [users EXCEPT
                       ![u].role = updates[w].role,
                       ![u].enabled = updates[w].enabled,
                       ![u].bounds = IF updates[w].cuts THEN @ + 1 ELSE @]
                /\ IF updates[w].cuts THEN Boundary(u)
                                       ELSE UNCHANGED <<sessions, grants>>
           ELSE UNCHANGED <<users, sessions, grants>>
    /\ Holds(w, NoUpdate)
    /\ UNCHANGED <<streams, requests, maintenance, trouble>>

\* update_user_password
ChangePassword(a, u) ==
    /\ ActsAsAdmin(a)
    /\ Present(u)
    /\ Trouble
    /\ users' = [users EXCEPT ![u].bounds = @ + 1]
    /\ Boundary(u)
    /\ UNCHANGED <<streams, requests, updates, maintenance>>

\* update_download_access_for_user: when less is allowed than before, downloads
\* of what is not allowed any more are revoked.
ChangeDownloadAccess(a, u, S) ==
    /\ ActsAsAdmin(a)
    /\ Present(u)
    /\ S \subseteq {g \in GrantsOf(u) : grants[g].kind = "download"}
    /\ Revoke(S)
    /\ UNCHANGED <<users, sessions, streams, requests, updates, maintenance,
                   trouble>>

\* delete_user up to its first write, and delete_self.
DeleteRead(w, a, u) ==
    /\ updates[w].at = "idle"
    /\ ActsAsAdmin(a)
    /\ Present(u)
    /\ ~LastAdmin(u)
    /\ Trouble
    /\ Holds(w, [NoUpdate EXCEPT !.at = IF a = u THEN "self" ELSE "delete",
                                 !.user = u])
    /\ UNCHANGED <<users, sessions, grants, streams, requests, maintenance>>

\* The row of the user goes, and by their foreign keys those of its logins,
\* native sessions and downloads.
DeleteWrite(w) ==
    LET u == updates[w].user IN
    /\ updates[w].at = "delete"
    /\ users' = [users EXCEPT ![u].role = "gone", ![u].bounds = @ + 1]
    /\ sessions' = [s \in Logins |->
                       IF s \in LoginsOf(u)
                           THEN [sessions[s] EXCEPT
                                    !.state = "gone",
                                    !.reason = IF sessions[s].state \in Unrevoked
                                                   THEN "ended" ELSE @]
                           ELSE sessions[s]]
    /\ Revoke(GrantsOf(u))
    /\ Holds(w, NoUpdate)
    /\ UNCHANGED <<streams, requests, maintenance, trouble>>

\* The middle section of delete_self.
SelfRevoke(w) ==
    LET u == updates[w].user IN
    /\ updates[w].at = "self"
    /\ users' = [users EXCEPT ![u].bounds = @ + 1]
    /\ Boundary(u)
    /\ Holds(w, [updates[w] EXCEPT !.at = "erase"])
    /\ UNCHANGED <<streams, requests, maintenance, trouble>>

\* Its last one; what was granted meanwhile goes too, but for handoffs.
SelfErase(w) ==
    LET u == updates[w].user IN
    /\ updates[w].at = "erase"
    /\ users' = [users EXCEPT ![u].role = "gone"]
    /\ sessions' = [s \in Logins |->
                       IF s \in LoginsOf(u) THEN [sessions[s] EXCEPT !.state = "gone"]
                                            ELSE sessions[s]]
    /\ grants' = [g \in Grants |->
                     IF g \in GrantsOf(u) /\ grants[g].kind # "handoff"
                         THEN Over("closed")
                         ELSE grants[g]]
    /\ Holds(w, NoUpdate)
    /\ UNCHANGED <<streams, requests, maintenance, trouble>>

----------------------------------------------------------------------------
\* The whole server.

\* enable_maintenance_mode: the lock first.
LockServer(w, a) ==
    /\ updates[w].at = "idle"
    /\ ActsAsAdmin(a)
    /\ Trouble
    /\ maintenance' = TRUE
    /\ Holds(w, [NoUpdate EXCEPT !.at = "maintain"])
    /\ UNCHANGED <<users, sessions, grants, streams, requests>>

\* Then the logins of those who are not administrators, with their downloads
\* and coupled native sessions.
MaintenanceRevoke(w) ==
    LET L == {s \in Logins : /\ sessions[s].state \in Unrevoked
                             /\ users[sessions[s].user].role # "admin"}
    IN
    /\ updates[w].at = "maintain"
    /\ EndLogins(L, "revoked", "maintenance_mode")
    /\ Revoke(GrantedFrom(L, {"coupled", "download"}))
    /\ Holds(w, NoUpdate)
    /\ UNCHANGED <<users, streams, requests, maintenance, trouble>>

\* disable_maintenance_mode
UnlockServer(a) ==
    /\ maintenance
    /\ ActsAsAdmin(a)
    /\ maintenance' = FALSE
    /\ UNCHANGED <<users, sessions, grants, streams, requests, updates,
                   trouble>>

\* rotate_url_prefix, from the command line: everybody starts anew.
RotatePrefix ==
    /\ Admins # {}
    /\ Trouble
    /\ users' = [u \in Users |-> [users[u] EXCEPT !.bounds = @ + 1]]
    /\ sessions' = [s \in Logins |->
                       IF sessions[s].state = "none" THEN sessions[s]
                       ELSE [sessions[s] EXCEPT !.state = "gone"]]
    /\ Revoke(Grants)
    /\ UNCHANGED <<streams, requests, updates, maintenance>>

----------------------------------------------------------------------------
LoginSteps ==
    \/ \E r \in Requests : \/ \E u \in Users : LoginStart(r, u)
                           \/ \E s \in Logins : LoginInsert(r, s)
                           \/ InsertFails(r)
    \/ \E s \in Logins : \/ LoginExpires(s)
                         \/ AuthExpires(s)
                         \/ ForgetLogin(s)
                         \/ Logout(s)
                         \/ \E a \in Users : RevokeLogin(a, s)

GrantSteps ==
    \/ \E r \in Requests, s \in Logins, kind \in Kinds,
          place \in {"insert", "backend"} : Authenticate(r, s, place, kind)
    \/ \E r \in Requests, g \in Grants : InsertGrant(r, g)
    \/ \E g \in Grants : \/ CloseGrant(g)
                         \/ Expire(g)
                         \/ StartStream(g)
                         \/ IntervalPasses(g)
                         \/ Chunk(g)
                         \/ StreamEnds(g)

UserSteps ==
    \/ \E a, u \in Users, role \in Roles, enabled \in BOOLEAN :
          CreateUser(a, u, role, enabled)
    \/ \E w \in Updates, a, u \in Users, role \in Roles, enabled \in BOOLEAN :
          UpdateRead(w, a, u, role, enabled)
    \/ \E a, u \in Users : \/ ChangePassword(a, u)
                           \/ \E S \in SUBSET Grants :
                                 ChangeDownloadAccess(a, u, S)
    \/ \E w \in Updates, a, u \in Users : DeleteRead(w, a, u)
    \/ \E w \in Updates : \/ UpdateWrite(w)
                          \/ DeleteWrite(w)
                          \/ SelfRevoke(w)
                          \/ SelfErase(w)

ServerSteps ==
    \/ \E w \in Updates : \/ \E a \in Users : LockServer(w, a)
                          \/ MaintenanceRevoke(w)
    \/ \E a \in Users : UnlockServer(a)
    \/ RotatePrefix

Next == LoginSteps \/ GrantSteps \/ UserSteps \/ ServerSteps

Spec == Init /\ [][Next]_vars

\* A client that goes on reading asks for chunk after chunk, and time passes.
FairSpec ==
    /\ Spec
    /\ \A g \in Grants : WF_vars(Chunk(g)) /\ WF_vars(IntervalPasses(g))

----------------------------------------------------------------------------
\* A grant stands while nothing has happened that revokes grants of its kind,
\* unless its request was overtaken by that end.  Since it was made no role
\* change, password change, disabling or deletion has ended all its user had
\* (_revoke_user_security_boundary_in_connection).  External playback outlives
\* its login except when an administrator revokes it; coupled sessions,
\* downloads and handoffs end with a logout, a revocation and a request that
\* finds the login idle or expired, and all but handoffs with the maintenance
\* mode (_revoke_session_ids, _delete_session_for_auth_expiry).  A login that
\* expires without such a request takes nothing with it, and cleaning it up only
\* the downloads (cleanup_expired_sessions): coupled sessions are useless then,
\* handoffs go on.
GrantsFollowTheirLogin ==
    \A g \in Grants :
        /\ grants[g].state \in {"open", "lapsed"}
        /\ ~grants[g].late
        => /\ grants[g].bounds = users[grants[g].user].bounds
           /\ users[grants[g].user].enabled
           /\ sessions[grants[g].session].reason
                  \in EndsThatSpare(grants[g].kind)

\* External playback is not taken from a player by its user's logout, by an
\* idle login or by the maintenance mode: only an administrator's revocation
\* of its very login, or a change of the user, revokes it
\* (docs/SECURITY_ENGINEERING_CHECKLIST.md, "Playback Session Revocation").
ExternalPlaybackSurvivesLogout ==
    [][\A g \in Grants :
          /\ grants[g].kind = "external"
          /\ grants[g].state = "open"
          /\ grants'[g].state \notin {"open", "closed"}
          => \/ users'[grants[g].user] # users[grants[g].user]
             \/ sessions'[grants[g].session].reason = "admin_revoked"]_vars

\* A stream whose grant has become useless, however it did, is cut within an
\* interval of its validator, unless the account is enabled again meanwhile
\* (_build_native_stream_validator, is_download_session_still_authorized).
StreamsEnd ==
    \A g \in Grants :
        streams[g] # "none" /\ ~Usable(g, {"open", "lapsed"})
            ~> streams[g] = "none" \/ Usable(g, {"open", "lapsed"})

=============================================================================
