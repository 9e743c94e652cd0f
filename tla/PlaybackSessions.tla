-------------------------- MODULE PlaybackSessions --------------------------
(***************************************************************************)
(* Which Route 2 playbacks a user has: creating, adopting, stopping and    *)
(* expiring them, and ending those whose login has been taken away         *)
(* (MobilePlaybackManager in services/mobile_playback_service.py).         *)
(*                                                                         *)
(* A request is authenticated first and then works in sections under the   *)
(* manager's lock; what happened in between shows in the next section      *)
(* only.  A section is one step.  Choices are: whether a playback is of    *)
(* the film, profile, mode and audio stream that a request asks for, and   *)
(* near enough; which of several was used last; what the measured load     *)
(* admits; when a playback expires.  An identifier is used again when      *)
(* nothing knows it any more.                                              *)
(***************************************************************************)
EXTENDS Naturals

CONSTANTS
    Playbacks,     \* identifiers of playback sessions
    Logins,        \* rows of the table sessions, of one user
    Calls,         \* request threads
    Ordinary,      \* the user is not an administrator
    MaxTrouble,    \* bound: what Trouble counts
    None

ASSUME PlaybackConstants ==
    /\ Ordinary \in BOOLEAN
    /\ MaxTrouble \in Nat
    /\ None \notin Playbacks \cup Logins
    /\ None \notin [login : Logins, failed : BOOLEAN]

VARIABLES
    playback,      \* _sessions
    indexed,       \* _route2_session_ids_by_user
    preferred,     \* _active_session_by_user
    login,         \* the table sessions
    standing,      \* the row of the user in the table users
    call,          \* what each request holds
    manager,       \* where the manager loop is, and what it has read
    admin,         \* what an administrator's request has still to end
    trouble,
    disturbed      \* history: two playbacks could come up unseen

vars == <<playback, indexed, preferred, login, standing, call, manager, admin,
          trouble, disturbed>>
registry == <<playback, indexed, preferred>>
accounts == <<login, standing>>

PlaybackStates == [login : Logins, failed : BOOLEAN]
Places == {"idle", "arrived", "found", "touched", "admitting", "registering",
           "created"}
CallStates == [at : Places, login : Logins \cup {None},
               target : Playbacks \cup {None}]
Idle == [at |-> "idle", login |-> None, target |-> None]
Quiet == [drop |-> {}, user |-> FALSE, stop |-> None]

TypeOK ==
    /\ playback \in [Playbacks -> PlaybackStates \cup {None}]
    /\ indexed \subseteq Playbacks
    /\ preferred \in Playbacks \cup {None}
    /\ login \in [Logins -> {"new", "live", "logout", "revoked", "gone"}]
    /\ standing \in {"enabled", "disabled", "deleted"}
    /\ call \in [Calls -> CallStates]
    /\ manager \in [at : {"read", "query", "drop", "clean"},
                    logins : SUBSET Logins, user : BOOLEAN]
    /\ admin \in [drop : SUBSET Logins, user : BOOLEAN,
                  stop : Playbacks \cup {None}]
    /\ trouble \in 0..MaxTrouble
    /\ disturbed \in BOOLEAN

\* The server has started; logins outlive it, playbacks do not.
Init ==
    /\ playback = [p \in Playbacks |-> None]
    /\ indexed = {}
    /\ preferred = None
    /\ login \in [Logins -> {"new", "live"}]
    /\ standing = "enabled"
    /\ call = [c \in Calls |-> Idle]
    /\ manager = [at |-> "read", logins |-> {}, user |-> FALSE]
    /\ admin = Quiet
    /\ trouble = 0
    /\ disturbed = FALSE

Trouble == trouble < MaxTrouble /\ trouble' = trouble + 1

Kept == {p \in Playbacks : playback[p] # None}
Live == {p \in Kept : ~playback[p].failed}
HeldBy(l) == {p \in Kept : playback[p].login = l}

At(c, place) == call[c].at = place
Becomes(c, held) == call' = [call EXCEPT ![c] = held]
Goes(c, place) == Becomes(c, [call[c] EXCEPT !.at = place])
Finishes(c) == Becomes(c, Idle)
\* c has found no playback in its way and has not registered its own yet.
Starting(c) == At(c, "admitting") \/ At(c, "registering")

\* _adopt_session_authority_locked
Adopt(P, l) ==
    playback' = [p \in Playbacks |->
                    IF p \in P THEN [playback[p] EXCEPT !.login = l]
                               ELSE playback[p]]

\* Mutant of Heirs: the heir is sought before the playback leaves _sessions.
HeirsTooEarly(out) == IF Live = {} THEN {None} ELSE Live

\* _unregister_session_locked chooses another one with
\* _resolve_preferred_session_locked.
Heirs(out) == IF Live \ out = {} THEN {None} ELSE Live \ out

\* The playbacks "out" leave _sessions in one locked section; their epochs
\* are terminated afterwards (Leave and Terminate of Route2Workers).
TakeOut(out) ==
    /\ playback' = [p \in Playbacks |-> IF p \in out THEN None ELSE playback[p]]
    /\ indexed' = indexed \ out
    /\ IF preferred \in out THEN preferred' \in Heirs(out)
                            ELSE preferred' = preferred

-----------------------------------------------------------------------------
(* create_session *)

\* The login is looked up in the database before the handler runs.
Arrive(c, l) ==
    /\ At(c, "idle")
    /\ login[l] = "live"
    /\ standing = "enabled"
    /\ Becomes(c, [Idle EXCEPT !.at = "arrived", !.login = l])
    /\ UNCHANGED <<registry, accounts, manager, admin, trouble, disturbed>>

\* The first playback that can be used again ends the search; those before it
\* that match but are too far away have been adopted as well.
FindCompatible(c, p) ==
    /\ At(c, "arrived")
    /\ p \in Live
    /\ \E tried \in SUBSET Live : Adopt(tried \cup {p}, call[c].login)
    /\ Becomes(c, [call[c] EXCEPT !.at = "found", !.target = p])
    /\ UNCHANGED <<indexed, preferred, accounts, manager, admin, trouble,
                   disturbed>>

\* Mutant of Conflicting: the preferred playback is looked at, as it is for the
\* old engine, and not the index.
ConflictingPreferred == Live \cap {preferred}

\* Any playback that has not failed is in the way, whatever it plays.
Conflicting == Live

\* ActivePlaybackWorkerConflictError
FindConflict(c) ==
    /\ At(c, "arrived")
    /\ Ordinary
    /\ Conflicting # {}
    /\ \E tried \in SUBSET Live : Adopt(tried, call[c].login)
    /\ Finishes(c)
    /\ UNCHANGED <<indexed, preferred, accounts, manager, admin, trouble,
                   disturbed>>

FindNothing(c) ==
    /\ At(c, "arrived")
    /\ Ordinary => Conflicting = {}
    /\ \E tried \in SUBSET Live : Adopt(tried, call[c].login)
    /\ Goes(c, "admitting")
    /\ disturbed' = (disturbed \/ \E d \in Calls : Starting(d))
    /\ UNCHANGED <<indexed, preferred, accounts, manager, admin, trouble>>

\* _raise_if_route2_admission_denied_locked
Admit(c) ==
    /\ At(c, "admitting")
    /\ Goes(c, "registering")
    /\ UNCHANGED <<registry, accounts, manager, admin, trouble, disturbed>>

Register(c, p) ==
    /\ At(c, "registering")
    /\ p \notin Kept \cup {admin.stop} \cup {call[d].target : d \in Calls}
    /\ playback' = [playback EXCEPT
                       ![p] = [login |-> call[c].login, failed |-> FALSE]]
    /\ indexed' = indexed \cup {p}
    /\ preferred' = p
    /\ Becomes(c, [call[c] EXCEPT !.at = "created", !.target = p])
    /\ UNCHANGED <<accounts, manager, admin, trouble, disturbed>>

\* get_session of the new playback, without the login.
ShowCreated(c) ==
    /\ At(c, "created")
    /\ preferred' = IF call[c].target \in Kept THEN call[c].target
                                               ELSE preferred
    /\ Finishes(c)
    /\ UNCHANGED <<playback, indexed, accounts, manager, admin, trouble,
                   disturbed>>

\* touch_session; what follows is a request for that very playback.
TouchFound(c) ==
    /\ At(c, "found")
    /\ preferred' = IF call[c].target \in Kept THEN call[c].target
                                               ELSE preferred
    /\ Goes(c, "touched")
    /\ UNCHANGED <<playback, indexed, accounts, manager, admin, trouble,
                   disturbed>>

-----------------------------------------------------------------------------
(* Handlers with a single section *)

\* get_session, update_runtime, seek_session and the audio switches; only the
\* first two touch the playback.
Use(c, p) ==
    /\ At(c, "arrived") \/ (At(c, "touched") /\ call[c].target = p)
    /\ p \in Kept
    /\ Adopt({p}, call[c].login)
    /\ preferred' \in {preferred, p}
    /\ Finishes(c)
    /\ UNCHANGED <<indexed, accounts, manager, admin, trouble, disturbed>>

\* get_active_session for all items, get_active_session_for_item for one.
LookUp(c, found) ==
    /\ At(c, "arrived")
    /\ IF found = {}
          THEN preferred' = None /\ playback' = playback
          ELSE \E p \in found :
                  /\ preferred \in found => p = preferred
                  /\ preferred' = p
                  /\ Adopt({p}, call[c].login)
    /\ Finishes(c)
    /\ UNCHANGED <<indexed, accounts, manager, admin, trouble, disturbed>>

\* Manifests and segments of an epoch are found by the user alone.
RequestMedia(c, p) ==
    /\ At(c, "arrived")
    /\ p \in Kept
    /\ preferred' = p
    /\ Finishes(c)
    /\ UNCHANGED <<playback, indexed, accounts, manager, admin, trouble,
                   disturbed>>

Stop(c, p) ==
    /\ At(c, "arrived")
    /\ p \in Kept
    /\ TakeOut({p})
    /\ Finishes(c)
    /\ UNCHANGED <<accounts, manager, admin, trouble, disturbed>>

\* The answer is an error: not found, not admitted.
Refuse(c) ==
    /\ call[c].at \in {"arrived", "touched", "admitting"}
    /\ Finishes(c)
    /\ UNCHANGED <<registry, accounts, manager, admin, trouble, disturbed>>

-----------------------------------------------------------------------------
(* Logins and administration: the database first, the playbacks afterwards *)

AdminDone == UNCHANGED <<registry, call, manager, disturbed>>

LogIn(l) ==
    /\ login[l] = "new"
    /\ standing = "enabled"
    /\ login' = [login EXCEPT ![l] = "live"]
    /\ UNCHANGED <<registry, standing, call, manager, admin, trouble,
                   disturbed>>

\* destroy_session, or the idle timeout that deletes the row: playback is not
\* told.
LoseLogin(l) ==
    /\ login[l] = "live"
    /\ Trouble
    /\ \E end \in {"logout", "gone"} : login' = [login EXCEPT ![l] = end]
    /\ UNCHANGED <<standing, admin>>
    /\ AdminDone

Alter(from, to) ==
    login' = [l \in Logins |-> IF login[l] \in from THEN to ELSE login[l]]

\* admin_revoke_session
RevokeLogin(l) ==
    /\ admin = Quiet
    /\ login[l] = "live"
    /\ Trouble
    /\ login' = [login EXCEPT ![l] = "revoked"]
    /\ admin' = [Quiet EXCEPT !.drop = {l}]
    /\ UNCHANGED standing
    /\ AdminDone

\* A new password or role, or the account is disabled.
CloseAccount ==
    /\ admin = Quiet
    /\ standing = "enabled"
    /\ Trouble
    /\ Alter({"live"}, "revoked")
    /\ standing' \in {"enabled", "disabled"}
    /\ admin' = [Quiet EXCEPT !.user = TRUE]
    /\ AdminDone

Enable ==
    /\ standing = "disabled"
    /\ standing' = "enabled"
    /\ UNCHANGED <<login, admin, trouble>>
    /\ AdminDone

\* The rows of the logins go with the row of the user.
DeleteUser ==
    /\ admin = Quiet
    /\ standing # "deleted"
    /\ Trouble
    /\ standing' = "deleted"
    /\ Alter({"live", "logout", "revoked"}, "gone")
    /\ admin' = [Quiet EXCEPT !.user = TRUE]
    /\ AdminDone

\* admin_rotate_url_prefix deletes every login.
RotatePrefix ==
    /\ admin = Quiet
    /\ Trouble
    /\ Alter({"live", "logout", "revoked"}, "gone")
    /\ admin' = [Quiet EXCEPT
                    !.drop = {l \in Logins :
                                 login[l] \in {"live", "logout", "revoked"}}]
    /\ UNCHANGED standing
    /\ AdminDone

\* terminate_route2_worker, up to the call of stop_session.
Terminate(p) ==
    /\ admin = Quiet
    /\ p \in Kept
    /\ Trouble
    /\ admin' = [Quiet EXCEPT !.stop = p]
    /\ UNCHANGED accounts
    /\ AdminDone

AdminStops ==
    /\ admin.stop # None
    /\ TakeOut({admin.stop} \cap Kept)
    /\ admin' = Quiet
    /\ UNCHANGED <<accounts, call, manager, trouble, disturbed>>

\* invalidate_auth_session
AdminDropsLogin(l) ==
    /\ l \in admin.drop
    /\ TakeOut(HeldBy(l))
    /\ admin' = [admin EXCEPT !.drop = @ \ {l}]
    /\ UNCHANGED <<accounts, call, manager, trouble, disturbed>>

\* invalidate_user_sessions
AdminDropsUser ==
    /\ admin.user
    /\ TakeOut(Kept)
    /\ admin' = Quiet
    /\ UNCHANGED <<accounts, call, manager, trouble, disturbed>>

-----------------------------------------------------------------------------
(* The manager loop *)

\* The logins of the playbacks there are; without playbacks the database is
\* not asked.
ReadPlaybacks ==
    /\ manager.at = "read"
    /\ manager' = [at |-> IF Kept = {} THEN "clean" ELSE "query",
                   logins |-> {playback[p].login : p \in Kept},
                   user |-> FALSE]
    /\ UNCHANGED <<registry, accounts, call, admin, trouble, disturbed>>

\* Mutant of Revoked: whoever has logged out is taken for revoked.
RevokedOrLoggedOut(L) == {l \in L : login[l] \in {"revoked", "logout"}}

\* Mutant of Revoked: only accounts are looked at, not single logins.
RevokedWithAccount(L) == {l \in L : login[l] = "revoked" /\ standing # "enabled"}

\* Who has logged out may go on, and rows that are gone say nothing.
Revoked(L) == {l \in L : login[l] = "revoked"}

ReadRows ==
    /\ manager.at = "query"
    /\ manager' = [at |-> "drop", logins |-> Revoked(manager.logins),
                   user |-> standing = "disabled"]
    /\ UNCHANGED <<registry, accounts, call, admin, trouble, disturbed>>

DropUser ==
    /\ manager.at = "drop"
    /\ manager.user
    /\ TakeOut(Kept)
    /\ manager' = [manager EXCEPT !.user = FALSE]
    /\ UNCHANGED <<accounts, call, admin, trouble, disturbed>>

DropLogin(l) ==
    /\ manager.at = "drop"
    /\ ~manager.user
    /\ l \in manager.logins
    /\ TakeOut(HeldBy(l))
    /\ manager' = [manager EXCEPT !.logins = @ \ {l}]
    /\ UNCHANGED <<accounts, call, admin, trouble, disturbed>>

Reconciled ==
    /\ manager.at = "drop"
    /\ ~manager.user
    /\ manager.logins = {}
    /\ manager' = [manager EXCEPT !.at = "clean"]
    /\ UNCHANGED <<registry, accounts, call, admin, trouble, disturbed>>

\* _cleanup_sessions_and_cache: the playbacks that have expired.
CleanUp(out) ==
    /\ manager.at = "clean"
    /\ TakeOut(out)
    /\ manager' = [manager EXCEPT !.at = "read"]
    /\ UNCHANGED <<accounts, call, admin, trouble, disturbed>>

\* What _refresh_route2_session_authority_locked makes of a playback whose
\* epochs fail, and whose retry succeeds later (Route2Epochs).
Fail(p) ==
    /\ p \in Live
    /\ Trouble
    /\ playback' = [playback EXCEPT ![p] = [@ EXCEPT !.failed = TRUE]]
    /\ UNCHANGED <<indexed, preferred, accounts, call, manager, admin,
                   disturbed>>

Recover(p) ==
    /\ p \in Kept \ Live
    /\ playback' = [playback EXCEPT ![p] = [@ EXCEPT !.failed = FALSE]]
    /\ disturbed' = \/ disturbed
                    \/ Live # {}
                    \/ \E c \in Calls : Starting(c)
    /\ UNCHANGED <<indexed, preferred, accounts, call, manager, admin,
                   trouble>>

Create(c) ==
    \/ \E p \in Playbacks : FindCompatible(c, p) \/ Register(c, p)
    \/ FindConflict(c) \/ FindNothing(c) \/ Admit(c)
    \/ ShowCreated(c) \/ TouchFound(c)

Control(c) ==
    \/ \E p \in Playbacks : Use(c, p) \/ RequestMedia(c, p) \/ Stop(c, p)
    \/ \E found \in SUBSET Live : LookUp(c, found)
    \/ Refuse(c)

Administer ==
    \/ \E l \in Logins : \/ LogIn(l) \/ LoseLogin(l) \/ RevokeLogin(l)
                         \/ AdminDropsLogin(l)
    \/ \E p \in Playbacks : Terminate(p)
    \/ CloseAccount \/ Enable \/ DeleteUser \/ RotatePrefix
    \/ AdminStops \/ AdminDropsUser

Manage ==
    \/ ReadPlaybacks \/ ReadRows \/ DropUser
    \/ \E l \in Logins : DropLogin(l)
    \/ Reconciled
    \/ \E out \in SUBSET Kept : CleanUp(out)

Next ==
    \/ \E c \in Calls : \/ \E l \in Logins : Arrive(c, l)
                        \/ Create(c) \/ Control(c)
    \/ Administer
    \/ Manage
    \/ \E p \in Playbacks : Fail(p) \/ Recover(p)

\* The manager loop runs each second.
Spec == Init /\ [][Next]_vars /\ WF_vars(Manage)

-----------------------------------------------------------------------------
(* Properties *)

\* The three tables of playbacks agree after any sequence of starts, stops,
\* expiries and invalidations, several at a time included: the index holds the
\* playbacks of _sessions and no others, and the preferred one is among them
\* (mobile_playback_service.py:3093).
RegistryAgrees ==
    /\ indexed = Kept
    /\ preferred \in Kept \cup {None}

\* An ordinary user has one playback at most that has not failed, as
\* ActivePlaybackWorkerConflictError promises, whatever it plays and
\* whichever login started it, unless two starts overlapped between search and
\* registration (1565, 1641) or a failed one came back beside its successor.
OnePlayback ==
    Ordinary /\ ~disturbed => \A p, q \in Live : p = q

\* A playback that ends because its login was revoked belongs to that login in
\* that moment: what the manager loop read is out of date when it acts, and a
\* playback that another login has adopted since stays (14837, 10671); so does
\* one whose login has only logged out (14832).
RevocationsAreFounded ==
    [][ \A l \in Logins : DropLogin(l) \/ AdminDropsLogin(l)
           => \A p \in Kept \ Kept' :
                  login[playback[p].login] \in {"revoked", "gone"} ]_vars

\* A playback does not stay with a login that was revoked, not even one that
\* its start registered after the administrator's request had looked for it:
\* the manager loop ends it, unless another login has taken it over (14790).
RevokedLoginsLoseTheirPlayback ==
    \A l \in Logins :
        login[l] = "revoked" /\ HeldBy(l) # {}
            ~> login[l] # "revoked" \/ HeldBy(l) = {}

=============================================================================
