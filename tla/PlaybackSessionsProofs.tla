----------------------- MODULE PlaybackSessionsProofs -----------------------
(***************************************************************************)
(* Proofs about the playbacks of one user, for any number of playbacks,    *)
(* logins and request threads.                                             *)
(***************************************************************************)
EXTENDS PlaybackSessions, TLAPS

-----------------------------------------------------------------------------
(* The inductive invariant *)

\* Whoever is about to register found no playback that had not failed, is
\* alone with it, and there is one playback at most.
StartsAreAlone ==
    /\ \A p, q \in Live : p = q
    /\ \A c \in Calls : Starting(c) => Live = {}
    /\ \A c, d \in Calls : Starting(c) /\ Starting(d) => c = d

Ended(l) == login[l] \in {"revoked", "gone"}

\* The logins that somebody is about to act upon are revoked or gone; what the
\* manager loop has collected but not looked up yet says nothing.
ActsOnRevoked ==
    /\ \A l \in admin.drop : Ended(l)
    /\ manager.at = "drop" => \A l \in manager.logins : Ended(l)

\* A request in progress was authenticated by a login.
Authenticated == \A c \in Calls : call[c].at # "idle" => call[c].login \in Logins

IInv ==
    /\ TypeOK
    /\ RegistryAgrees
    /\ Authenticated
    /\ Ordinary /\ ~disturbed => StartsAreAlone
    /\ ActsOnRevoked

-----------------------------------------------------------------------------
(* What the parts of an action do *)

\* The request c holds h afterwards, and the others what they held.
LEMMA CallMoves ==
  ASSUME TypeOK, NEW c \in Calls, NEW h \in CallStates, Becomes(c, h)
  PROVE  /\ call' \in [Calls -> CallStates]
         /\ call'[c] = h
         /\ \A d \in Calls \ {c} : call'[d] = call[d]
BY DEF TypeOK, Becomes

\* What a request may hold next has the type of what it holds.
LEMMA Held ==
  ASSUME TypeOK, NEW c \in Calls
  PROVE  /\ Idle \in CallStates /\ Idle.at = "idle"
         /\ \A place \in Places :
               /\ [call[c] EXCEPT !.at = place] \in CallStates
               /\ [call[c] EXCEPT !.at = place].at = place
               /\ [call[c] EXCEPT !.at = place].login = call[c].login
<1>1. call[c] \in CallStates
  BY DEF TypeOK
<1>2. Idle \in CallStates /\ Idle.at = "idle"
  BY DEF Idle, CallStates, Places
<1> QED
  BY <1>1, <1>2 DEF CallStates

LEMMA Aimed ==
  ASSUME TypeOK, NEW c \in Calls, NEW place \in Places, NEW p \in Playbacks
  PROVE  LET h == [call[c] EXCEPT !.at = place, !.target = p]
         IN  h \in CallStates /\ h.at = place /\ h.login = call[c].login
<1> call[c] \in CallStates
  BY DEF TypeOK
<1> QED
  BY DEF CallStates

LEMMA Entered ==
  ASSUME NEW place \in Places, NEW l \in Logins
  PROVE  LET h == [Idle EXCEPT !.at = place, !.login = l]
         IN  h \in CallStates /\ h.at = place /\ h.login \in Logins
BY DEF CallStates, Idle

\* Adoption changes the login of playbacks and nothing else of them.
LEMMA AdoptKeeps ==
  ASSUME TypeOK, NEW P \in SUBSET Kept, NEW l \in Logins, Adopt(P, l)
  PROVE  /\ playback' \in [Playbacks -> PlaybackStates \cup {None}]
         /\ Kept' = Kept
         /\ Live' = Live
<1> USE PlaybackConstants
<1>1. playback \in [Playbacks -> PlaybackStates \cup {None}]
  BY DEF TypeOK
<1>2. None \notin PlaybackStates
  BY DEF PlaybackStates
<1>3. \A p \in P : /\ playback[p] \in PlaybackStates
                    /\ [playback[p] EXCEPT !.login = l] \in PlaybackStates
                    /\ [playback[p] EXCEPT !.login = l].failed = playback[p].failed
  BY <1>1 DEF Kept, PlaybackStates
<1>4. \A p \in Playbacks :
         playback'[p] = IF p \in P THEN [playback[p] EXCEPT !.login = l]
                                   ELSE playback[p]
  BY DEF Adopt
<1>5. playback' \in [Playbacks -> PlaybackStates \cup {None}]
  BY <1>1, <1>3 DEF Adopt
<1>6. Kept' = Kept
  BY <1>2, <1>3, <1>4 DEF Kept
<1>7. \A p \in Kept : playback'[p].failed = playback[p].failed
  BY <1>3, <1>4 DEF Kept
<1> QED
  BY <1>5, <1>6, <1>7 DEF Live

\* Playbacks that leave are in no table any more; the heir is one that stays.
LEMMA OutAgrees ==
  ASSUME TypeOK, RegistryAgrees, NEW out \in SUBSET Kept, TakeOut(out)
  PROVE  /\ playback' \in [Playbacks -> PlaybackStates \cup {None}]
         /\ indexed' \subseteq Playbacks
         /\ preferred' \in Playbacks \cup {None}
         /\ Kept' = Kept \ out
         /\ RegistryAgrees'
         /\ Live' \subseteq Live
<1>1. playback \in [Playbacks -> PlaybackStates \cup {None}]
  BY DEF TypeOK
<1>2. \A p \in Playbacks :
         playback'[p] = IF p \in out THEN None ELSE playback[p]
  BY DEF TakeOut
<1>3. playback' \in [Playbacks -> PlaybackStates \cup {None}]
  BY <1>1 DEF TakeOut
<1>4. Kept' = Kept \ out
  BY <1>2 DEF Kept
<1>5. Live' = Live \ out
  BY <1>2, <1>4 DEF Live, Kept
<1>6. indexed' = Kept'
  BY <1>4 DEF TakeOut, RegistryAgrees
<1>7. preferred' \in Kept' \cup {None}
  <2>1. CASE preferred \in out
    BY <1>4, <2>1 DEF TakeOut, Heirs, Live
  <2>2. CASE preferred \notin out
    BY <1>4, <2>2 DEF TakeOut, RegistryAgrees
  <2> QED
    BY <2>1, <2>2
<1>8. Kept' \subseteq Playbacks
  BY <1>4 DEF Kept
<1> QED
  BY <1>3, <1>4, <1>5, <1>6, <1>7, <1>8 DEF RegistryAgrees

-----------------------------------------------------------------------------
(* Kinds of steps that keep the invariant *)

\* The tables of playbacks are well typed and agree.
Registry ==
    /\ playback \in [Playbacks -> PlaybackStates \cup {None}]
    /\ indexed \subseteq Playbacks
    /\ preferred \in Playbacks \cup {None}
    /\ RegistryAgrees

LEMMA RegistryHolds == IInv => Registry
BY DEF IInv, TypeOK, Registry

\* A request goes on, without beginning a start: it may use playbacks, adopt
\* them and end them.
LEMMA RequestStep ==
  ASSUME IInv, NEW c \in Calls, NEW h \in CallStates, Becomes(c, h),
         h.at # "idle" => h.login \in Logins,
         h.at \in {"admitting", "registering"} => Starting(c),
         Registry', Live' \subseteq Live,
         UNCHANGED <<accounts, manager, admin, trouble, disturbed>>
  PROVE  IInv'
<1>1. /\ call' \in [Calls -> CallStates]
      /\ call'[c] = h
      /\ \A d \in Calls \ {c} : call'[d] = call[d]
  BY CallMoves DEF IInv
<1>2. TypeOK'
  BY <1>1 DEF IInv, TypeOK, Registry, accounts
<1>3. \A d \in Calls : call'[d].at \in {"admitting", "registering"} => Starting(d)
  BY <1>1 DEF Starting, At
<1>4. (Ordinary /\ ~disturbed => StartsAreAlone)'
  BY <1>3 DEF IInv, StartsAreAlone, Starting, At
<1>5. ActsOnRevoked'
  BY DEF IInv, ActsOnRevoked, Ended, accounts
<1>6. Authenticated'
  BY <1>1 DEF IInv, Authenticated
<1> QED
  BY <1>2, <1>4, <1>5, <1>6 DEF IInv, Registry

\* Accounts change; who was revoked or gone stays that.
LEMMA AccountStep ==
  ASSUME IInv, UNCHANGED <<registry, call, manager, disturbed>>,
         login' \in [Logins -> {"new", "live", "logout", "revoked", "gone"}],
         standing' \in {"enabled", "disabled", "deleted"},
         admin' \in [drop : SUBSET Logins, user : BOOLEAN,
                     stop : Playbacks \cup {None}],
         trouble' \in 0..MaxTrouble,
         \A l \in Logins : Ended(l) => login'[l] \in {"revoked", "gone"},
         \A l \in admin'.drop : login'[l] \in {"revoked", "gone"}
  PROVE  IInv'
<1>1. TypeOK'
  BY DEF IInv, TypeOK, registry
<1>2. RegistryAgrees' /\ Live' = Live
  BY DEF IInv, RegistryAgrees, Kept, Live, registry
<1>3. (Ordinary /\ ~disturbed => StartsAreAlone)'
  BY <1>2 DEF IInv, StartsAreAlone, Starting, At
<1>4. manager.logins \in SUBSET Logins
  BY DEF IInv, TypeOK
<1>5. ActsOnRevoked'
  BY <1>4 DEF IInv, ActsOnRevoked, Ended
<1>6. Authenticated'
  BY DEF IInv, Authenticated
<1> QED
  BY <1>1, <1>2, <1>3, <1>5, <1>6 DEF IInv

\* The administrator's request or the manager loop goes on and ends playbacks.
LEMMA EndingStep ==
  ASSUME IInv, UNCHANGED <<accounts, call, trouble, disturbed>>,
         Registry', Live' \subseteq Live,
         manager' \in [at : {"read", "query", "drop", "clean"},
                       logins : SUBSET Logins, user : BOOLEAN],
         admin' \in [drop : SUBSET Logins, user : BOOLEAN,
                     stop : Playbacks \cup {None}],
         admin'.drop \subseteq admin.drop,
         manager'.at = "drop" => \A l \in manager'.logins : Ended(l)
  PROVE  IInv'
<1>1. TypeOK'
  BY DEF IInv, TypeOK, Registry, accounts
<1>2. (Ordinary /\ ~disturbed => StartsAreAlone)'
  BY DEF IInv, StartsAreAlone, Starting, At
<1>3. ActsOnRevoked'
  BY DEF IInv, ActsOnRevoked, Ended, accounts
<1>4. Authenticated'
  BY DEF IInv, Authenticated
<1> QED
  BY <1>1, <1>2, <1>3, <1>4 DEF IInv, Registry

-----------------------------------------------------------------------------
(* Initial states *)

LEMMA InitHolds == Init => IInv
<1> SUFFICES ASSUME Init PROVE IInv
  OBVIOUS
<1> USE PlaybackConstants
<1>1. Idle \in CallStates
  BY DEF Idle, CallStates, Places
<1>2. TypeOK
  <2>1. playback \in [Playbacks -> PlaybackStates \cup {None}]
    BY DEF Init
  <2>2. call \in [Calls -> CallStates]
    BY <1>1 DEF Init
  <2>3. login \in [Logins -> {"new", "live", "logout", "revoked", "gone"}]
    BY DEF Init
  <2>4. admin \in [drop : SUBSET Logins, user : BOOLEAN,
                   stop : Playbacks \cup {None}]
    BY DEF Init, Quiet
  <2>5. manager \in [at : {"read", "query", "drop", "clean"},
                     logins : SUBSET Logins, user : BOOLEAN]
    BY DEF Init
  <2>6. trouble \in 0..MaxTrouble
    BY DEF Init
  <2>7. indexed \subseteq Playbacks /\ preferred \in Playbacks \cup {None}
        /\ standing \in {"enabled", "disabled", "deleted"} /\ disturbed \in BOOLEAN
    BY DEF Init
  <2> QED
    BY <2>1, <2>2, <2>3, <2>4, <2>5, <2>6, <2>7 DEF TypeOK
<1>3. Kept = {} /\ Live = {}
  BY DEF Init, Kept, Live
<1>4. RegistryAgrees
  BY <1>3 DEF Init, RegistryAgrees
<1>5. \A c \in Calls : ~Starting(c)
  BY DEF Init, Starting, At, Idle
<1>6. StartsAreAlone
  BY <1>3, <1>5 DEF StartsAreAlone
<1>7. ActsOnRevoked
  BY DEF Init, ActsOnRevoked, Quiet
<1>8. Authenticated
  BY DEF Init, Authenticated, Idle
<1> QED
  BY <1>2, <1>4, <1>6, <1>7, <1>8 DEF IInv

-----------------------------------------------------------------------------
(* Requests *)

LEMMA ArriveHolds ==
  ASSUME IInv, NEW c \in Calls, NEW l \in Logins, Arrive(c, l) PROVE IInv'
<1> DEFINE h == [Idle EXCEPT !.at = "arrived", !.login = l]
<1>1. h \in CallStates /\ h.at = "arrived" /\ h.login \in Logins
  <2> "arrived" \in Places
    BY DEF Places
  <2> QED
    BY Entered
<1>2. Registry' /\ Live' = Live
  BY RegistryHolds DEF Arrive, registry, Registry, RegistryAgrees, Kept, Live
<1>3. Becomes(c, h) /\ UNCHANGED <<accounts, manager, admin, trouble, disturbed>>
  BY DEF Arrive
<1> HIDE DEF h
<1> QED
  BY <1>1, <1>2, <1>3, RequestStep

\* The playbacks after an adoption, for all that adopt.
LEMMA AdoptRegistry ==
  ASSUME IInv, NEW P \in SUBSET Kept, NEW c \in Calls,
         call[c].at \in {"arrived", "touched"},
         call[c].login \in Logins, Adopt(P, call[c].login),
         indexed' = indexed, preferred' \in Kept \cup {None}
  PROVE  Registry' /\ Live' = Live
<1>1. TypeOK
  BY DEF IInv
<1>2. /\ playback' \in [Playbacks -> PlaybackStates \cup {None}]
      /\ Kept' = Kept
      /\ Live' = Live
  BY <1>1, AdoptKeeps
<1>3. indexed = Kept /\ Kept \subseteq Playbacks
  BY DEF IInv, RegistryAgrees, Kept
<1> QED
  BY <1>2, <1>3 DEF Registry, RegistryAgrees

\* Requests that change neither the playbacks nor the index.
LEMMA PreferRegistry ==
  ASSUME IInv, playback' = playback, indexed' = indexed,
         preferred' \in Kept \cup {None}
  PROVE  Registry' /\ Live' = Live
<1>1. Kept' = Kept /\ Live' = Live /\ Kept \subseteq Playbacks
  BY DEF Kept, Live
<1> QED
  BY <1>1, RegistryHolds DEF Registry, RegistryAgrees

\* Stop and everything else that ends playbacks.
LEMMA OutRegistry ==
  ASSUME IInv, NEW out \in SUBSET Kept, TakeOut(out)
  PROVE  Registry' /\ Live' \subseteq Live
<1>1. TypeOK /\ RegistryAgrees
  BY DEF IInv
<1> QED
  BY <1>1, OutAgrees DEF Registry

LEMMA FindCompatibleHolds ==
  ASSUME IInv, NEW c \in Calls, NEW p \in Playbacks, FindCompatible(c, p)
  PROVE  IInv'
<1> DEFINE h == [call[c] EXCEPT !.at = "found", !.target = p]
<1> PICK tried \in SUBSET Live : Adopt(tried \cup {p}, call[c].login)
  BY DEF FindCompatible
<1>1. tried \cup {p} \in SUBSET Kept /\ preferred \in Kept \cup {None}
  BY DEF Live, IInv, RegistryAgrees, FindCompatible
<1>2. call[c].login \in Logins /\ call[c].at = "arrived"
  BY DEF IInv, Authenticated, At, FindCompatible
<1>3. Registry' /\ Live' = Live
  BY <1>1, <1>2, AdoptRegistry DEF FindCompatible
<1>4. h \in CallStates /\ h.at = "found" /\ h.login \in Logins
  BY <1>2, Aimed DEF IInv, Places
<1>5. Becomes(c, h) /\ UNCHANGED <<accounts, manager, admin, trouble, disturbed>>
  BY DEF FindCompatible
<1> HIDE DEF h
<1> QED
  BY <1>3, <1>4, <1>5, RequestStep

LEMMA FindConflictHolds ==
  ASSUME IInv, NEW c \in Calls, FindConflict(c) PROVE IInv'
<1> PICK tried \in SUBSET Live : Adopt(tried, call[c].login)
  BY DEF FindConflict
<1>1. tried \in SUBSET Kept /\ preferred \in Kept \cup {None}
  BY DEF Live, IInv, RegistryAgrees
<1>2. call[c].login \in Logins /\ call[c].at = "arrived"
  BY DEF IInv, Authenticated, At, FindConflict
<1>3. Registry' /\ Live' = Live
  BY <1>1, <1>2, AdoptRegistry DEF FindConflict
<1>4. Becomes(c, Idle) /\ UNCHANGED <<accounts, manager, admin, trouble, disturbed>>
  BY DEF FindConflict, Finishes
<1>5. Idle \in CallStates /\ Idle.at = "idle"
  BY Held DEF IInv
<1> QED
  BY <1>3, <1>4, <1>5, RequestStep

\* The search ends without a playback in the way: the start is alone, or the
\* history notes that it is not.
LEMMA FindNothingHolds ==
  ASSUME IInv, NEW c \in Calls, FindNothing(c) PROVE IInv'
<1> DEFINE h == [call[c] EXCEPT !.at = "admitting"]
<1> PICK tried \in SUBSET Live : Adopt(tried, call[c].login)
  BY DEF FindNothing
<1>1. tried \in SUBSET Kept /\ preferred \in Kept \cup {None}
  BY DEF Live, IInv, RegistryAgrees
<1>2. call[c].login \in Logins /\ call[c].at = "arrived"
  BY DEF IInv, Authenticated, At, FindNothing
<1>3. Registry' /\ Live' = Live
  BY <1>1, <1>2, AdoptRegistry DEF FindNothing
<1>4. h \in CallStates /\ h.at = "admitting" /\ h.login \in Logins
  BY <1>2, Held DEF IInv, Places
<1>5. /\ Becomes(c, h)
      /\ UNCHANGED <<accounts, manager, admin, trouble>>
      /\ disturbed' = (disturbed \/ \E d \in Calls : Starting(d))
      /\ Ordinary => Live = {}
  BY DEF FindNothing, Goes, Conflicting
<1> HIDE DEF h
<1>6. /\ call' \in [Calls -> CallStates]
      /\ call'[c] = h
      /\ \A d \in Calls \ {c} : call'[d] = call[d]
  BY <1>4, <1>5, CallMoves DEF IInv
<1>7. TypeOK'
  BY <1>3, <1>5, <1>6 DEF IInv, TypeOK, Registry, accounts
<1>8. (Ordinary /\ ~disturbed => StartsAreAlone)'
  BY <1>3, <1>5, <1>6 DEF StartsAreAlone, Starting, At
<1>9. ActsOnRevoked' /\ Authenticated'
  BY <1>4, <1>5, <1>6 DEF IInv, ActsOnRevoked, Ended, accounts, Authenticated
<1> QED
  BY <1>3, <1>7, <1>8, <1>9 DEF IInv, Registry

LEMMA RegisterHolds ==
  ASSUME IInv, NEW c \in Calls, NEW p \in Playbacks, Register(c, p) PROVE IInv'
<1> USE PlaybackConstants
<1> DEFINE h == [call[c] EXCEPT !.at = "created", !.target = p]
<1> DEFINE new == [login |-> call[c].login, failed |-> FALSE]
<1>1. call[c].login \in Logins /\ call[c].at = "registering"
  BY DEF IInv, Authenticated, At, Register
<1>2. h \in CallStates /\ h.at = "created" /\ h.login \in Logins
  <2> TypeOK /\ "created" \in Places
    BY DEF IInv, Places
  <2> QED
    BY <1>1, Aimed
<1>3. new \in PlaybackStates /\ new # None /\ ~new.failed
  <2>1. new \in PlaybackStates /\ ~new.failed
    BY <1>1 DEF PlaybackStates
  <2> QED
    BY <2>1 DEF PlaybackStates
<1>4. /\ Becomes(c, h)
      /\ playback' = [playback EXCEPT ![p] = new]
      /\ indexed' = indexed \cup {p}
      /\ preferred' = p
      /\ UNCHANGED <<accounts, manager, admin, trouble, disturbed>>
  BY DEF Register
<1> HIDE DEF h, new
<1>5. /\ call' \in [Calls -> CallStates]
      /\ call'[c] = h
      /\ \A d \in Calls \ {c} : call'[d] = call[d]
  BY <1>2, <1>4, CallMoves DEF IInv
<1>6. playback \in [Playbacks -> PlaybackStates \cup {None}] /\ indexed = Kept
  BY DEF IInv, TypeOK, RegistryAgrees
<1>7. /\ playback' \in [Playbacks -> PlaybackStates \cup {None}]
      /\ \A q \in Playbacks : playback'[q] = IF q = p THEN new ELSE playback[q]
  BY <1>3, <1>4, <1>6
<1>8. Kept' = Kept \cup {p} /\ Live' \subseteq Live \cup {p}
  BY <1>3, <1>7 DEF Kept, Live
<1>9. Registry'
  BY <1>4, <1>6, <1>7, <1>8 DEF Registry, RegistryAgrees, Kept
<1>10. TypeOK'
  BY <1>4, <1>5, <1>9 DEF IInv, TypeOK, Registry, accounts
<1>11. (Ordinary /\ ~disturbed => StartsAreAlone)'
  <2> SUFFICES ASSUME Ordinary, ~disturbed PROVE StartsAreAlone'
    BY <1>4
  <2>1. Starting(c) /\ StartsAreAlone
    BY <1>1 DEF Starting, At, IInv
  <2>2. Live' \subseteq {p}
    BY <2>1, <1>8 DEF StartsAreAlone
  <2>3. \A d \in Calls : call'[d].at \notin {"admitting", "registering"}
    BY <2>1, <1>2, <1>5 DEF StartsAreAlone, Starting, At
  <2> QED
    BY <2>2, <2>3 DEF StartsAreAlone, Starting, At
<1>12. ActsOnRevoked' /\ Authenticated'
  BY <1>2, <1>4, <1>5 DEF IInv, ActsOnRevoked, Ended, accounts, Authenticated
<1> QED
  BY <1>9, <1>10, <1>11, <1>12 DEF IInv, Registry

\* Admission, and a refusal.
LEMMA AnswerHolds ==
  ASSUME IInv, NEW c \in Calls, Admit(c) \/ Refuse(c) PROVE IInv'
<1> DEFINE h == IF Admit(c) THEN [call[c] EXCEPT !.at = "registering"] ELSE Idle
<1>1. Registry' /\ Live' = Live
  BY PreferRegistry, RegistryHolds
     DEF Admit, Refuse, registry, Registry, RegistryAgrees
<1>2. /\ h \in CallStates
      /\ h.at \in {"admitting", "registering"} => Starting(c)
      /\ h.at # "idle" => h.login \in Logins
  <2>1. TypeOK /\ "registering" \in Places
    BY DEF IInv, Places
  <2>2. Admit(c) => Starting(c) /\ call[c].login \in Logins
    BY DEF Admit, Starting, At, IInv, Authenticated
  <2> QED
    BY <2>1, <2>2, Held
<1>3. Becomes(c, h) /\ UNCHANGED <<accounts, manager, admin, trouble, disturbed>>
  BY DEF Admit, Refuse, Goes, Finishes
<1> HIDE DEF h
<1> QED
  BY <1>1, <1>2, <1>3, RequestStep

\* The answer to a start, a request for media and the touch before a reuse.
LEMMA TouchHolds ==
  ASSUME IInv, NEW c \in Calls,
         \/ ShowCreated(c) \/ TouchFound(c)
         \/ \E p \in Playbacks : RequestMedia(c, p)
  PROVE  IInv'
<1> DEFINE h == IF call[c].at = "found" THEN [call[c] EXCEPT !.at = "touched"]
                                        ELSE Idle
<1>1. preferred \in Kept \cup {None}
  BY DEF IInv, RegistryAgrees
<1>2. Registry' /\ Live' = Live
  BY <1>1, PreferRegistry DEF ShowCreated, TouchFound, RequestMedia
<1>3. /\ h \in CallStates
      /\ h.at \notin {"admitting", "registering"}
      /\ h.at # "idle" => h.login \in Logins
  <2>1. TypeOK /\ "touched" \in Places
    BY DEF IInv, Places
  <2>2. call[c].at = "found" => call[c].login \in Logins
    BY DEF IInv, Authenticated
  <2> QED
    BY <2>1, <2>2, Held
<1>4. Becomes(c, h) /\ UNCHANGED <<accounts, manager, admin, trouble, disturbed>>
  BY DEF ShowCreated, TouchFound, RequestMedia, Goes, Finishes, At
<1> HIDE DEF h
<1> QED
  BY <1>2, <1>3, <1>4, RequestStep

LEMMA UseHolds ==
  ASSUME IInv, NEW c \in Calls, NEW p \in Playbacks, Use(c, p) PROVE IInv'
<1>1. {p} \in SUBSET Kept /\ preferred' \in Kept \cup {None}
  BY DEF IInv, RegistryAgrees, Use
<1>2. call[c].at \in {"arrived", "touched"} /\ call[c].login \in Logins
  BY DEF IInv, Authenticated, At, Use
<1>3. Registry' /\ Live' = Live
  BY <1>1, <1>2, AdoptRegistry DEF Use
<1>4. Becomes(c, Idle) /\ UNCHANGED <<accounts, manager, admin, trouble, disturbed>>
  BY DEF Use, Finishes
<1>5. Idle \in CallStates /\ Idle.at = "idle"
  BY Held DEF IInv
<1> QED
  BY <1>3, <1>4, <1>5, RequestStep

LEMMA LookUpHolds ==
  ASSUME IInv, NEW c \in Calls, NEW found \in SUBSET Live, LookUp(c, found)
  PROVE  IInv'
<1>1. Registry' /\ Live' = Live
  <2>1. CASE found = {}
    BY <2>1, PreferRegistry DEF LookUp
  <2>2. CASE found # {}
    <3> PICK p \in found : preferred' = p /\ Adopt({p}, call[c].login)
      BY <2>2 DEF LookUp
    <3>1. {p} \in SUBSET Kept /\ preferred' \in Kept \cup {None}
      BY DEF Live
    <3>2. call[c].at \in {"arrived", "touched"} /\ call[c].login \in Logins
      BY DEF IInv, Authenticated, At, LookUp
    <3> QED
      BY <3>1, <3>2, AdoptRegistry DEF LookUp
  <2> QED
    BY <2>1, <2>2
<1>2. Becomes(c, Idle) /\ UNCHANGED <<accounts, manager, admin, trouble, disturbed>>
  BY DEF LookUp, Finishes
<1>3. Idle \in CallStates /\ Idle.at = "idle"
  BY Held DEF IInv
<1> QED
  BY <1>1, <1>2, <1>3, RequestStep

LEMMA StopHolds ==
  ASSUME IInv, NEW c \in Calls, NEW p \in Playbacks, Stop(c, p) PROVE IInv'
<1>1. Registry' /\ Live' \subseteq Live
  <2> {p} \in SUBSET Kept /\ TakeOut({p})
    BY DEF Stop
  <2> QED
    BY OutRegistry
<1>2. Becomes(c, Idle) /\ UNCHANGED <<accounts, manager, admin, trouble, disturbed>>
  BY DEF Stop, Finishes
<1>3. Idle \in CallStates /\ Idle.at = "idle"
  BY Held DEF IInv
<1> QED
  BY <1>1, <1>2, <1>3, RequestStep

-----------------------------------------------------------------------------
(* Failures of epochs *)

LEMMA FailHolds ==
  ASSUME IInv, NEW p \in Playbacks, Fail(p) \/ Recover(p) PROVE IInv'
<1> USE PlaybackConstants
<1>1. playback \in [Playbacks -> PlaybackStates \cup {None}] /\ p \in Kept
  BY DEF IInv, TypeOK, Fail, Recover, Live
<1> PICK b \in BOOLEAN : /\ playback' = [playback EXCEPT ![p] = [@ EXCEPT !.failed = b]]
                         /\ b = FALSE => Recover(p)
                         /\ b = TRUE => Fail(p)
  BY DEF Fail, Recover
<1> DEFINE new == [playback[p] EXCEPT !.failed = b]
<1>2. new \in PlaybackStates /\ new.failed = b
  BY <1>1 DEF PlaybackStates, Kept
<1>3. new # None
  BY <1>2 DEF PlaybackStates
<1>4. playback' = [playback EXCEPT ![p] = new]
  OBVIOUS
<1> HIDE DEF new
<1>5. /\ playback' \in [Playbacks -> PlaybackStates \cup {None}]
      /\ \A q \in Playbacks : playback'[q] = IF q = p THEN new ELSE playback[q]
  BY <1>1, <1>2, <1>4
<1>6. /\ Kept' = Kept
      /\ Live' \subseteq Live \cup {p}
      /\ b => Live' \subseteq Live
  BY <1>1, <1>2, <1>3, <1>5 DEF Kept, Live
<1>7. UNCHANGED <<indexed, preferred, accounts, call, manager, admin>>
  BY DEF Fail, Recover
<1>8. /\ trouble' \in 0..MaxTrouble
      /\ disturbed' \in BOOLEAN
  <2>1. trouble \in 0..MaxTrouble /\ disturbed \in BOOLEAN
    BY DEF IInv, TypeOK
  <2>2. trouble' = trouble \/ (trouble < MaxTrouble /\ trouble' = trouble + 1)
    BY DEF Fail, Recover, Trouble
  <2>3. disturbed' \in BOOLEAN
    BY <2>1 DEF Fail, Recover
  <2> QED
    BY <2>1, <2>2, <2>3
<1>9. TypeOK'
  BY <1>5, <1>7, <1>8 DEF IInv, TypeOK, accounts
<1>10. RegistryAgrees' /\ Authenticated' /\ ActsOnRevoked'
  BY <1>6, <1>7 DEF IInv, RegistryAgrees, Authenticated, ActsOnRevoked, Ended,
                    accounts
<1>11. (Ordinary /\ ~disturbed => StartsAreAlone)'
  <2>1. CASE b
    BY <2>1, <1>6, <1>7 DEF IInv, StartsAreAlone, Starting, At, Fail
  <2>2. CASE ~b
    <3> SUFFICES ASSUME ~disturbed' PROVE StartsAreAlone'
      OBVIOUS
    <3>1. Live = {} /\ \A c \in Calls : ~Starting(c)
      BY <2>2 DEF Recover
    <3> QED
      BY <3>1, <1>6, <1>7 DEF StartsAreAlone, Starting, At
  <2> QED
    BY <2>1, <2>2
<1> QED
  BY <1>9, <1>10, <1>11 DEF IInv

-----------------------------------------------------------------------------
(* Accounts *)

\* Logins change in the database; the administrator's request may begin.
LEMMA AccountsHold ==
  ASSUME IInv,
         \/ \E l \in Logins : LogIn(l) \/ LoseLogin(l) \/ RevokeLogin(l)
         \/ \E p \in Playbacks : Terminate(p)
         \/ CloseAccount \/ Enable \/ DeleteUser \/ RotatePrefix
  PROVE  IInv'
<1> DEFINE LoginStates == {"new", "live", "logout", "revoked", "gone"}
<1> DEFINE AdminStates == [drop : SUBSET Logins, user : BOOLEAN,
                           stop : Playbacks \cup {None}]
<1>1. /\ login \in [Logins -> LoginStates]
      /\ standing \in {"enabled", "disabled", "deleted"}
      /\ admin \in AdminStates
      /\ trouble \in 0..MaxTrouble
  BY DEF IInv, TypeOK
<1>2. /\ Quiet \in AdminStates /\ Quiet.drop = {}
      /\ \A L \in SUBSET Logins : /\ [Quiet EXCEPT !.drop = L] \in AdminStates
                                  /\ [Quiet EXCEPT !.drop = L].drop = L
      /\ \A p \in Playbacks : /\ [Quiet EXCEPT !.stop = p] \in AdminStates
                              /\ [Quiet EXCEPT !.stop = p].drop = {}
      /\ [Quiet EXCEPT !.user = TRUE] \in AdminStates
      /\ [Quiet EXCEPT !.user = TRUE].drop = {}
  BY DEF Quiet
<1>3. \A l \in admin.drop : Ended(l)
  BY DEF IInv, ActsOnRevoked
<1>4. UNCHANGED <<registry, call, manager, disturbed>>
  BY DEF LogIn, LoseLogin, RevokeLogin, Terminate, CloseAccount, Enable,
         DeleteUser, RotatePrefix, AdminDone
<1>5. trouble' \in 0..MaxTrouble
  <2> trouble' = trouble \/ (trouble < MaxTrouble /\ trouble' = trouble + 1)
    BY DEF LogIn, LoseLogin, RevokeLogin, Terminate, CloseAccount, Enable,
           DeleteUser, RotatePrefix, AdminDone, Trouble
  <2> QED
    BY <1>1, PlaybackConstants
<1>6. standing' \in {"enabled", "disabled", "deleted"}
  BY <1>1 DEF LogIn, LoseLogin, RevokeLogin, Terminate, CloseAccount, Enable,
              DeleteUser, RotatePrefix, accounts
<1>7. /\ login' \in [Logins -> LoginStates]
      /\ \A l \in Logins : Ended(l) => login'[l] \in {"revoked", "gone"}
  BY <1>1 DEF LogIn, LoseLogin, RevokeLogin, Terminate, CloseAccount, Enable,
              DeleteUser, RotatePrefix, accounts, Alter, Ended
<1>8. /\ admin' \in AdminStates
      /\ \A l \in admin'.drop : login'[l] \in {"revoked", "gone"}
  <2>1. CASE admin' = admin
    BY <2>1, <1>1, <1>3, <1>7
  <2>2. CASE \E l \in Logins : RevokeLogin(l)
    <3> PICK l \in Logins : RevokeLogin(l)
      BY <2>2
    <3>1. admin' = [Quiet EXCEPT !.drop = {l}] /\ login'[l] = "revoked"
      BY <1>1 DEF RevokeLogin
    <3> QED
      BY <3>1, <1>2
  <2>3. CASE RotatePrefix
    <3> DEFINE L == {l \in Logins : login[l] \in {"live", "logout", "revoked"}}
    <3>1. L \in SUBSET Logins /\ \A l \in L : login'[l] = "gone"
      BY <2>3 DEF RotatePrefix, Alter
    <3>2. admin' = [Quiet EXCEPT !.drop = L]
      BY <2>3 DEF RotatePrefix
    <3> HIDE DEF L
    <3> QED
      BY <3>1, <3>2, <1>2
  <2>4. CASE \/ \E p \in Playbacks : Terminate(p)
             \/ CloseAccount \/ DeleteUser
    BY <2>4, <1>2 DEF Terminate, CloseAccount, DeleteUser
  <2> QED
    BY <2>1, <2>2, <2>3, <2>4 DEF LogIn, LoseLogin, Enable
<1> HIDE DEF LoginStates, AdminStates
<1> QED
  BY <1>4, <1>5, <1>6, <1>7, <1>8, AccountStep DEF LoginStates, AdminStates

-----------------------------------------------------------------------------
(* What ends playbacks *)

LEMMA AdminEndsHold ==
  ASSUME IInv, AdminStops \/ AdminDropsUser \/ \E l \in Logins : AdminDropsLogin(l)
  PROVE  IInv'
<1> DEFINE AdminStates == [drop : SUBSET Logins, user : BOOLEAN,
                           stop : Playbacks \cup {None}]
<1>1. admin \in AdminStates
  BY DEF IInv, TypeOK
<1>2. admin' \in AdminStates /\ admin'.drop \subseteq admin.drop
  <2>1. CASE admin' = Quiet
    BY <2>1 DEF Quiet
  <2>2. CASE \E l \in Logins : AdminDropsLogin(l)
    <3> PICK l \in Logins : admin' = [admin EXCEPT !.drop = admin.drop \ {l}]
      BY <2>2 DEF AdminDropsLogin
    <3>1. admin.drop \ {l} \in SUBSET Logins
      BY <1>1
    <3> QED
      BY <1>1, <3>1
  <2> QED
    BY <2>1, <2>2 DEF AdminStops, AdminDropsUser
<1>3. Registry' /\ Live' \subseteq Live
  <2> PICK out \in SUBSET Kept : TakeOut(out)
    BY DEF AdminStops, AdminDropsUser, AdminDropsLogin, HeldBy
  <2> QED
    BY OutRegistry
<1>4. UNCHANGED <<accounts, call, manager, trouble, disturbed>>
  BY DEF AdminStops, AdminDropsUser, AdminDropsLogin
<1>5. /\ manager' \in [at : {"read", "query", "drop", "clean"},
                       logins : SUBSET Logins, user : BOOLEAN]
      /\ manager'.at = "drop" => \A l \in manager'.logins : Ended(l)
  BY <1>4 DEF IInv, TypeOK, ActsOnRevoked
<1> HIDE DEF AdminStates
<1> QED
  BY <1>2, <1>3, <1>4, <1>5, EndingStep DEF AdminStates

LEMMA ManageHolds == ASSUME IInv, Manage PROVE IInv'
<1> DEFINE Loops == [at : {"read", "query", "drop", "clean"},
                     logins : SUBSET Logins, user : BOOLEAN]
<1>1. manager \in Loops
  BY DEF IInv, TypeOK
<1>2. /\ UNCHANGED <<accounts, call, trouble, disturbed>>
      /\ admin' = admin
  BY DEF Manage, ReadPlaybacks, ReadRows, DropUser, DropLogin, Reconciled, CleanUp
<1>3. Registry' /\ Live' \subseteq Live
  <2>1. CASE \E out \in SUBSET Kept : TakeOut(out)
    BY <2>1, OutRegistry
  <2>2. CASE UNCHANGED registry
    BY <2>2, RegistryHolds DEF registry, Registry, RegistryAgrees, Kept, Live
  <2> QED
    BY <2>1, <2>2 DEF Manage, ReadPlaybacks, ReadRows, DropUser, DropLogin,
                      Reconciled, CleanUp, HeldBy
<1>4. manager' \in Loops /\ (manager'.at = "drop" => \A l \in manager'.logins : Ended(l))
  <2>0. ActsOnRevoked
    BY DEF IInv
  <2>1. CASE ReadPlaybacks
    <3>1. {playback[p].login : p \in Kept} \subseteq Logins
      BY PlaybackConstants DEF IInv, TypeOK, Kept, PlaybackStates
    <3> QED
      BY <2>1, <3>1 DEF ReadPlaybacks
  <2>2. CASE ReadRows
    BY <2>2, <1>1 DEF ReadRows, Revoked, Ended
  <2>3. CASE DropUser
    BY <2>0, <2>3, <1>1 DEF DropUser, ActsOnRevoked
  <2>4. CASE \E l \in Logins : DropLogin(l)
    BY <2>0, <2>4, <1>1 DEF DropLogin, ActsOnRevoked
  <2>5. CASE Reconciled
    BY <2>5, <1>1 DEF Reconciled
  <2>6. CASE \E out \in SUBSET Kept : CleanUp(out)
    BY <2>6, <1>1 DEF CleanUp
  <2> QED
    BY <2>1, <2>2, <2>3, <2>4, <2>5, <2>6 DEF Manage
<1>5. /\ admin' \in [drop : SUBSET Logins, user : BOOLEAN,
                     stop : Playbacks \cup {None}]
      /\ admin'.drop \subseteq admin.drop
  BY <1>2 DEF IInv, TypeOK
<1> HIDE DEF Loops
<1> QED
  BY <1>2, <1>3, <1>4, <1>5, EndingStep DEF Loops

-----------------------------------------------------------------------------
(* Theorems *)

LEMMA NextHolds == IInv /\ [Next]_vars => IInv'
<1> SUFFICES ASSUME IInv, [Next]_vars PROVE IInv'
  OBVIOUS
<1>1. ASSUME NEW c \in Calls, NEW l \in Logins, Arrive(c, l) PROVE IInv'
  BY <1>1, ArriveHolds
<1>2. ASSUME NEW c \in Calls, Create(c) PROVE IInv'
  BY <1>2, FindCompatibleHolds, FindConflictHolds, FindNothingHolds, AnswerHolds,
     RegisterHolds, TouchHolds DEF Create
<1>3. ASSUME NEW c \in Calls, Control(c) PROVE IInv'
  BY <1>3, UseHolds, TouchHolds, StopHolds, LookUpHolds, AnswerHolds DEF Control
<1>4. ASSUME Administer PROVE IInv'
  BY <1>4, AccountsHold, AdminEndsHold DEF Administer
<1>5. ASSUME NEW p \in Playbacks, Fail(p) \/ Recover(p) PROVE IInv'
  BY <1>5, FailHolds
<1>6. CASE UNCHANGED vars
  <2>1. Live' = Live /\ Kept' = Kept
    BY <1>6 DEF vars, Live, Kept
  <2>2. TypeOK'
    BY <1>6 DEF IInv, TypeOK, vars
  <2> QED
    BY <1>6, <2>1, <2>2 DEF IInv, RegistryAgrees, Authenticated, StartsAreAlone,
                            Starting, At, ActsOnRevoked, Ended, vars
<1> QED
  BY <1>1, <1>2, <1>3, <1>4, <1>5, <1>6, ManageHolds DEF Next

LEMMA Invariance == Spec => []IInv
<1> QED
  BY InitHolds, NextHolds, PTL DEF Spec

\* The types of the tables, requests and the manager loop, for any number of
\* playbacks, logins and requests (mobile_playback_service.py:1362).
THEOREM TypeCorrect == Spec => []TypeOK
<1>1. IInv => TypeOK
  BY DEF IInv
<1> QED
  BY Invariance, <1>1, PTL

\* _sessions, the index and the preferred playback agree, whatever ends
\* playbacks and whoever starts them (mobile_playback_service.py:3093).
THEOREM TablesAgree == Spec => []RegistryAgrees
<1>1. IInv => RegistryAgrees
  BY DEF IInv
<1> QED
  BY Invariance, <1>1, PTL

\* An ordinary user has one playback, however often others end, fail or are
\* adopted during a start (mobile_playback_service.py:1552).
THEOREM OnePlaybackEach == Spec => []OnePlayback
<1>1. IInv => OnePlayback
  BY DEF IInv, OnePlayback, StartsAreAlone
<1> QED
  BY Invariance, <1>1, PTL

\* The manager loop and an administrator's request act on what they read, and
\* still end playbacks of revoked logins only (mobile_playback_service.py:14837).
THEOREM RevocationsHitTheirLogin == Spec => RevocationsAreFounded
<1>1. ASSUME IInv, NEW l \in Logins, DropLogin(l) \/ AdminDropsLogin(l)
      PROVE  \A p \in Kept \ Kept' :
                login[playback[p].login] \in {"revoked", "gone"}
  <2>1. Ended(l)
    BY <1>1 DEF IInv, ActsOnRevoked, DropLogin, AdminDropsLogin
  <2>2. HeldBy(l) \in SUBSET Kept /\ TakeOut(HeldBy(l))
    BY <1>1 DEF DropLogin, AdminDropsLogin, HeldBy
  <2>3. TypeOK /\ RegistryAgrees
    BY <1>1 DEF IInv
  <2>4. Kept' = Kept \ HeldBy(l)
    BY <2>2, <2>3, OutAgrees
  <2> QED
    BY <2>1, <2>4 DEF Ended, HeldBy
<1>2. IInv /\ [Next]_vars =>
         [ \A l \in Logins : DropLogin(l) \/ AdminDropsLogin(l)
              => \A p \in Kept \ Kept' :
                    login[playback[p].login] \in {"revoked", "gone"} ]_vars
  BY <1>1
<1> QED
  BY Invariance, <1>2, PTL DEF Spec, RevocationsAreFounded
=============================================================================
