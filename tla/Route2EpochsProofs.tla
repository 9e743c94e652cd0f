------------------------- MODULE Route2EpochsProofs -------------------------
(* Proofs about the epochs of a Route 2 session, for any streams, cap of      *)
(* replacements, mode and number of failures: types, the consistency of the   *)
(* authority, readable media behind every attach revision, the growth of      *)
(* revisions and of the active epoch, and what becomes of the epochs that     *)
(* were promoted out.                                                          *)
EXTENDS Route2Epochs, TLAPS

\* An epoch that was promoted out and still has its media.
Drained(s, e) == e # s.active /\ s.epochs[e].state = "draining"

\* An epoch that was promoted out and has failed since: nothing touches it.
Ended(s, e) ==
    /\ e < s.active
    /\ s.epochs[e].state = "failed"
    /\ s.epochs[e].worker = "none"

\* What a handler keeps true of the session. An audio switch may still name a
\* candidate that was discarded since, never one that was promoted.
Consistent(s) ==
    /\ s.active \in Present(s)
    /\ s.active <= s.created
    /\ s.acknowledged <= s.revision
    /\ s.replacement # NoEpoch =>
        /\ s.replacement \in Present(s)
        /\ s.replacement > s.active
        /\ s.replacement <= s.created
        /\ ReplacementEpoch(s).state # "draining"
    /\ s.candidate # NoEpoch =>
        /\ s.candidate # s.active
        /\ s.candidate <= s.created
        /\ s.candidate = s.replacement => ReplacementEpoch(s).reason = "audio"
        /\ s.candidate = s.replacement \/ s.epochs[s.candidate].state = "absent"

\* What it keeps true of the epochs: those to come are absent, one that is out
\* of use has no worker, and one that was promoted out has a revision to wait for.
\* A thread that is late belongs to an epoch that was promoted out.
Tidy(s) ==
    /\ \A e \in Present(s) : e <= s.created
    /\ \A e \in Ids \ {s.active} :
        s.epochs[e].state \in {"absent", "draining"} => s.epochs[e].worker = "none"
    /\ \A e \in Ids : Drained(s, e) => s.epochs[e].target > 0
    /\ ~FullMode => \A e \in Ids : s.epochs[e].target <= s.revision
    /\ \A e \in Ids : s.epochs[e].late => Drained(s, e) /\ e < s.active

\* Who was told to attach finds media.
Readable(s) == s.revision > 0 => ActiveEpoch(s).supply # "none"

Good(s) == s \in Sessions /\ Consistent(s) /\ Tidy(s) /\ Readable(s)

\* The client is told to attach anew if and only if another epoch takes over,
\* the first attach excepted.
HandInHand(t, s) ==
    /\ t.active > s.active => t.revision > s.revision
    /\ t.revision > s.revision => t.active > s.active \/ s.revision = 0

Grows(t, s) ==
    /\ t.active >= s.active
    /\ t.revision >= s.revision
    /\ t.acknowledged >= s.acknowledged
    /\ ~FullMode => HandInHand(t, s)

\* Epochs that were promoted out go on draining as they did, or stay failed.
Stays(t, s) ==
    /\ \A e \in Ids : Drained(s, e) =>
        /\ Drained(t, e)
        /\ t.epochs[e].target = s.epochs[e].target
        /\ t.epochs[e].age = s.epochs[e].age
    /\ \A e \in Ids : Ended(s, e) => Ended(t, e)

\* What the operators of a handler do up to its refresh
Prepares(t, s) ==
    /\ Good(t)
    /\ t.active = s.active
    /\ Grows(t, s)
    /\ Stays(t, s)

\* What the operators do that promote no epoch and publish nothing
Holds(t, s) ==
    /\ Prepares(t, s)
    /\ ActiveEpoch(t).supply = ActiveEpoch(s).supply

\* An epoch with runway took over, and its predecessor drains.
Promotes(t, s) ==
    /\ Drained(t, s.active)
    /\ RunwaySatisfied(ActiveEpoch(t))

\* What a refresh does once it has cleaned up
Follows(t, s) ==
    /\ Good(t)
    /\ Grows(t, s)
    /\ Stays(t, s)
    /\ \/ t.active = s.active /\ ActiveEpoch(t).supply = ActiveEpoch(s).supply
       \/ Promotes(t, s)

\* What a step does: an epoch that was promoted out drains until its drain is
\* over, or its late thread fails.
Advances(t, s) ==
    /\ Good(t)
    /\ Grows(t, s)
    /\ t.active # s.active => Promotes(t, s)
    /\ \A e \in Ids : Drained(s, e) =>
        \/ Drained(t, e)
        \/ s.epochs[e].age = "old"
        \/ s.epochs[e].age = "idle" /\ t.acknowledged >= s.epochs[e].target
        \/ s.epochs[e].late /\ t.epochs[e].state = "failed"

-----------------------------------------------------------------------------
(* The relations between sessions *)

LEMMA FieldTypes ==
    ASSUME NEW s \in Sessions
    PROVE  /\ s.epochs \in [Ids -> Epochs]
           /\ s.active \in Ids /\ s.active \in Int
           /\ s.replacement \in Ids \cup {NoEpoch}
           /\ s.candidate \in Ids \cup {NoEpoch}
           /\ s.created \in 0..MaxReplacements /\ s.created \in Int
           /\ s.revision \in Nat /\ s.acknowledged \in Nat
           /\ \A e \in Ids : s.epochs[e] \in Epochs /\ s.epochs[e].target \in Nat
<1> USE EpochConstants
<1>1. /\ s.epochs \in [Ids -> Epochs]
      /\ s.active \in Ids
      /\ s.replacement \in Ids \cup {NoEpoch}
      /\ s.candidate \in Ids \cup {NoEpoch}
      /\ s.created \in 0..MaxReplacements
      /\ s.revision \in Nat /\ s.acknowledged \in Nat
  BY DEF Sessions
<1>2. \A e \in Ids : s.epochs[e] \in Epochs /\ s.epochs[e].target \in Nat
  BY <1>1 DEF Epochs
<1> QED
  BY <1>1, <1>2 DEF Ids

LEMMA GrowsTransitive ==
    ASSUME NEW s \in Sessions, NEW t \in Sessions, NEW u \in Sessions,
           Grows(t, s), Grows(u, t)
    PROVE  Grows(u, s)
<1>1. /\ s.active \in Int /\ t.active \in Int /\ u.active \in Int
      /\ s.revision \in Nat /\ t.revision \in Nat /\ u.revision \in Nat
      /\ s.acknowledged \in Nat /\ t.acknowledged \in Nat /\ u.acknowledged \in Nat
  BY FieldTypes
<1> QED
  BY <1>1 DEF Grows, HandInHand

LEMMA GrowsItself ==
    ASSUME NEW s \in Sessions, NEW t \in Sessions,
           t.active = s.active, t.revision = s.revision, t.acknowledged >= s.acknowledged
    PROVE  Grows(t, s)
<1>1. s.active \in Int /\ s.revision \in Nat /\ t.revision \in Nat
  BY FieldTypes
<1> QED
  BY <1>1 DEF Grows, HandInHand

LEMMA HoldsItself ==
    ASSUME NEW s, Good(s)
    PROVE  Holds(s, s)
<1>1. s \in Sessions /\ s.acknowledged \in Nat
  BY FieldTypes DEF Good
<1> QED
  BY <1>1, GrowsItself DEF Holds, Prepares, Stays

LEMMA PreparesTransitive ==
    ASSUME NEW s, NEW t, NEW u, Good(s), Prepares(t, s), Prepares(u, t)
    PROVE  Prepares(u, s)
<1>1. s \in Sessions /\ t \in Sessions /\ u \in Sessions
  BY DEF Prepares, Good
<1> QED
  BY <1>1, GrowsTransitive DEF Prepares, Stays

LEMMA HoldsTransitive ==
    ASSUME NEW s, NEW t, NEW u, Good(s), Holds(t, s), Holds(u, t)
    PROVE  Holds(u, s)
  BY PreparesTransitive DEF Holds

LEMMA HoldsFollows ==
    ASSUME NEW s, NEW t, Good(s), Holds(t, s)
    PROVE  Follows(t, s)
  BY DEF Holds, Prepares, Follows

LEMMA FollowsTransitive ==
    ASSUME NEW s, NEW t, NEW u, Good(s), Follows(t, s), Follows(u, t)
    PROVE  Follows(u, s)
<1>1. s \in Sessions /\ t \in Sessions /\ u \in Sessions
  BY DEF Follows, Good
<1>2. Good(u) /\ Grows(u, s)
  BY <1>1, GrowsTransitive DEF Follows
<1>3. Stays(u, s)
  BY DEF Follows, Stays
<1>4. \/ u.active = s.active /\ ActiveEpoch(u).supply = ActiveEpoch(s).supply
      \/ Promotes(u, s)
  <2>1. CASE t.active = s.active /\ ActiveEpoch(t).supply = ActiveEpoch(s).supply
    BY <2>1 DEF Follows, Promotes
  <2>2. CASE Promotes(t, s)
    <3>1. s.active \in Ids
      BY <1>1, FieldTypes
    <3>2. Drained(u, s.active)
      BY <2>2, <3>1 DEF Follows, Promotes, Stays
    <3>3. RunwaySatisfied(ActiveEpoch(u))
      BY <2>2 DEF Follows, Promotes, RunwaySatisfied
    <3> QED
      BY <3>2, <3>3 DEF Promotes
  <2> QED
    BY <2>1, <2>2 DEF Follows
<1> QED
  BY <1>2, <1>3, <1>4 DEF Follows

LEMMA EpochTypes ==
    /\ \A reason \in Reasons, stream \in Streams \cup {NoStream} :
        NewEpoch(reason, stream) \in Epochs
    /\ Absent \in Epochs
    /\ Absent.state = "absent" /\ Absent.worker = "none" /\ Absent.target = 0
    /\ Ids \subseteq Nat
    /\ NoEpoch \notin Ids
    /\ 0 \in Ids
<1> USE EpochConstants
<1>1. \A reason \in Reasons, stream \in Streams \cup {NoStream} :
        NewEpoch(reason, stream) \in Epochs
  BY DEF NewEpoch, Epochs, EpochStates, Reasons, Workers, Supplies, Errors, Ages
<1>2. Absent \in Epochs
  <2>1. NewEpoch("initial", NoStream) \in Epochs
    BY <1>1 DEF Reasons
  <2> QED
    BY <2>1 DEF Absent, Epochs, EpochStates
<1>3. Absent.state = "absent" /\ Absent.worker = "none" /\ Absent.target = 0
  BY DEF Absent, NewEpoch
<1>4. Ids \subseteq Nat /\ NoEpoch \notin Ids /\ 0 \in Ids
  BY DEF Ids, NoEpoch
<1> QED
  BY <1>1, <1>2, <1>3, <1>4

LEMMA AbsentIsNotLate == Absent.late = FALSE
  BY DEF Absent, NewEpoch

\* An epoch that nothing but time and media requests change.
Retired(epoch) ==
    epoch.state \in {"absent", "draining", "failed"} /\ epoch.worker = "none"

\* One epoch after an update that neither discards it nor takes its media.
Carried(a, b) ==
    /\ a \in Epochs
    /\ a.state = "absent" => b.state = "absent"
    /\ a.target = b.target
    /\ b.supply # "none" => a.supply # "none"
    /\ a.late => b.late

\* One epoch after an update that promotes nothing either.
Alike(a, b) ==
    /\ Carried(a, b)
    /\ a.state = "draining" => b.state = "draining"
    /\ a.reason = b.reason
    /\ Retired(b) => a.worker = "none" /\ a.state = b.state /\ a.age = b.age

\* Only the active epoch starts to drain, and no epoch is discarded that is
\* active, the replacement, draining or older than the active one.
EpochKept(t, s, e) ==
    \/ e # s.active /\ Alike(t.epochs[e], s.epochs[e])
    \/ e = s.active /\ Carried(t.epochs[e], s.epochs[e])
    \/ /\ e # s.active
       /\ e # t.replacement
       /\ e > s.active \/ s.epochs[e].state = "absent"
       /\ s.epochs[e].state # "draining"
       /\ t.epochs[e] = Absent

\* An update that names the same epochs, forgets the replacement or makes it the
\* candidate of the audio switch.
NamesKept(t, s) ==
    /\ t.active = s.active
    /\ t.created = s.created
    /\ t.replacement \in {s.replacement, NoEpoch}
    /\ \/ t.candidate \in {s.candidate, NoEpoch}
       \/ /\ t.candidate = s.replacement
          /\ t.replacement = s.replacement
          /\ s.replacement # NoEpoch
          /\ ReplacementEpoch(s).reason = "audio"
    /\ t.candidate # NoEpoch /\ t.replacement # s.replacement =>
        t.epochs[s.replacement].state = "absent"

RevisionsKept(t, s) ==
    /\ \/ t.revision = s.revision
       \/ s.revision = 0 /\ t.revision = 1 /\ ActiveEpoch(t).supply # "none"
    /\ t.acknowledged >= s.acknowledged
    /\ t.acknowledged <= t.revision

Keeps(t, s) ==
    /\ NamesKept(t, s)
    /\ RevisionsKept(t, s)
    /\ \A e \in Ids : EpochKept(t, s, e)

LEMMA KeepsIsConsistent ==
    ASSUME NEW s, NEW t \in Sessions, Good(s), Keeps(t, s)
    PROVE  Consistent(t)
<1> USE EpochConstants, EpochTypes
<1>1. s \in Sessions
  BY DEF Good
<1>2. /\ s.active \in Ids /\ s.replacement \in Ids \cup {NoEpoch}
      /\ s.candidate \in Ids \cup {NoEpoch}
  BY <1>1, FieldTypes
<1>3. /\ s.active \in Present(s)
      /\ s.active <= s.created
      /\ s.replacement # NoEpoch =>
            /\ s.replacement \in Present(s)
            /\ s.replacement > s.active
            /\ s.replacement # s.active
            /\ s.replacement <= s.created
            /\ ReplacementEpoch(s).state # "draining"
  BY <1>1, FieldTypes DEF Good, Consistent
<1>4. /\ t.active \in Present(t)
      /\ t.active <= t.created
      /\ t.acknowledged <= t.revision
  <2>1. t.epochs[s.active].state # "absent"
    BY <1>2, <1>3 DEF Keeps, EpochKept, Carried, Present
  <2> QED
    BY <1>2, <1>3, <2>1 DEF Keeps, NamesKept, RevisionsKept, Present
<1>5. t.replacement # NoEpoch => Alike(t.epochs[s.replacement], s.epochs[s.replacement])
  BY <1>2, <1>3 DEF Keeps, EpochKept, NamesKept
<1>6. t.replacement # NoEpoch =>
        /\ t.replacement \in Present(t)
        /\ t.replacement > t.active
        /\ t.replacement <= t.created
        /\ ReplacementEpoch(t).state # "draining"
  BY <1>2, <1>3, <1>5 DEF Keeps, NamesKept, Alike, Carried, Present, ReplacementEpoch
<1>7. t.candidate # NoEpoch =>
        /\ t.candidate # t.active
        /\ t.candidate <= t.created
        /\ t.candidate = t.replacement => ReplacementEpoch(t).reason = "audio"
        /\ t.candidate = t.replacement \/ t.epochs[t.candidate].state = "absent"
  <2> SUFFICES ASSUME t.candidate # NoEpoch
               PROVE  /\ t.candidate # t.active
                      /\ t.candidate <= t.created
                      /\ t.candidate = t.replacement => ReplacementEpoch(t).reason = "audio"
                      /\ t.candidate = t.replacement \/ t.epochs[t.candidate].state = "absent"
    OBVIOUS
  <2>1. CASE /\ t.candidate = s.replacement
             /\ t.replacement = s.replacement
             /\ s.replacement # NoEpoch
             /\ ReplacementEpoch(s).reason = "audio"
    BY <1>3, <1>5, <2>1 DEF Keeps, NamesKept, Alike, ReplacementEpoch
  <2>2. CASE t.candidate = s.candidate
    <3>1. /\ s.candidate \in Ids
          /\ s.candidate # s.active
          /\ s.candidate <= s.created
          /\ s.candidate = s.replacement => ReplacementEpoch(s).reason = "audio"
          /\ s.candidate = s.replacement \/ s.epochs[s.candidate].state = "absent"
      BY <1>2, <2>2 DEF Good, Consistent
    <3>2. t.candidate # t.active /\ t.candidate <= t.created
      BY <2>2, <3>1 DEF Keeps, NamesKept
    <3>3. t.candidate = t.replacement => ReplacementEpoch(t).reason = "audio"
      BY <1>5, <2>2, <3>1 DEF Keeps, NamesKept, Alike, ReplacementEpoch
    <3>4. s.epochs[s.candidate].state = "absent" => t.epochs[s.candidate].state = "absent"
      <4>1. s.epochs[s.candidate].state = "absent" => Retired(s.epochs[s.candidate])
        BY <3>1 DEF Good, Tidy, Retired
      <4> QED
        BY <3>1, <4>1 DEF Keeps, EpochKept, Alike
    <3>5. t.candidate = t.replacement \/ t.epochs[t.candidate].state = "absent"
      BY <2>2, <3>1, <3>4 DEF Keeps, NamesKept
    <3> QED
      BY <3>2, <3>3, <3>5
  <2> QED
    BY <2>1, <2>2 DEF Keeps, NamesKept
<1> QED
  BY <1>4, <1>6, <1>7 DEF Consistent

LEMMA KeepsIsTidy ==
    ASSUME NEW s, NEW t \in Sessions, Good(s), Keeps(t, s)
    PROVE  Tidy(t) /\ Readable(t) /\ Stays(t, s)
<1> USE EpochConstants, EpochTypes
<1>1. s \in Sessions
  BY DEF Good
<1>2. /\ s.active \in Ids /\ s.created \in Int /\ s.revision \in Nat /\ t.revision \in Nat
      /\ t.active = s.active /\ t.created = s.created
      /\ t.revision >= s.revision
      /\ \A e \in Ids : e \in Int /\ s.epochs[e].target \in Nat
  BY <1>1, FieldTypes DEF Keeps, NamesKept, RevisionsKept
<1>3. \A e \in Ids \ {s.active} :
        s.epochs[e].state \in {"absent", "draining"} => Retired(s.epochs[e])
  BY DEF Good, Tidy, Retired
<1>4. \A e \in Present(t) : e <= t.created
  BY <1>2, <1>3 DEF Keeps, EpochKept, Alike, Present, Good, Consistent, Tidy
<1>5. \A e \in Ids \ {t.active} :
        t.epochs[e].state \in {"absent", "draining"} => t.epochs[e].worker = "none"
  BY <1>2, <1>3 DEF Keeps, EpochKept, Alike, Carried
<1>6. Stays(t, s)
  <2>1. \A e \in Ids : Drained(s, e) =>
          /\ Drained(t, e)
          /\ t.epochs[e].target = s.epochs[e].target
          /\ t.epochs[e].age = s.epochs[e].age
    BY <1>2, <1>3 DEF Keeps, EpochKept, Alike, Carried, Drained, Retired
  <2>2. \A e \in Ids : Ended(s, e) => Ended(t, e)
    BY <1>2 DEF Keeps, EpochKept, Alike, Ended, Retired
  <2> QED
    BY <2>1, <2>2 DEF Stays
<1>7. \A e \in Ids : Drained(t, e) => t.epochs[e].target > 0
  BY <1>2, <1>3 DEF Keeps, EpochKept, Alike, Carried, Drained, Good, Tidy
<1>8. ASSUME ~FullMode, NEW e \in Ids PROVE t.epochs[e].target <= t.revision
  <2>1. t.epochs[e].target \in {0, s.epochs[e].target}
    BY DEF Keeps, EpochKept, Alike, Carried
  <2>2. s.epochs[e].target <= s.revision
    BY <1>8 DEF Good, Tidy
  <2> QED
    BY <1>2, <2>1, <2>2
<1>9. Readable(t)
  <2>1. ActiveEpoch(s).supply # "none" => ActiveEpoch(t).supply # "none"
    BY <1>2 DEF Keeps, EpochKept, Carried, ActiveEpoch
  <2>2. CASE t.revision = s.revision
    BY <2>1, <2>2 DEF Good, Readable
  <2>3. CASE t.revision # s.revision
    BY <2>3 DEF Keeps, RevisionsKept, Readable
  <2> QED
    BY <2>2, <2>3
<1>10. \A e \in Ids : t.epochs[e].late => Drained(t, e) /\ e < t.active
  <2> SUFFICES ASSUME NEW e \in Ids, t.epochs[e].late
               PROVE  Drained(t, e) /\ e < t.active
    OBVIOUS
  <2>1. s.epochs[e].late
    BY AbsentIsNotLate DEF Keeps, EpochKept, Alike, Carried
  <2>2. Drained(s, e) /\ e < s.active
    BY <2>1 DEF Good, Tidy
  <2> QED
    BY <1>2, <1>6, <2>2 DEF Stays
<1> QED
  BY <1>4, <1>5, <1>6, <1>7, <1>8, <1>9, <1>10 DEF Tidy

LEMMA KeepsPrepares ==
    ASSUME NEW s, NEW t \in Sessions, Good(s), Keeps(t, s)
    PROVE  Prepares(t, s)
<1>1. s \in Sessions
  BY DEF Good
<1>2. Good(t) /\ Stays(t, s)
  BY KeepsIsConsistent, KeepsIsTidy DEF Good
<1>3. Grows(t, s)
  BY <1>1, FieldTypes DEF Grows, HandInHand, Keeps, NamesKept, RevisionsKept
<1> QED
  BY <1>2, <1>3 DEF Prepares, Keeps, NamesKept

LEMMA EpochOperators ==
    ASSUME NEW epoch \in Epochs
    PROVE  /\ Alike(epoch, epoch)
           /\ Alike(EnsureWorker(epoch), epoch)
           /\ EnsureWorker(epoch).supply = epoch.supply
           /\ epoch.state # "absent" => Alike(Preparing(epoch), epoch)
           /\ Preparing(epoch).supply = epoch.supply
           /\ Preparing(epoch) \in Epochs
<1> USE DEF Epochs, EpochStates, Workers, Alike, Carried, Retired
<1>1. Alike(EnsureWorker(epoch), epoch) /\ EnsureWorker(epoch).supply = epoch.supply
  BY DEF EnsureWorker, NeedsWorker
<1>2. /\ epoch.state # "absent" => Alike(Preparing(epoch), epoch)
      /\ Preparing(epoch).supply = epoch.supply
      /\ Preparing(epoch) \in Epochs
  BY DEF Preparing
<1> QED
  BY <1>1, <1>2

\* Fields that none of this is about
LEMMA BystandersHold ==
    ASSUME NEW s, NEW t \in Sessions, Good(s),
           t.epochs = s.epochs, t.active = s.active, t.created = s.created,
           t.replacement = s.replacement, t.candidate \in {s.candidate, NoEpoch},
           t.revision = s.revision, t.acknowledged = s.acknowledged
    PROVE  Holds(t, s)
<1>1. s \in Sessions
  BY DEF Good
<1>2. \A e \in Ids : Alike(t.epochs[e], s.epochs[e])
  BY <1>1, EpochOperators, FieldTypes
<1>3. \A e \in Ids : EpochKept(t, s, e)
  BY <1>2 DEF EpochKept, Alike
<1>4. RevisionsKept(t, s)
  BY <1>1, FieldTypes DEF RevisionsKept, Good, Consistent
<1>5. Keeps(t, s)
  BY <1>3, <1>4 DEF Keeps, NamesKept
<1> QED
  BY <1>5, KeepsPrepares DEF Holds, ActiveEpoch

\* One epoch changes, and it may become the candidate of the audio switch.
LEMMA EpochChanges ==
    ASSUME NEW s, NEW t \in Sessions, Good(s), NEW e \in Ids, NEW epoch,
           \/ Alike(epoch, s.epochs[e])
           \/ e = s.active /\ Carried(epoch, s.epochs[e]),
           t.epochs = [s.epochs EXCEPT ![e] = epoch],
           t.active = s.active, t.created = s.created, t.replacement = s.replacement,
           \/ t.candidate = s.candidate
           \/ /\ t.candidate = s.replacement
              /\ s.replacement # NoEpoch
              /\ ReplacementEpoch(s).reason = "audio",
           t.revision = s.revision, t.acknowledged = s.acknowledged
    PROVE  /\ Prepares(t, s)
           /\ e # s.active \/ epoch.supply = s.epochs[e].supply => Holds(t, s)
<1>1. s \in Sessions
  BY DEF Good
<1>2. /\ s.epochs \in [Ids -> Epochs] /\ s.active \in Ids
      /\ t.epochs[e] = epoch
      /\ \A f \in Ids \ {e} : t.epochs[f] = s.epochs[f]
  BY <1>1, FieldTypes
<1>3. \A f \in Ids \ {e} : Alike(t.epochs[f], s.epochs[f])
  BY <1>2, EpochOperators
<1>4. \A f \in Ids : EpochKept(t, s, f)
  BY <1>2, <1>3 DEF EpochKept, Alike
<1>5. RevisionsKept(t, s)
  BY <1>1, FieldTypes DEF RevisionsKept, Good, Consistent
<1>6. NamesKept(t, s)
  BY DEF NamesKept
<1>7. Prepares(t, s)
  BY <1>4, <1>5, <1>6, KeepsPrepares DEF Keeps
<1> QED
  BY <1>2, <1>7 DEF Holds, ActiveEpoch

-----------------------------------------------------------------------------
(* The operators the handlers are made of *)

LEMMA EnsureWorkersHolds ==
    ASSUME NEW s, Good(s)
    PROVE  Holds(EnsureWorkers(s), s)
<1> USE EpochConstants, EpochTypes
<1> DEFINE t == EnsureWorkers(s)
<1>1. s \in Sessions
  BY DEF Good
<1>2. \A e \in Ids : s.epochs[e] \in Epochs
  BY <1>1, FieldTypes
<1>3. t.epochs = [e \in Ids |-> IF e \in {s.active, s.replacement}
                                THEN EnsureWorker(s.epochs[e]) ELSE s.epochs[e]]
  BY <1>1 DEF EnsureWorkers, Sessions
<1>4. \A e \in Ids : /\ Alike(t.epochs[e], s.epochs[e])
                     /\ t.epochs[e].supply = s.epochs[e].supply
  BY <1>2, <1>3, EpochOperators
<1>5. t.epochs \in [Ids -> Epochs]
  BY <1>3, <1>4 DEF Alike, Carried
<1>6. t \in Sessions
  BY <1>1, <1>5 DEF EnsureWorkers, Sessions
<1>7. /\ t.active = s.active /\ t.created = s.created /\ t.replacement = s.replacement
      /\ t.candidate = s.candidate /\ t.revision = s.revision
      /\ t.acknowledged = s.acknowledged
  BY <1>1 DEF EnsureWorkers, Sessions
<1> HIDE DEF t
<1>8. NamesKept(t, s)
  BY <1>7 DEF NamesKept
<1>9. RevisionsKept(t, s)
  BY <1>1, <1>7, FieldTypes DEF RevisionsKept, Good, Consistent
<1>10. \A e \in Ids : EpochKept(t, s, e)
  BY <1>4 DEF EpochKept, Alike
<1>11. Prepares(t, s)
  BY <1>6, <1>8, <1>9, <1>10, KeepsPrepares DEF Keeps
<1>12. Holds(t, s)
  BY <1>1, <1>4, <1>7, <1>11, FieldTypes DEF Holds, ActiveEpoch
<1> QED
  BY <1>12 DEF t

LEMMA SettleReadyHolds ==
    ASSUME NEW s, Good(s)
    PROVE  Holds(SettleReady(s), s)
<1> USE EpochConstants, EpochTypes
<1>1. /\ s \in Sessions /\ s.active \in Ids
      /\ s.epochs \in [Ids -> Epochs] /\ s.epochs[s.active] \in Epochs
  BY FieldTypes DEF Good
<1> DEFINE state == IF ActiveEpoch(s).state = "draining" THEN "draining"
                    ELSE IF Attached(s) THEN "active" ELSE "attach_ready"
           epoch == [s.epochs[s.active] EXCEPT !.state = state]
           t == [s EXCEPT !.error = "none"]
           u == [s EXCEPT !.error = "none",
                  !.status = IF ActiveEpoch(s).state = "draining" THEN "recovering"
                             ELSE IF Attached(s) THEN "active" ELSE "starting",
                  !.epochs[s.active].state = state]
<1>2. Holds(t, s)
  <2>1. t \in Sessions
    BY <1>1 DEF Sessions, Errors
  <2> QED
    BY <1>1, <2>1, BystandersHold DEF Sessions
<1>3. Holds(u, s)
  <2>1. state \in EpochStates /\ state # "absent"
    BY DEF EpochStates
  <2> HIDE DEF state
  <2>2. Carried(epoch, s.epochs[s.active]) /\ epoch.supply = s.epochs[s.active].supply
    BY <1>1, <2>1 DEF Carried, Epochs
  <2>3. u.epochs = [s.epochs EXCEPT ![s.active] = epoch]
    BY <1>1 DEF Sessions
  <2>4. u \in Sessions
    BY <1>1, <2>2, <2>3 DEF Sessions, Errors, Statuses, Carried
  <2>5. /\ u.active = s.active /\ u.created = s.created /\ u.replacement = s.replacement
        /\ u.candidate = s.candidate /\ u.revision = s.revision
        /\ u.acknowledged = s.acknowledged
    BY <1>1 DEF Sessions
  <2> HIDE DEF u, epoch
  <2> QED
    BY <1>1, <2>2, <2>3, <2>4, <2>5, EpochChanges
<1>4. Holds(EnsureWorkers(t), s) /\ Holds(EnsureWorkers(u), s)
  <2> HIDE DEF t, u
  <2>1. Good(t) /\ Good(u)
    BY <1>2, <1>3 DEF Holds, Prepares
  <2> QED
    BY <1>2, <1>3, <2>1, EnsureWorkersHolds, HoldsTransitive
<1> QED
  BY <1>4 DEF SettleReady

LEMMA SettleUnreadyHolds ==
    ASSUME NEW s, Good(s)
    PROVE  Holds(SettleUnready(s), s)
<1> USE EpochConstants, EpochTypes
<1>1. /\ s \in Sessions /\ s.active \in Ids
      /\ s.epochs \in [Ids -> Epochs] /\ s.epochs[s.active] \in Epochs
      /\ s.epochs[s.active].state # "absent"
  BY FieldTypes DEF Good, Consistent, Present
<1> DEFINE epoch == Preparing(ActiveEpoch(s))
           t == [s EXCEPT !.epochs[s.active] = epoch,
                 !.status = IF s.replacement = NoEpoch THEN "starting" ELSE s.status]
<1>2. /\ Alike(epoch, s.epochs[s.active])
      /\ epoch.supply = s.epochs[s.active].supply
      /\ epoch \in Epochs
  BY <1>1, EpochOperators DEF ActiveEpoch
<1> HIDE DEF epoch
<1>3. t \in Sessions
  BY <1>1, <1>2 DEF Sessions, Statuses
<1>4. /\ t.epochs = [s.epochs EXCEPT ![s.active] = epoch]
      /\ t.active = s.active /\ t.created = s.created /\ t.replacement = s.replacement
      /\ t.candidate = s.candidate /\ t.revision = s.revision
      /\ t.acknowledged = s.acknowledged
  BY <1>1 DEF Sessions
<1> HIDE DEF t
<1>5. Holds(t, s)
  BY <1>1, <1>2, <1>3, <1>4, EpochChanges
<1>6. Holds(EnsureWorkers(t), s)
  <2>1. Good(t)
    BY <1>5 DEF Holds, Prepares
  <2> QED
    BY <1>5, <2>1, EnsureWorkersHolds, HoldsTransitive
<1> QED
  BY <1>6 DEF SettleUnready, t, epoch

\* The first attach revision is issued for an epoch that has media.
LEMMA SettleActiveHolds ==
    ASSUME NEW s, Good(s)
    PROVE  Holds(SettleActive(s), s)
<1> USE EpochConstants, EpochTypes
<1>1. s \in Sessions /\ s.active \in Ids /\ \A e \in Ids : s.epochs[e] \in Epochs
  BY FieldTypes DEF Good
<1>2. ActiveEpoch(s).error \in Errors
  BY <1>1 DEF ActiveEpoch, Epochs
<1> DEFINE issued ==
               IF AttachReady(ActiveEpoch(s)) /\ s.revision = 0
               THEN IssueRevision(s, 1, ActiveEpoch(s)) ELSE s
           settled ==
               IF s.switch = "committing" /\ s.replacement = NoEpoch /\ Attached(issued)
               THEN [issued EXCEPT !.switch = "active"] ELSE issued
           waiting == [s EXCEPT !.status = "recovering",
                          !.error = IF ActiveEpoch(s).error = "none" THEN "retryable"
                                    ELSE ActiveEpoch(s).error]
<1>3. Holds(issued, s)
  <2> DEFINE t == [s EXCEPT !.revision = 1]
  <2>1. ASSUME AttachReady(ActiveEpoch(s)), s.revision = 0
        PROVE  Holds(t, s)
    <3>1. t \in Sessions
      BY <1>1 DEF Sessions
    <3>2. /\ t.epochs = s.epochs /\ t.active = s.active /\ t.created = s.created
          /\ t.replacement = s.replacement /\ t.candidate = s.candidate
          /\ t.revision = 1 /\ t.acknowledged = s.acknowledged
      BY <1>1 DEF Sessions
    <3> HIDE DEF t
    <3>3. ActiveEpoch(t).supply = "full" /\ ActiveEpoch(t).supply = ActiveEpoch(s).supply
      BY <2>1, <3>2 DEF AttachReady, ActiveEpoch
    <3>4. RevisionsKept(t, s)
      BY <1>1, <2>1, <3>2, <3>3, FieldTypes DEF RevisionsKept, Good, Consistent
    <3>5. \A e \in Ids : EpochKept(t, s, e)
      BY <1>1, <3>2, EpochOperators DEF EpochKept, Alike
    <3>6. Prepares(t, s)
      BY <3>1, <3>2, <3>4, <3>5, KeepsPrepares DEF Keeps, NamesKept
    <3> QED
      BY <3>3, <3>6 DEF Holds
  <2>2. issued = s \/ (issued = t /\ AttachReady(ActiveEpoch(s)) /\ s.revision = 0)
    <3>1. CASE AttachReady(ActiveEpoch(s)) /\ s.revision = 0
      BY <3>1 DEF IssueRevision
    <3> QED
      BY <3>1
  <2> HIDE DEF t, issued
  <2> QED
    BY <2>1, <2>2, HoldsItself
<1>4. Holds(settled, s)
  <2> HIDE DEF issued
  <2>1. issued \in Sessions /\ Good(issued)
    BY <1>3 DEF Holds, Prepares, Good
  <2> DEFINE t == [issued EXCEPT !.switch = "active"]
  <2>2. t \in Sessions
    BY <2>1 DEF Sessions, Switches
  <2>3. Holds(t, issued)
    BY <2>1, <2>2, BystandersHold DEF Sessions
  <2>4. settled \in {issued, t}
    OBVIOUS
  <2> HIDE DEF t, settled
  <2> QED
    BY <1>3, <2>3, <2>4, HoldsTransitive
<1>5. Holds(waiting, s)
  <2>1. waiting \in Sessions
    BY <1>1, <1>2 DEF Sessions, Statuses, Errors
  <2> QED
    BY <1>1, <2>1, BystandersHold DEF Sessions
<1>6. /\ Holds(EnsureWorkers(waiting), s)
      /\ Holds(SettleReady(settled), s)
      /\ Holds(SettleUnready(settled), s)
  <2> HIDE DEF settled, waiting
  <2>1. Good(settled) /\ Good(waiting)
    BY <1>4, <1>5 DEF Holds, Prepares
  <2> QED
    BY <1>4, <1>5, <2>1, EnsureWorkersHolds, SettleReadyHolds, SettleUnreadyHolds,
       HoldsTransitive
<1> QED
  BY <1>6 DEF SettleActive

\* Only what is neither active nor draining is discarded.
LEMMA DiscardHolds ==
    ASSUME NEW s, Good(s), NEW e \in Ids, e # s.active, s.epochs[e].state # "draining",
           e > s.active \/ s.epochs[e].state = "absent"
    PROVE  Holds(Discard(s, e), s)
<1> USE EpochConstants, EpochTypes
<1> DEFINE t == Discard(s, e)
<1>1. s \in Sessions /\ \A f \in Ids : Alike(s.epochs[f], s.epochs[f])
  BY EpochOperators, FieldTypes DEF Good
<1>2. t \in Sessions
  BY <1>1 DEF Discard, Sessions
<1>3. /\ t.epochs = [s.epochs EXCEPT ![e] = Absent]
      /\ t.active = s.active /\ t.created = s.created
      /\ t.replacement = (IF s.replacement = e THEN NoEpoch ELSE s.replacement)
      /\ t.candidate = s.candidate /\ t.revision = s.revision
      /\ t.acknowledged = s.acknowledged
  BY <1>1 DEF Discard, Sessions
<1> HIDE DEF t
<1>4. /\ t.epochs[e] = Absent /\ e # t.replacement
      /\ \A f \in Ids \ {e} : t.epochs[f] = s.epochs[f]
  BY <1>1, <1>3, FieldTypes
<1>5. \A f \in Ids : EpochKept(t, s, f)
  BY <1>1, <1>4 DEF EpochKept, Alike
<1>6. NamesKept(t, s)
  BY <1>3, <1>4 DEF NamesKept
<1>7. RevisionsKept(t, s)
  BY <1>1, <1>3, FieldTypes DEF RevisionsKept, Good, Consistent
<1>8. Prepares(t, s)
  BY <1>2, <1>5, <1>6, <1>7, KeepsPrepares DEF Keeps
<1>9. Holds(t, s)
  BY <1>1, <1>3, <1>4, <1>8, FieldTypes DEF Holds, ActiveEpoch
<1> QED
  BY <1>9 DEF t

\* The active epoch starts to drain, with no revision to wait for yet.
LEMMA MarkDrainingHolds ==
    ASSUME NEW s, Good(s)
    PROVE  Holds(MarkDraining(s, s.active, 0), s)
<1> USE EpochConstants, EpochTypes
<1> DEFINE t == MarkDraining(s, s.active, 0)
           epoch == [s.epochs[s.active] EXCEPT !.state = "draining",
                      !.age = IF s.epochs[s.active].age = "old" THEN "old" ELSE "fresh",
                      !.target = Larger(s.epochs[s.active].target, 0)]
<1>1. s \in Sessions /\ s.active \in Ids /\ s.epochs[s.active] \in Epochs
      /\ s.epochs[s.active].target \in Nat
  BY FieldTypes DEF Good
<1>2. Carried(epoch, s.epochs[s.active]) /\ epoch.supply = s.epochs[s.active].supply
  <2>1. Larger(s.epochs[s.active].target, 0) = s.epochs[s.active].target
    BY <1>1 DEF Larger
  <2>2. epoch \in Epochs
    BY <1>1, <2>1 DEF Epochs, EpochStates, Ages
  <2>3. /\ epoch.state = "draining" /\ epoch.target = s.epochs[s.active].target
        /\ epoch.supply = s.epochs[s.active].supply
    BY <1>1, <2>1 DEF Epochs
  <2> QED
    BY <2>2, <2>3 DEF Carried
<1>3. t = [s EXCEPT !.epochs[s.active] = epoch]
  BY DEF MarkDraining
<1> HIDE DEF t, epoch
<1>4. t \in Sessions
  BY <1>1, <1>2, <1>3 DEF Sessions, Carried
<1>5. /\ t.epochs = [s.epochs EXCEPT ![s.active] = epoch]
      /\ t.active = s.active /\ t.created = s.created /\ t.replacement = s.replacement
      /\ t.candidate = s.candidate /\ t.revision = s.revision
      /\ t.acknowledged = s.acknowledged
  BY <1>1, <1>3 DEF Sessions
<1>6. Holds(t, s)
  BY <1>1, <1>2, <1>4, <1>5, EpochChanges
<1> QED
  BY <1>6 DEF t

LEMMA FailuresHold ==
    ASSUME NEW s, Good(s), NEW error \in Errors
    PROVE  Holds(FailSession(s, error), s) /\ Holds(FailSwitch(s), s)
<1> USE EpochConstants, EpochTypes
<1>1. s \in Sessions
  BY DEF Good
<1>2. FailSession(s, error) \in Sessions /\ FailSwitch(s) \in Sessions
  <2>1. FailSession(s, error) \in Sessions
    BY <1>1 DEF FailSession, Sessions, Statuses
  <2>2. FailSwitch(s) \in Sessions
    <3> DEFINE selected == IF s.audio # NoStream THEN s.audio ELSE s.selected
    <3>1. selected \in Streams \cup {NoStream}
      BY <1>1 DEF Sessions
    <3> HIDE DEF selected
    <3>2. [s EXCEPT !.switch = "failed", !.candidate = NoEpoch, !.expired = FALSE,
                    !.selected = selected] \in Sessions
      BY <1>1, <3>1 DEF Sessions, Switches
    <3> QED
      BY <3>2 DEF FailSwitch, selected
  <2> QED
    BY <2>1, <2>2
<1>3. Holds(FailSession(s, error), s)
  <2> DEFINE t == FailSession(s, error)
  <2>1. /\ t.epochs = s.epochs /\ t.active = s.active /\ t.created = s.created
        /\ t.replacement = s.replacement /\ t.candidate = s.candidate
        /\ t.revision = s.revision /\ t.acknowledged = s.acknowledged
    BY <1>1 DEF FailSession, Sessions
  <2> HIDE DEF t
  <2> QED
    BY <1>2, <2>1, BystandersHold DEF t
<1>4. Holds(FailSwitch(s), s)
  <2> DEFINE t == FailSwitch(s)
  <2>1. /\ t.epochs = s.epochs /\ t.active = s.active /\ t.created = s.created
        /\ t.replacement = s.replacement /\ t.candidate = NoEpoch
        /\ t.revision = s.revision /\ t.acknowledged = s.acknowledged
    BY <1>1 DEF FailSwitch, Sessions
  <2> HIDE DEF t
  <2> QED
    BY <1>2, <2>1, BystandersHold DEF t
<1> QED
  BY <1>3, <1>4

LEMMA CancelCandidateHolds ==
    ASSUME NEW s, Good(s), NEW switch \in Switches
    PROVE  Holds(CancelCandidate(s, switch), s)
<1> USE EpochConstants, EpochTypes
<1> DEFINE discarded == IF Candidate(s) # NoEpoch THEN Discard(s, s.replacement)
                        ELSE IF s.candidate # NoEpoch THEN Discard(s, s.candidate)
                        ELSE s
           t == [discarded EXCEPT !.replacement = NoEpoch, !.selected = s.audio,
                                  !.candidate = NoEpoch, !.expired = FALSE,
                                  !.switch = switch]
<1>1. s \in Sessions
  BY DEF Good
<1>2. s.replacement # NoEpoch =>
        /\ s.replacement \in Ids /\ s.replacement # s.active /\ s.replacement > s.active
        /\ s.epochs[s.replacement].state # "draining"
  BY <1>1, FieldTypes DEF Good, Consistent, ReplacementEpoch
<1>3. s.candidate # NoEpoch =>
        /\ s.candidate \in Ids /\ s.candidate # s.active
        /\ s.epochs[s.candidate].state # "draining"
        /\ s.candidate > s.active \/ s.epochs[s.candidate].state = "absent"
  BY <1>1, <1>2, FieldTypes DEF Good, Consistent
<1>4. Candidate(s) # NoEpoch => s.replacement # NoEpoch
  BY DEF Candidate
<1>5. Holds(discarded, s)
  BY <1>2, <1>3, <1>4, HoldsItself, DiscardHolds
<1> HIDE DEF discarded
<1>6. discarded \in Sessions /\ Good(discarded)
  BY <1>5 DEF Holds, Prepares, Good
<1>7. t \in Sessions
  BY <1>1, <1>6 DEF Sessions, Switches
<1>8. /\ t.epochs = discarded.epochs /\ t.active = discarded.active
      /\ t.created = discarded.created /\ t.replacement = NoEpoch
      /\ t.candidate = NoEpoch /\ t.revision = discarded.revision
      /\ t.acknowledged = discarded.acknowledged
  BY <1>6 DEF Sessions
<1> HIDE DEF t
<1>9. \A e \in Ids : EpochKept(t, discarded, e)
  BY <1>6, <1>8, EpochOperators, FieldTypes DEF EpochKept, Alike
<1>10. RevisionsKept(t, discarded)
  BY <1>6, <1>8, FieldTypes DEF RevisionsKept, Good, Consistent
<1>11. Prepares(t, discarded)
  BY <1>6, <1>7, <1>8, <1>9, <1>10, KeepsPrepares DEF Keeps, NamesKept
<1>12. Holds(t, discarded)
  BY <1>8, <1>11 DEF Holds, ActiveEpoch
<1>13. Holds(t, s)
  BY <1>5, <1>12, HoldsTransitive
<1> QED
  BY <1>13 DEF CancelCandidate, t, discarded

\* A new replacement is the youngest epoch of the session.
LEMMA CreateReplacementHolds ==
    ASSUME NEW s, Good(s), NEW reason \in Reasons
    PROVE  /\ Holds(CreateReplacement(s, reason), s)
           /\ CreateReplacement(s, reason).replacement # NoEpoch =>
                ReplacementEpoch(CreateReplacement(s, reason)).reason = reason
<1> USE EpochConstants, EpochTypes
<1> DEFINE superseded ==
               IF s.replacement # NoEpoch /\ ReplacementEpoch(s).reason = "audio"
                                          /\ reason # "audio"
               THEN FailSwitch(s) ELSE s
           cleared ==
               IF s.replacement # NoEpoch THEN Discard(superseded, s.replacement)
                                          ELSE superseded
           id == s.created + 1
           t == [cleared EXCEPT !.epochs[id] = NewEpoch(reason, cleared.selected),
                                !.replacement = id,
                                !.created = id,
                                !.backoff = FALSE]
<1>1. s \in Sessions
  BY DEF Good
<1>2. Holds(superseded, s)
  BY HoldsItself, FailuresHold DEF Errors
<1>3. /\ superseded.active = s.active
      /\ superseded.created = s.created
      /\ superseded.replacement = s.replacement
      /\ superseded.epochs = s.epochs
  BY <1>1 DEF FailSwitch, Sessions
<1>4. Holds(cleared, s)
  <2> HIDE DEF superseded
  <2>1. s.replacement # NoEpoch =>
          /\ s.replacement \in Ids /\ s.replacement # s.active /\ s.replacement > s.active
          /\ s.epochs[s.replacement].state # "draining"
    BY <1>1, FieldTypes DEF Good, Consistent, ReplacementEpoch
  <2>2. s.replacement # NoEpoch => Holds(Discard(superseded, s.replacement), superseded)
    BY <1>2, <1>3, <2>1, DiscardHolds DEF Holds, Prepares
  <2> QED
    BY <1>2, <2>2, HoldsTransitive
<1>5. cleared.created = s.created /\ cleared.replacement = NoEpoch /\ cleared \in Sessions
  <2>1. superseded \in Sessions /\ cleared \in Sessions
    BY <1>2, <1>4 DEF Holds, Prepares, Good
  <2> HIDE DEF superseded
  <2> QED
    BY <1>3, <2>1 DEF Discard, Sessions
<1>6. Holds(FailSession(cleared, "retryable"), s)
  <2> HIDE DEF cleared
  <2>1. Holds(FailSession(cleared, "retryable"), cleared)
    BY <1>4, FailuresHold DEF Holds, Prepares, Errors
  <2> QED
    BY <1>4, <2>1, HoldsTransitive
<1>7. FailSession(cleared, "retryable").replacement = NoEpoch
  <2> HIDE DEF cleared
  <2> QED
    BY <1>5 DEF FailSession, Sessions
<1>8. ASSUME s.created < MaxReplacements
      PROVE  Holds(t, s) /\ ReplacementEpoch(t).reason = reason
  <2> HIDE DEF cleared
  <2>1. id \in Ids /\ id \in 0..MaxReplacements
    BY <1>1, <1>8 DEF Sessions, Ids
  <2> DEFINE epoch == NewEpoch(reason, cleared.selected)
  <2>2. epoch \in Epochs
    BY <1>5 DEF Sessions
  <2>3. t \in Sessions
    BY <1>5, <2>1, <2>2 DEF Sessions
  <2>4. /\ t.active = cleared.active /\ t.created = id /\ t.replacement = id
        /\ t.candidate = cleared.candidate /\ t.revision = cleared.revision
        /\ t.acknowledged = cleared.acknowledged
        /\ t.epochs[id] = epoch
        /\ \A e \in Ids \ {id} : t.epochs[e] = cleared.epochs[e]
    BY <1>5, <2>1 DEF Sessions
  <2>5. /\ epoch.state = "starting" /\ epoch.reason = reason /\ epoch.target = 0
        /\ epoch.late = FALSE
    BY DEF NewEpoch
  <2>6. /\ s.created \in Nat
        /\ cleared.active \in Ids
        /\ cleared.candidate \in Ids \cup {NoEpoch}
        /\ cleared.revision \in Nat /\ cleared.acknowledged \in Nat
    BY <1>1, <1>5, FieldTypes
  <2>7. Good(cleared)
    BY <1>4 DEF Holds, Prepares
  <2>8. /\ cleared.active <= s.created
        /\ cleared.active \in Present(cleared)
        /\ cleared.acknowledged <= cleared.revision
        /\ cleared.candidate # NoEpoch =>
             /\ cleared.candidate # cleared.active
             /\ cleared.candidate <= s.created
             /\ cleared.epochs[cleared.candidate].state = "absent"
        /\ \A e \in Present(cleared) : e <= s.created
    BY <1>5, <2>7 DEF Good, Consistent, Tidy
  <2>9. t.active # id /\ id > t.active /\ t.active <= id /\ t.candidate # id
    BY <2>4, <2>6, <2>8 DEF Ids, NoEpoch
  <2>10. id <= id /\ s.created <= id
    BY <2>6
  <2>11. cleared.epochs[id].state = "absent"
    BY <2>1, <2>6, <2>8 DEF Present
  <2> HIDE DEF t, id, epoch
  <2>12. t.active \in Present(t) /\ id \in Present(t)
    BY <2>1, <2>4, <2>5, <2>8, <2>9 DEF Present
  <2>13. t.candidate # NoEpoch =>
           /\ t.candidate # t.active
           /\ t.candidate <= id
           /\ t.epochs[t.candidate].state = "absent"
    BY <2>1, <2>4, <2>6, <2>8, <2>9, <2>10 DEF Ids
  <2>14. Consistent(t)
    BY <2>4, <2>5, <2>8, <2>9, <2>10, <2>12, <2>13 DEF Consistent, ReplacementEpoch
  <2>15. Tidy(t)
    <3>1. \A e \in Present(t) : e <= t.created
      BY <2>1, <2>4, <2>6, <2>8, <2>10 DEF Present, Ids
    <3>2. \A e \in Ids \ {t.active} :
            t.epochs[e].state \in {"absent", "draining"} => t.epochs[e].worker = "none"
      BY <2>4, <2>5, <2>7 DEF Good, Tidy
    <3>3. \A e \in Ids : Drained(t, e) => t.epochs[e].target > 0
      BY <2>4, <2>5, <2>7 DEF Good, Tidy, Drained
    <3>0. ~FullMode => \A e \in Ids : cleared.epochs[e].target <= cleared.revision
      BY <2>7 DEF Good, Tidy
    <3>4. ~FullMode => \A e \in Ids : t.epochs[e].target <= t.revision
      BY <2>4, <2>5, <2>6, <3>0
    <3>5. ASSUME NEW e \in Ids, t.epochs[e].late
          PROVE  Drained(t, e) /\ e < t.active
      <4>1. e # id
        BY <2>4, <2>5, <3>5
      <4>2. t.epochs[e] = cleared.epochs[e]
        BY <2>4, <4>1
      <4>3. Drained(cleared, e) /\ e < cleared.active
        BY <2>7, <3>5, <4>2 DEF Good, Tidy
      <4> QED
        BY <2>4, <4>2, <4>3 DEF Drained
    <3> QED
      BY <3>1, <3>2, <3>3, <3>4, <3>5 DEF Tidy
  <2>16. ActiveEpoch(t) = ActiveEpoch(cleared)
    BY <2>4, <2>6, <2>9 DEF ActiveEpoch
  <2>17. Good(t)
    BY <2>3, <2>4, <2>7, <2>14, <2>15, <2>16 DEF Good, Readable
  <2>18. Stays(t, cleared)
    BY <2>4, <2>11 DEF Stays, Drained, Ended
  <2>19. Grows(t, cleared)
    BY <1>5, <2>3, <2>4, <2>6, GrowsItself
  <2>20. Holds(t, cleared)
    BY <2>4, <2>16, <2>17, <2>18, <2>19 DEF Holds, Prepares
  <2>21. Holds(t, s)
    BY <1>4, <2>20, HoldsTransitive
  <2> QED
    BY <2>4, <2>5, <2>21 DEF ReplacementEpoch
<1>9. CreateReplacement(s, reason) =
        IF s.created >= MaxReplacements THEN FailSession(cleared, "retryable") ELSE t
  BY DEF CreateReplacement
<1>10. s.created \in Nat
  BY <1>1 DEF Sessions
<1> HIDE DEF cleared, t
<1> QED
  BY <1>6, <1>7, <1>8, <1>9, <1>10

\* A replacement with runway becomes the active epoch and is no candidate of a
\* switch; its predecessor drains and waits for the next revision.
LEMMA PromoteReplacementFollows ==
    ASSUME NEW s, Good(s), s.replacement # NoEpoch, RunwaySatisfied(ReplacementEpoch(s))
    PROVE  Follows(PromoteReplacement(s), s)
<1> USE EpochConstants, EpochTypes
<1> DEFINE next == s.revision + 1
           late == ActiveEpoch(s).late \/ ActiveEpoch(s).worker = "dispatched"
           drained == MarkDraining(s, s.active, next)
           left == [drained.epochs[s.active] EXCEPT !.worker = "none", !.late = late]
           switched ==
               [drained EXCEPT !.epochs[s.active] = left,
                               !.active = s.replacement,
                               !.replacement = NoEpoch,
                               !.error = "none"]
           heard ==
               IF ReplacementEpoch(s).reason # "audio" THEN switched
               ELSE [switched EXCEPT !.audio = ReplacementEpoch(s).audio,
                                     !.selected = ReplacementEpoch(s).audio,
                                     !.switch = "committing",
                                     !.candidate = NoEpoch,
                                     !.expired = FALSE]
           t == IssueRevision(heard, next, ReplacementEpoch(s))
           marked == [s.epochs[s.active] EXCEPT !.state = "draining",
                       !.age = IF s.epochs[s.active].age = "old" THEN "old" ELSE "fresh",
                       !.target = Larger(s.epochs[s.active].target, next)]
           epoch == [marked EXCEPT !.worker = "none", !.late = late]
<1>1. /\ s \in Sessions
      /\ s.active \in Ids /\ s.replacement \in Ids /\ s.created \in 0..MaxReplacements
      /\ s.candidate \in Ids \cup {NoEpoch}
      /\ s.revision \in Nat /\ next \in Nat /\ s.acknowledged \in Nat
      /\ s.epochs \in [Ids -> Epochs]
      /\ \A e \in Ids : s.epochs[e] \in Epochs /\ s.epochs[e].target \in Nat
  BY FieldTypes DEF Good
<1>2. /\ s.replacement > s.active
      /\ s.replacement # s.active
      /\ s.replacement <= s.created
      /\ s.replacement \in Present(s)
      /\ s.epochs[s.replacement].state # "draining"
      /\ s.acknowledged <= s.revision
      /\ s.candidate # NoEpoch =>
            /\ s.candidate <= s.created
            /\ s.candidate # s.active
            /\ s.candidate = s.replacement \/ s.epochs[s.candidate].state = "absent"
      /\ s.candidate = s.replacement => ReplacementEpoch(s).reason = "audio"
  BY <1>1 DEF Good, Consistent, ReplacementEpoch, Ids
<1>0. late \in BOOLEAN
  OBVIOUS
<1> HIDE DEF late
<1>3. /\ marked \in Epochs /\ epoch \in Epochs
      /\ epoch.state = "draining" /\ epoch.worker = "none"
      /\ epoch.target = Larger(s.epochs[s.active].target, next)
      /\ epoch.target \in Nat
  <2>1. Larger(s.epochs[s.active].target, next) \in Nat
    BY <1>1 DEF Larger
  <2>2. marked \in Epochs
    BY <1>1, <2>1 DEF Epochs, EpochStates, Ages
  <2>3. /\ marked.state = "draining"
        /\ marked.target = Larger(s.epochs[s.active].target, next)
    BY <1>1 DEF Epochs
  <2> HIDE DEF marked
  <2> QED
    BY <1>0, <2>1, <2>2, <2>3 DEF Epochs, Workers
<1>4. drained \in Sessions /\ drained = [s EXCEPT !.epochs[s.active] = marked]
  <2>1. drained = [s EXCEPT !.epochs[s.active] = marked]
    BY DEF MarkDraining
  <2> HIDE DEF drained, marked
  <2> QED
    BY <1>1, <1>3, <2>1 DEF Sessions
<1>5. /\ drained.created = s.created /\ drained.revision = s.revision
      /\ drained.acknowledged = s.acknowledged /\ drained.candidate = s.candidate
      /\ drained.epochs = [s.epochs EXCEPT ![s.active] = marked]
  <2> HIDE DEF drained, marked
  <2> QED
    BY <1>1, <1>4 DEF Sessions
<1> HIDE DEF drained, marked
<1>6. left = epoch
  BY <1>1, <1>5
<1> HIDE DEF epoch, left
<1>7. /\ switched \in Sessions
      /\ switched.created = s.created /\ switched.revision = s.revision
      /\ switched.acknowledged = s.acknowledged /\ switched.candidate = s.candidate
      /\ switched.active = s.replacement /\ switched.replacement = NoEpoch
      /\ switched.epochs = [s.epochs EXCEPT ![s.active] = epoch]
  <2>1. switched \in Sessions
    BY <1>1, <1>3, <1>4, <1>6 DEF Sessions, Errors
  <2>2. switched.epochs = [drained.epochs EXCEPT ![s.active] = epoch]
    BY <1>4, <1>6 DEF Sessions
  <2>3. switched.epochs = [s.epochs EXCEPT ![s.active] = epoch]
    BY <1>1, <1>5, <2>2
  <2> QED
    BY <1>1, <1>4, <1>5, <2>1, <2>3 DEF Sessions
<1> HIDE DEF switched
<1>8. /\ heard \in Sessions
      /\ heard.created = s.created /\ heard.revision = s.revision
      /\ heard.acknowledged = s.acknowledged
      /\ heard.active = s.replacement /\ heard.replacement = NoEpoch
      /\ heard.epochs = [s.epochs EXCEPT ![s.active] = epoch]
      /\ heard.candidate # NoEpoch =>
           heard.candidate = s.candidate /\ ReplacementEpoch(s).reason # "audio"
  <2>1. ReplacementEpoch(s).audio \in Streams \cup {NoStream}
    BY <1>1 DEF ReplacementEpoch, Epochs
  <2>2. switched \in Sessions
    BY <1>7
  <2>3. heard \in Sessions
    BY <2>1, <2>2 DEF Sessions, Switches
  <2> QED
    BY <1>7, <2>3 DEF Sessions
<1> HIDE DEF heard
<1>9. /\ t \in Sessions
      /\ t.created = s.created
      /\ t.revision \in {s.revision, next}
      /\ ~FullMode => t.revision = next
      /\ t.acknowledged = s.acknowledged
      /\ t.active = s.replacement /\ t.replacement = NoEpoch
      /\ t.candidate = heard.candidate
      /\ t.epochs = [s.epochs EXCEPT ![s.active] = epoch]
  <2>1. [heard EXCEPT !.revision = next] \in Sessions
    BY <1>1, <1>8 DEF Sessions
  <2>2. CASE FullMode /\ ~AttachReady(ReplacementEpoch(s))
    BY <1>1, <1>8, <2>2 DEF IssueRevision
  <2>3. CASE ~(FullMode /\ ~AttachReady(ReplacementEpoch(s)))
    BY <1>1, <1>8, <2>1, <2>3 DEF IssueRevision, Sessions
  <2> QED
    BY <2>2, <2>3
<1> HIDE DEF t
<1>10. /\ t.epochs[s.active] = epoch
       /\ \A e \in Ids \ {s.active} : t.epochs[e] = s.epochs[e]
  BY <1>1, <1>9
<1>11. t.candidate # NoEpoch =>
         /\ t.candidate # t.active
         /\ t.candidate <= t.created
         /\ t.epochs[t.candidate].state = "absent"
  <2> SUFFICES ASSUME t.candidate # NoEpoch
               PROVE  /\ t.candidate # t.active
                      /\ t.candidate <= t.created
                      /\ t.epochs[t.candidate].state = "absent"
    OBVIOUS
  <2>1. /\ t.candidate = s.candidate /\ s.candidate # NoEpoch
        /\ ReplacementEpoch(s).reason # "audio"
    BY <1>8, <1>9
  <2>2. s.candidate # s.replacement /\ s.epochs[s.candidate].state = "absent"
    BY <1>2, <2>1
  <2> QED
    BY <1>1, <1>2, <1>9, <1>10, <2>1, <2>2
<1>12. Consistent(t)
  BY <1>1, <1>2, <1>9, <1>10, <1>11 DEF Consistent, Present
<1>13. Tidy(t)
  <2>1. /\ \A e \in Ids : e \in Int
        /\ s.active <= s.created
        /\ \A e \in Present(s) : e <= s.created
    BY <1>1 DEF Good, Consistent, Tidy, Ids
  <2>2. \A e \in Present(t) : e <= t.created
    BY <1>9, <1>10, <2>1 DEF Present
  <2>3. \A e \in Ids \ {t.active} :
          t.epochs[e].state \in {"absent", "draining"} => t.epochs[e].worker = "none"
    BY <1>3, <1>10 DEF Good, Tidy
  <2>4. epoch.target > 0
    BY <1>1, <1>3 DEF Larger
  <2>5. \A e \in Ids : Drained(t, e) => t.epochs[e].target > 0
    BY <1>10, <2>4 DEF Good, Tidy, Drained
  <2>6. ASSUME ~FullMode, NEW e \in Ids PROVE t.epochs[e].target <= t.revision
    <3>1. s.epochs[e].target <= s.revision /\ s.epochs[s.active].target <= s.revision
      BY <1>1, <2>6 DEF Good, Tidy
    <3>2. t.epochs[e].target \in {s.epochs[e].target, s.epochs[s.active].target, next}
      BY <1>3, <1>10 DEF Larger
    <3>3. t.revision = next
      BY <1>9, <2>6
    <3>4. /\ s.revision \in Nat /\ s.epochs[e].target \in Nat
          /\ s.epochs[s.active].target \in Nat
      BY <1>1
    <3> QED
      BY <3>1, <3>2, <3>3, <3>4
  <2>7. \A e \in Ids : t.epochs[e].late => Drained(t, e) /\ e < t.active
    <3> SUFFICES ASSUME NEW e \in Ids, t.epochs[e].late
                 PROVE  Drained(t, e) /\ e < t.active
      OBVIOUS
    <3>1. CASE e = s.active
      BY <1>1, <1>2, <1>3, <1>9, <1>10, <3>1 DEF Drained
    <3>2. CASE e # s.active
      <4>1. t.epochs[e] = s.epochs[e]
        BY <1>10, <3>2
      <4>2. Drained(s, e) /\ e < s.active
        BY <4>1 DEF Good, Tidy
      <4>3. e \in Int /\ s.active \in Int /\ s.replacement \in Int
        BY <1>1, <2>1
      <4>4. e < s.replacement /\ e # s.replacement
        BY <1>2, <4>2, <4>3
      <4> QED
        BY <1>9, <4>1, <4>2, <4>4 DEF Drained
    <3> QED
      BY <3>1, <3>2
  <2> QED
    BY <2>2, <2>3, <2>5, <2>6, <2>7 DEF Tidy
<1>14. RunwaySatisfied(ActiveEpoch(t))
  BY <1>1, <1>2, <1>9, <1>10 DEF ActiveEpoch, ReplacementEpoch
<1>15. Good(t)
  BY <1>9, <1>12, <1>13, <1>14 DEF Good, Readable, RunwaySatisfied
<1>16. Stays(t, s)
  <2>1. \A e \in Ids : e \in Int
    BY DEF Ids
  <2>2. ASSUME NEW e \in Ids, Ended(s, e) PROVE Ended(t, e)
    <3>1. e < s.active /\ e \in Int /\ s.active \in Int /\ s.replacement \in Int
      BY <1>1, <2>1, <2>2 DEF Ended
    <3>2. e # s.active /\ e < s.replacement
      BY <1>2, <3>1
    <3>3. t.epochs[e] = s.epochs[e]
      BY <1>10, <3>2
    <3> QED
      BY <1>9, <2>2, <3>2, <3>3 DEF Ended
  <2> QED
    BY <1>2, <1>9, <1>10, <2>2 DEF Stays, Drained
<1>17. Grows(t, s)
  <2>1. s.active \in Int /\ t.active \in Int /\ t.revision \in Nat
    BY <1>1, <1>9, FieldTypes
  <2> QED
    BY <1>1, <1>2, <1>9, <2>1 DEF Grows, HandInHand
<1>18. Promotes(t, s)
  BY <1>2, <1>3, <1>9, <1>10, <1>14 DEF Promotes, Drained
<1>19. Follows(t, s)
  BY <1>15, <1>16, <1>17, <1>18 DEF Follows
<1> QED
  BY <1>19 DEF PromoteReplacement, t, heard, switched, left, drained, late

-----------------------------------------------------------------------------
(* The refresh *)

LEMMA PrepareAudioHolds ==
    ASSUME NEW s, Good(s), s.replacement # NoEpoch, ReplacementEpoch(s).reason = "audio"
    PROVE  Holds(PrepareAudio(s), s)
<1> USE EpochConstants, EpochTypes
<1>1. /\ s \in Sessions /\ s.replacement \in Ids /\ s.active \in Ids
      /\ s.replacement # s.active
      /\ s.epochs \in [Ids -> Epochs]
      /\ s.epochs[s.replacement] \in Epochs
      /\ s.epochs[s.replacement].state \notin {"absent", "draining"}
  BY FieldTypes DEF Good, Consistent, Ids, Present, ReplacementEpoch
<1> DEFINE ready == [s.epochs[s.replacement] EXCEPT !.state = "attach_ready"]
           warm == Preparing(ReplacementEpoch(s))
           announced ==
               [s EXCEPT !.epochs[s.replacement].state = "attach_ready",
                         !.candidate = s.replacement,
                         !.switch = "candidate_ready"]
           preparing ==
               [s EXCEPT !.epochs[s.replacement] = warm,
                         !.switch = "candidate_preparing"]
<1>2. Holds(CancelCandidate(s, "failed"), s)
  BY CancelCandidateHolds DEF Switches
<1>3. ASSUME AudioReady(s, ReplacementEpoch(s)) PROVE Holds(announced, s)
  <2>0. s.epochs[s.replacement].state # "failed"
    BY <1>3 DEF AudioReady, ReplacementEpoch
  <2>1. Alike(ready, s.epochs[s.replacement])
    BY <1>1, <2>0 DEF Epochs, EpochStates, Alike, Carried, Retired
  <2>2. announced.epochs = [s.epochs EXCEPT ![s.replacement] = ready]
    BY <1>1 DEF Sessions
  <2>3. announced \in Sessions
    BY <1>1, <2>1, <2>2 DEF Sessions, Switches, Alike, Carried
  <2>4. /\ announced.active = s.active /\ announced.created = s.created
        /\ announced.replacement = s.replacement
        /\ announced.candidate = s.replacement
        /\ announced.revision = s.revision /\ announced.acknowledged = s.acknowledged
    BY <1>1 DEF Sessions
  <2> HIDE DEF announced, ready
  <2> QED
    BY <1>1, <2>1, <2>2, <2>3, <2>4, EpochChanges
<1>4. Holds(preparing, s)
  <2>1. Alike(warm, s.epochs[s.replacement])
    BY <1>1, EpochOperators DEF ReplacementEpoch
  <2> HIDE DEF warm
  <2>2. preparing.epochs = [s.epochs EXCEPT ![s.replacement] = warm]
    BY <1>1 DEF Sessions
  <2>3. preparing \in Sessions
    BY <1>1, <2>1, <2>2 DEF Sessions, Switches, Alike, Carried
  <2>4. /\ preparing.active = s.active /\ preparing.created = s.created
        /\ preparing.replacement = s.replacement
        /\ preparing.candidate = s.candidate
        /\ preparing.revision = s.revision /\ preparing.acknowledged = s.acknowledged
    BY <1>1 DEF Sessions
  <2> HIDE DEF preparing
  <2> QED
    BY <1>1, <2>1, <2>2, <2>3, <2>4, EpochChanges
<1>5. /\ Holds(SettleActive(CancelCandidate(s, "failed")), s)
      /\ AudioReady(s, ReplacementEpoch(s)) => Holds(SettleActive(announced), s)
      /\ Holds(SettleActive(preparing), s)
  <2> HIDE DEF announced, preparing
  <2>1. /\ Good(CancelCandidate(s, "failed")) /\ Good(preparing)
        /\ AudioReady(s, ReplacementEpoch(s)) => Good(announced)
    BY <1>2, <1>3, <1>4 DEF Holds, Prepares
  <2> QED
    BY <1>2, <1>3, <1>4, <2>1, SettleActiveHolds, HoldsTransitive
<1> QED
  BY <1>5 DEF PrepareAudio

LEMMA PrepareReplacementFollows ==
    ASSUME NEW s, Good(s)
    PROVE  Follows(PrepareReplacement(s), s)
<1> USE EpochConstants, EpochTypes
<1>1. CASE s.replacement = NoEpoch
  BY <1>1, SettleActiveHolds, HoldsFollows DEF PrepareReplacement
<1>2. CASE s.replacement # NoEpoch /\ ReplacementEpoch(s).reason = "audio"
  BY <1>2, PrepareAudioHolds, HoldsFollows DEF PrepareReplacement
<1>3. CASE s.replacement # NoEpoch /\ ReplacementEpoch(s).reason # "audio"
  <2>1. ASSUME AttachReady(ReplacementEpoch(s))
        PROVE  Follows(SettleActive(PromoteReplacement(s)), s)
    <3>1. Follows(PromoteReplacement(s), s)
      BY <1>3, <2>1, PromoteReplacementFollows DEF AttachReady, RunwaySatisfied
    <3>2. Good(PromoteReplacement(s))
      BY <3>1 DEF Follows
    <3> QED
      BY <3>1, <3>2, SettleActiveHolds, HoldsFollows, FollowsTransitive
  <2> DEFINE warm == Preparing(ReplacementEpoch(s))
             preparing ==
                 [s EXCEPT !.epochs[s.replacement] = warm,
                           !.status = IF ActiveEpoch(s).state = "draining"
                                      THEN "recovering" ELSE "switching"]
  <2>2. Holds(preparing, s)
    <3>1. /\ s \in Sessions /\ s.replacement \in Ids /\ s.active \in Ids
          /\ s.replacement # s.active
          /\ s.epochs \in [Ids -> Epochs]
          /\ s.epochs[s.replacement] \in Epochs
          /\ s.epochs[s.replacement].state # "absent"
      BY <1>3, FieldTypes DEF Good, Consistent, Ids, Present
    <3>2. Alike(warm, s.epochs[s.replacement])
      BY <3>1, EpochOperators DEF ReplacementEpoch
    <3> HIDE DEF warm
    <3> DEFINE status == IF ActiveEpoch(s).state = "draining"
                         THEN "recovering" ELSE "switching"
    <3>3. preparing.epochs = [s.epochs EXCEPT ![s.replacement] = warm]
      BY <3>1 DEF Sessions
    <3>4. preparing \in Sessions
      <4>1. status \in Statuses
        BY DEF Statuses
      <4>2. warm \in Epochs
        BY <3>2 DEF Alike, Carried
      <4> HIDE DEF status
      <4>3. [s EXCEPT !.epochs[s.replacement] = warm, !.status = status] \in Sessions
        BY <3>1, <4>1, <4>2 DEF Sessions
      <4> QED
        BY <4>3 DEF status
    <3>5. /\ preparing.active = s.active /\ preparing.created = s.created
          /\ preparing.replacement = s.replacement
          /\ preparing.candidate = s.candidate
          /\ preparing.revision = s.revision /\ preparing.acknowledged = s.acknowledged
      BY <3>1 DEF Sessions
    <3> HIDE DEF preparing
    <3> QED
      BY <3>1, <3>2, <3>3, <3>4, <3>5, EpochChanges
  <2>3. Follows(SettleActive(preparing), s)
    <3> HIDE DEF preparing
    <3>1. Good(preparing)
      BY <2>2 DEF Holds, Prepares
    <3>2. Holds(SettleActive(preparing), s)
      BY <2>2, <3>1, SettleActiveHolds, HoldsTransitive
    <3> QED
      BY <3>2, HoldsFollows
  <2> QED
    BY <1>3, <2>1, <2>3 DEF PrepareReplacement
<1> QED
  BY <1>1, <1>2, <1>3

LEMMA RetryDrainingFollows ==
    ASSUME NEW s, Good(s)
    PROVE  Follows(RetryDraining(s), s)
<1> USE EpochConstants, EpochTypes
<1> DEFINE known == IF s.error # "none" THEN s.error ELSE ActiveEpoch(s).error
           retried == CreateReplacement(s, "recovery")
<1>1. known \in Errors
  BY DEF Good, Sessions, ActiveEpoch, Epochs
<1>2. Holds(retried, s)
  BY CreateReplacementHolds DEF Reasons
<1>3. Follows(PrepareReplacement(s), s)
  BY PrepareReplacementFollows
<1>4. Follows(FailSession(s, known), s)
  BY <1>1, FailuresHold, HoldsFollows
<1>5. Follows(PrepareReplacement(retried), s)
  <2> HIDE DEF retried
  <2>1. Good(retried) /\ Follows(retried, s)
    BY <1>2, HoldsFollows DEF Holds, Prepares
  <2> QED
    BY <2>1, PrepareReplacementFollows, FollowsTransitive
<1>6. Follows(retried, s)
  BY <1>2, HoldsFollows
<1> QED
  BY <1>3, <1>4, <1>5, <1>6 DEF RetryDraining

LEMMA RecoverActiveFollows ==
    ASSUME NEW s, Good(s)
    PROVE  Follows(RecoverActive(s), s)
<1> USE EpochConstants, EpochTypes
<1> DEFINE drained == MarkDraining(s, s.active, 0)
           recovered ==
               IF s.replacement = NoEpoch /\ ~s.backoff
               THEN CreateReplacement(drained, "recovery") ELSE drained
           recovering == [recovered EXCEPT !.status = "recovering"]
<1>1. Holds(drained, s)
  BY MarkDrainingHolds
<1>2. Holds(recovered, s)
  <2> HIDE DEF drained
  <2>1. Good(drained)
    BY <1>1 DEF Holds, Prepares
  <2>2. Holds(CreateReplacement(drained, "recovery"), drained)
    BY <2>1, CreateReplacementHolds DEF Reasons
  <2> QED
    BY <1>1, <2>2, HoldsTransitive
<1>3. Follows(FailSession(drained, "fatal"), s)
  <2> HIDE DEF drained
  <2>1. Holds(FailSession(drained, "fatal"), drained)
    BY <1>1, FailuresHold DEF Holds, Prepares, Errors
  <2> QED
    BY <1>1, <2>1, HoldsTransitive, HoldsFollows
<1>4. Holds(recovering, s)
  <2> HIDE DEF recovered
  <2>1. recovered \in Sessions /\ Good(recovered)
    BY <1>2 DEF Holds, Prepares, Good
  <2>2. recovering \in Sessions
    BY <2>1 DEF Sessions, Statuses
  <2>3. Holds(recovering, recovered)
    BY <2>1, <2>2, BystandersHold DEF Sessions
  <2> HIDE DEF recovering
  <2> QED
    BY <1>2, <2>3, HoldsTransitive
<1>5. Follows(RetryDraining(recovering), s)
  <2> HIDE DEF recovering
  <2>1. Good(recovering) /\ Follows(recovering, s)
    BY <1>4, HoldsFollows DEF Holds, Prepares
  <2> QED
    BY <2>1, RetryDrainingFollows, FollowsTransitive
<1>6. Follows(RetryDraining(s), s) /\ Follows(recovered, s)
  BY <1>2, RetryDrainingFollows, HoldsFollows
<1> QED
  BY <1>3, <1>5, <1>6 DEF RecoverActive

LEMMA DropFailedReplacementFollows ==
    ASSUME NEW s, Good(s), s.replacement # NoEpoch
    PROVE  Follows(DropFailedReplacement(s), s)
<1> USE EpochConstants, EpochTypes
<1> DEFINE error == ReplacementEpoch(s).error
           dropped == Discard(s, s.replacement)
           switched == Discard(FailSwitch(s), s.replacement)
           waiting == [dropped EXCEPT !.backoff = TRUE]
<1>1. /\ s \in Sessions /\ s.replacement \in Ids /\ s.replacement # s.active
      /\ s.replacement > s.active
      /\ s.epochs[s.replacement] \in Epochs
      /\ s.epochs[s.replacement].state # "draining"
      /\ error \in Errors
  <2>1. /\ s \in Sessions /\ s.replacement \in Ids /\ s.replacement # s.active
        /\ s.replacement > s.active
        /\ s.epochs[s.replacement] \in Epochs
        /\ s.epochs[s.replacement].state # "draining"
    BY FieldTypes DEF Good, Consistent, Ids, ReplacementEpoch
  <2> QED
    BY <2>1 DEF ReplacementEpoch, Epochs
<1>2. Holds(dropped, s)
  BY <1>1, DiscardHolds
<1>3. Holds(switched, s)
  <2>1. Holds(FailSwitch(s), s)
    BY FailuresHold DEF Errors
  <2>2. FailSwitch(s).active = s.active /\ FailSwitch(s).epochs = s.epochs
    BY <1>1 DEF FailSwitch, Sessions
  <2>3. Holds(switched, FailSwitch(s))
    BY <1>1, <2>1, <2>2, DiscardHolds DEF Holds, Prepares
  <2> QED
    BY <2>1, <2>3, HoldsTransitive
<1>4. Holds(waiting, s)
  <2> HIDE DEF dropped
  <2>1. dropped \in Sessions /\ Good(dropped)
    BY <1>2 DEF Holds, Prepares, Good
  <2>2. waiting \in Sessions
    BY <2>1 DEF Sessions
  <2>3. Holds(waiting, dropped)
    BY <2>1, <2>2, BystandersHold DEF Sessions
  <2> HIDE DEF waiting
  <2> QED
    BY <1>2, <2>3, HoldsTransitive
<1>5. ASSUME NEW t, Holds(t, s)
      PROVE  /\ Follows(RecoverActive(t), s)
             /\ \A e \in Errors : Follows(FailSession(t, e), s)
  <2>1. Good(t) /\ Follows(t, s)
    BY <1>5, HoldsFollows DEF Holds, Prepares
  <2>2. \A e \in Errors : Follows(FailSession(t, e), t)
    BY <2>1, FailuresHold, HoldsFollows
  <2> QED
    BY <2>1, <2>2, RecoverActiveFollows, FollowsTransitive
<1>6. "fatal" \in Errors
  BY DEF Errors
<1>7. /\ Follows(RecoverActive(switched), s)
      /\ Follows(RecoverActive(waiting), s)
      /\ Follows(FailSession(dropped, "fatal"), s)
      /\ Follows(FailSession(waiting, error), s)
  BY <1>1, <1>2, <1>3, <1>4, <1>5, <1>6
<1> QED
  BY <1>7 DEF DropFailedReplacement

\* The clean-up takes the epochs whose drain is over, and nothing else.
LEMMA CleanupDrainingTidies ==
    ASSUME NEW s, Good(s)
    PROVE  LET t == CleanupDraining(s)
           IN  /\ Good(t)
               /\ t.active = s.active /\ t.revision = s.revision
               /\ t.acknowledged = s.acknowledged
               /\ \A e \in Ids : Drained(s, e) => Drained(t, e) \/ DrainExpired(s, e)
               /\ \A e \in Ids : Ended(s, e) => Ended(t, e)
<1> USE EpochConstants, EpochTypes
<1> DEFINE t == CleanupDraining(s)
<1>1. /\ s \in Sessions /\ s.active \in Ids
      /\ s.replacement \in Ids \cup {NoEpoch} /\ s.candidate \in Ids \cup {NoEpoch}
      /\ \A e \in Ids : s.epochs[e] \in Epochs
      /\ s.revision \in Nat
  BY FieldTypes DEF Good
<1>2. t.epochs = [e \in Ids |-> IF e \notin {s.active, s.replacement} /\ DrainExpired(s, e)
                               THEN Absent ELSE s.epochs[e]]
  BY <1>1 DEF CleanupDraining, Sessions
<1>3. t \in Sessions
  BY <1>1, <1>2 DEF CleanupDraining, Sessions
<1>4. /\ t.active = s.active /\ t.created = s.created /\ t.replacement = s.replacement
      /\ t.candidate = s.candidate /\ t.revision = s.revision
      /\ t.acknowledged = s.acknowledged
  BY <1>1 DEF CleanupDraining, Sessions
<1>5. \A e \in Ids :
        \/ t.epochs[e] = s.epochs[e]
        \/ /\ t.epochs[e] = Absent /\ DrainExpired(s, e)
           /\ e # s.active /\ e # s.replacement
  BY <1>2
<1> HIDE DEF t
<1>6. Consistent(t)
  BY <1>1, <1>4, <1>5 DEF Good, Consistent, Present, ReplacementEpoch
<1>7. Tidy(t)
  <2>1. \A e \in Present(t) : e <= t.created
    BY <1>4, <1>5 DEF Good, Tidy, Present
  <2>2. \A e \in Ids \ {t.active} :
          t.epochs[e].state \in {"absent", "draining"} => t.epochs[e].worker = "none"
    BY <1>4, <1>5 DEF Good, Tidy
  <2>3. \A e \in Ids : Drained(t, e) => t.epochs[e].target > 0
    BY <1>4, <1>5 DEF Good, Tidy, Drained
  <2>4. ~FullMode => \A e \in Ids : t.epochs[e].target <= t.revision
    BY <1>1, <1>4, <1>5 DEF Good, Tidy
  <2>5. \A e \in Ids : t.epochs[e].late => Drained(t, e) /\ e < t.active
    BY <1>4, <1>5, AbsentIsNotLate DEF Good, Tidy, Drained
  <2> QED
    BY <2>1, <2>2, <2>3, <2>4, <2>5 DEF Tidy
<1>8. Readable(t)
  BY <1>1, <1>4, <1>5 DEF Good, Readable, ActiveEpoch
<1>9. \A e \in Ids : Drained(s, e) => Drained(t, e) \/ DrainExpired(s, e)
  BY <1>4, <1>5 DEF Drained
<1>10. \A e \in Ids : Ended(s, e) => Ended(t, e)
  BY <1>4, <1>5 DEF Ended, DrainExpired
<1> QED
  BY <1>3, <1>4, <1>6, <1>7, <1>8, <1>9, <1>10 DEF Good, t

LEMMA RefreshFollows ==
    ASSUME NEW s, Good(s)
    PROVE  Follows(Refresh(s), CleanupDraining(s))
<1>1. Good(CleanupDraining(s))
  BY CleanupDrainingTidies
<1> QED
  BY <1>1, RecoverActiveFollows, DropFailedReplacementFollows DEF Refresh

\* A handler prepares, cleans up and goes on from there.
LEMMA HandlersAdvance ==
    ASSUME NEW s, NEW r, NEW t, Good(s), Prepares(r, s), Follows(t, CleanupDraining(r))
    PROVE  Advances(t, s)
<1> DEFINE c == CleanupDraining(r)
<1>1. Good(r)
  BY DEF Prepares
<1>2. /\ Good(c)
      /\ c.active = r.active /\ c.revision = r.revision
      /\ c.acknowledged = r.acknowledged
      /\ \A e \in Ids : Drained(r, e) => Drained(c, e) \/ DrainExpired(r, e)
  BY <1>1, CleanupDrainingTidies
<1> HIDE DEF c
<1>3. s \in Sessions /\ r \in Sessions /\ c \in Sessions /\ t \in Sessions
  BY <1>1, <1>2 DEF Follows, Good, c
<1>4. Follows(t, c)
  BY DEF c
<1>5. Grows(t, s)
  <2>1. r.acknowledged \in Nat
    BY <1>3, FieldTypes
  <2>2. Grows(c, r)
    BY <1>2, <1>3, <2>1, GrowsItself
  <2>3. Grows(c, s)
    BY <1>3, <2>2, GrowsTransitive DEF Prepares
  <2> QED
    BY <1>3, <1>4, <2>3, GrowsTransitive DEF Follows
<1>6. c.active = s.active
  BY <1>2 DEF Prepares
<1>7. t.active # s.active => Promotes(t, s)
  BY <1>4, <1>6 DEF Follows, Promotes
<1>8. ASSUME NEW e \in Ids, Drained(s, e)
      PROVE  \/ Drained(t, e)
             \/ s.epochs[e].age = "old"
             \/ s.epochs[e].age = "idle" /\ t.acknowledged >= s.epochs[e].target
  <2>1. /\ Drained(r, e)
        /\ r.epochs[e].target = s.epochs[e].target
        /\ r.epochs[e].age = s.epochs[e].age
    BY <1>8 DEF Prepares, Stays
  <2>2. CASE Drained(c, e)
    BY <1>4, <2>2 DEF Follows, Stays
  <2>3. CASE DrainExpired(r, e)
    <3>1. t.acknowledged >= c.acknowledged
      BY <1>4 DEF Follows, Grows
    <3>2. /\ t.acknowledged \in Nat /\ r.acknowledged \in Nat
          /\ s.epochs[e].target \in Nat
      BY <1>3, FieldTypes
    <3> QED
      BY <1>2, <2>1, <2>3, <3>1, <3>2 DEF DrainExpired
  <2> QED
    BY <1>2, <2>1, <2>2, <2>3
<1> QED
  BY <1>4, <1>5, <1>7, <1>8 DEF Advances, Follows

LEMMA RefreshAdvances ==
    ASSUME NEW s, NEW r, Good(s), Prepares(r, s)
    PROVE  Advances(Refresh(r), s)
<1>1. Good(r)
  BY DEF Prepares
<1> QED
  BY <1>1, RefreshFollows, HandlersAdvance

\* A step that neither refreshes nor cleans up
LEMMA PreparationsAdvance ==
    ASSUME NEW s, NEW t, Good(s), Prepares(t, s)
    PROVE  Advances(t, s)
  BY DEF Prepares, Advances, Stays

-----------------------------------------------------------------------------
(* The handlers *)

LEMMA UpdateEpochPrepares ==
    ASSUME NEW s, Good(s), NEW e \in Ids, NEW epoch, Alike(epoch, s.epochs[e])
    PROVE  Prepares([s EXCEPT !.epochs[e] = epoch], s)
<1> USE EpochConstants, EpochTypes
<1> DEFINE t == [s EXCEPT !.epochs[e] = epoch]
<1>1. s \in Sessions /\ epoch \in Epochs
  BY DEF Good, Alike, Carried
<1>2. t \in Sessions
  BY <1>1 DEF Sessions
<1>3. /\ t.epochs = [s.epochs EXCEPT ![e] = epoch]
      /\ t.active = s.active /\ t.created = s.created /\ t.replacement = s.replacement
      /\ t.candidate = s.candidate
      /\ t.revision = s.revision /\ t.acknowledged = s.acknowledged
  BY <1>1 DEF Sessions
<1> HIDE DEF t
<1>4. Prepares(t, s)
  BY <1>2, <1>3, EpochChanges
<1> QED
  BY <1>4 DEF t

\* The clock and media requests change nothing but the age of a drain.
LEMMA AgesAreFree ==
    ASSUME NEW s, Good(s), NEW e \in Ids, NEW age \in Ages
    PROVE  LET t == [s EXCEPT !.epochs[e].age = age]
           IN  /\ Good(t)
               /\ t.active = s.active /\ t.revision = s.revision
               /\ t.acknowledged = s.acknowledged
               /\ \A f \in Ids : Drained(s, f) => Drained(t, f)
<1> USE EpochConstants, EpochTypes
<1> DEFINE t == [s EXCEPT !.epochs[e].age = age]
           epoch == [s.epochs[e] EXCEPT !.age = age]
<1>1. /\ s \in Sessions /\ s.active \in Ids /\ s.epochs[e] \in Epochs
      /\ s.epochs \in [Ids -> Epochs]
      /\ s.replacement \in Ids \cup {NoEpoch} /\ s.candidate \in Ids \cup {NoEpoch}
  BY FieldTypes DEF Good
<1>2. /\ epoch \in Epochs
      /\ epoch.state = s.epochs[e].state /\ epoch.worker = s.epochs[e].worker
      /\ epoch.target = s.epochs[e].target /\ epoch.supply = s.epochs[e].supply
      /\ epoch.reason = s.epochs[e].reason /\ epoch.late = s.epochs[e].late
  BY <1>1 DEF Epochs
<1>3. t.epochs = [s.epochs EXCEPT ![e] = epoch]
  BY <1>1 DEF Sessions
<1>4. t \in Sessions
  BY <1>1, <1>2, <1>3 DEF Sessions
<1>5. /\ t.active = s.active /\ t.created = s.created /\ t.replacement = s.replacement
      /\ t.candidate = s.candidate
      /\ t.revision = s.revision /\ t.acknowledged = s.acknowledged
  BY <1>1 DEF Sessions
<1> HIDE DEF t, epoch
<1>6. \A f \in Ids :
        /\ t.epochs[f].state = s.epochs[f].state /\ t.epochs[f].worker = s.epochs[f].worker
        /\ t.epochs[f].target = s.epochs[f].target /\ t.epochs[f].supply = s.epochs[f].supply
        /\ t.epochs[f].reason = s.epochs[f].reason
  BY <1>1, <1>2, <1>3
<1>7. Consistent(t)
  BY <1>1, <1>5, <1>6 DEF Good, Consistent, Present, ReplacementEpoch
<1>9. \A f \in Ids : Drained(s, f) => Drained(t, f)
  BY <1>5, <1>6 DEF Drained
<1>8. Tidy(t) /\ Readable(t)
  <2>1. \A f \in Ids : t.epochs[f].late = s.epochs[f].late
    BY <1>1, <1>2, <1>3
  <2>2. \A f \in Ids : t.epochs[f].late => Drained(t, f) /\ f < t.active
    BY <1>5, <1>9, <2>1 DEF Good, Tidy
  <2>3. /\ \A f \in Present(s) : f <= s.created
        /\ \A f \in Ids \ {s.active} :
             s.epochs[f].state \in {"absent", "draining"} => s.epochs[f].worker = "none"
        /\ \A f \in Ids : Drained(s, f) => s.epochs[f].target > 0
        /\ ~FullMode => \A f \in Ids : s.epochs[f].target <= s.revision
        /\ Readable(s)
    BY DEF Good, Tidy
  <2>4. /\ \A f \in Present(t) : f <= t.created
        /\ \A f \in Ids \ {t.active} :
             t.epochs[f].state \in {"absent", "draining"} => t.epochs[f].worker = "none"
        /\ \A f \in Ids : Drained(t, f) => t.epochs[f].target > 0
        /\ ~FullMode => \A f \in Ids : t.epochs[f].target <= t.revision
        /\ Readable(t)
    BY <1>1, <1>5, <1>6, <2>3 DEF Readable, Present, Drained, ActiveEpoch
  <2> QED
    BY <2>2, <2>4 DEF Tidy
<1> QED
  BY <1>4, <1>5, <1>7, <1>8, <1>9 DEF Good, t

LEMMA SeeksAdvance ==
    ASSUME Good(session)
    PROVE  /\ \A supply \in {"some", "runway", "full"} :
                SeekInRange(supply) => Advances(session', session)
           /\ SeekOutOfRange => Advances(session', session)
<1> USE EpochConstants, EpochTypes
<1> DEFINE kept == IF session.replacement = NoEpoch THEN session
                   ELSE Discard(session, session.replacement)
           forgiven == [session EXCEPT !.error = "none"]
<1>1. session \in Sessions /\ session.active \in Ids
  BY FieldTypes DEF Good
<1>2. Holds(kept, session)
  <2>1. session.replacement # NoEpoch =>
          /\ session.replacement \in Ids /\ session.replacement # session.active
          /\ session.replacement > session.active
          /\ session.epochs[session.replacement].state # "draining"
    BY <1>1, FieldTypes DEF Good, Consistent, Ids, ReplacementEpoch
  <2> QED
    BY <2>1, HoldsItself, DiscardHolds
<1>3. ASSUME NEW supply \in {"some", "runway", "full"}, SeekInRange(supply)
      PROVE  Advances(session', session)
  <2> DEFINE t == [kept EXCEPT !.error = "none", !.epochs[session.active].supply = supply]
             epoch == [kept.epochs[session.active] EXCEPT !.supply = supply]
  <2>1. session' = Refresh(t)
    BY <1>3 DEF SeekInRange
  <2> HIDE DEF kept
  <2>2. /\ kept \in Sessions /\ Good(kept) /\ kept.active = session.active
        /\ kept.epochs \in [Ids -> Epochs] /\ kept.epochs[session.active] \in Epochs
    BY <1>1, <1>2, FieldTypes DEF Holds, Prepares, Good
  <2>3. Carried(epoch, kept.epochs[session.active])
    BY <2>2 DEF Carried, Epochs, Supplies
  <2>4. t.epochs = [kept.epochs EXCEPT ![session.active] = epoch]
    BY <2>2 DEF Sessions
  <2>5. t \in Sessions
    BY <1>1, <2>2, <2>3, <2>4 DEF Sessions, Errors, Carried
  <2>6. /\ t.active = kept.active /\ t.created = kept.created
        /\ t.replacement = kept.replacement /\ t.candidate = kept.candidate
        /\ t.revision = kept.revision /\ t.acknowledged = kept.acknowledged
    BY <2>2 DEF Sessions
  <2> HIDE DEF t, epoch
  <2>7. Prepares(t, kept)
    BY <1>1, <2>2, <2>3, <2>4, <2>5, <2>6, EpochChanges
  <2>8. Prepares(t, session)
    BY <1>2, <2>7, PreparesTransitive DEF Holds
  <2> QED
    BY <2>1, <2>8, RefreshAdvances
<1>4. ASSUME SeekOutOfRange PROVE Advances(session', session)
  <2> DEFINE t == CreateReplacement(forgiven, "seek")
  <2>1. session' = Refresh(t)
    BY <1>4 DEF SeekOutOfRange
  <2>2. Holds(forgiven, session)
    <3>1. forgiven \in Sessions
      BY <1>1 DEF Sessions, Errors
    <3> QED
      BY <1>1, <3>1, BystandersHold DEF Sessions
  <2> HIDE DEF forgiven
  <2>3. Holds(t, forgiven)
    BY <2>2, CreateReplacementHolds DEF Holds, Prepares, Reasons
  <2> HIDE DEF t
  <2>4. Prepares(t, session)
    BY <2>2, <2>3, HoldsTransitive DEF Holds
  <2> QED
    BY <2>1, <2>4, RefreshAdvances
<1> QED
  BY <1>3, <1>4

LEMMA PrepareCandidateHolds ==
    ASSUME NEW s, Good(s), NEW stream \in Streams
    PROVE  Holds(PrepareCandidate(s, stream), s)
<1> USE EpochConstants, EpochTypes
<1> DEFINE created == CreateReplacement(s, "audio")
           id == created.replacement
           epoch == [created.epochs[id] EXCEPT !.audio = stream]
           refused == [created EXCEPT !.selected = s.audio, !.switch = "failed"]
           prepared == [created EXCEPT !.epochs[id].audio = stream,
                                       !.selected = stream,
                                       !.switch = "candidate_preparing",
                                       !.candidate = id,
                                       !.expired = FALSE]
<1>1. /\ Holds(created, s)
      /\ id # NoEpoch => ReplacementEpoch(created).reason = "audio"
  BY CreateReplacementHolds DEF Reasons
<1>2. s.audio \in Streams \cup {NoStream}
  BY DEF Good, Sessions
<1> HIDE DEF created
<1>3. /\ created \in Sessions /\ Good(created)
      /\ created.epochs \in [Ids -> Epochs]
      /\ created.replacement \in Ids \cup {NoEpoch}
  BY <1>1, FieldTypes DEF Holds, Prepares, Good
<1>4. Holds(refused, created)
  <2>1. refused \in Sessions
    BY <1>2, <1>3 DEF Sessions, Switches
  <2> QED
    BY <1>3, <2>1, BystandersHold DEF Sessions
<1>5. ASSUME id # NoEpoch PROVE Holds(prepared, created)
  <2>1. id \in Ids /\ id # created.active /\ created.epochs[id] \in Epochs
    BY <1>3, <1>5, FieldTypes DEF Good, Consistent, Ids
  <2>2. Alike(epoch, created.epochs[id])
    BY <2>1 DEF Alike, Carried, Retired, Epochs
  <2>3. prepared.epochs = [created.epochs EXCEPT ![id] = epoch]
    BY <1>3 DEF Sessions
  <2>4. prepared \in Sessions
    BY <1>3, <2>1, <2>2, <2>3 DEF Sessions, Switches, Alike, Carried
  <2>5. /\ prepared.active = created.active /\ prepared.created = created.created
        /\ prepared.replacement = created.replacement /\ prepared.candidate = id
        /\ prepared.revision = created.revision
        /\ prepared.acknowledged = created.acknowledged
    BY <1>3 DEF Sessions
  <2> HIDE DEF prepared, epoch
  <2> QED
    BY <1>1, <1>3, <1>5, <2>1, <2>2, <2>3, <2>4, <2>5, EpochChanges
<1>6. Holds(refused, s) /\ (id # NoEpoch => Holds(prepared, s))
  <2> HIDE DEF refused, prepared
  <2> QED
    BY <1>1, <1>4, <1>5, HoldsTransitive
<1> QED
  BY <1>6 DEF PrepareCandidate, created

LEMMA AudioHandlersAdvance ==
    ASSUME Good(session)
    PROVE  /\ \A stream \in Streams, trusted \in BOOLEAN :
                SelectAudio(stream, trusted) => Advances(session', session)
           /\ CommitAudio => Advances(session', session)
           /\ CancelAudio => Advances(session', session)
<1> USE EpochConstants, EpochTypes
<1>1. session \in Sessions
  BY DEF Good
<1>2. ASSUME NEW stream \in Streams, NEW trusted \in BOOLEAN, SelectAudio(stream, trusted)
      PROVE  Advances(session', session)
  <2> DEFINE same == [session EXCEPT !.selected = stream, !.switch = "active"]
             t == IF SwitchInProgress(session) THEN session
                  ELSE IF ~trusted THEN FailSwitch(session)
                  ELSE IF session.audio = stream THEN same
                  ELSE PrepareCandidate(session, stream)
  <2>1. Holds(same, session)
    <3>1. same \in Sessions
      BY <1>1 DEF Sessions, Switches
    <3> QED
      BY <1>1, <3>1, BystandersHold DEF Sessions
  <2>2. Holds(FailSwitch(session), session)
    BY FailuresHold DEF Errors
  <2>3. Holds(PrepareCandidate(session, stream), session)
    BY PrepareCandidateHolds
  <2> HIDE DEF same
  <2>4. Holds(t, session)
    BY <2>1, <2>2, <2>3, HoldsItself
  <2>5. session' = Refresh(t)
    BY <1>2 DEF SelectAudio, same
  <2> HIDE DEF t
  <2> QED
    BY <2>4, <2>5, RefreshAdvances DEF Holds
<1>3. ASSUME CommitAudio PROVE Advances(session', session)
  <2> DEFINE fresh == Refresh(session)
             cleaned == CleanupDraining(session)
             waiting == [fresh EXCEPT !.switch = "candidate_preparing"]
  <2>1. Follows(fresh, cleaned) /\ Good(cleaned)
    BY RefreshFollows, CleanupDrainingTidies
  <2>2. session' = IF Candidate(fresh) = NoEpoch \/ fresh.switch # "candidate_ready" THEN fresh
                   ELSE IF RunwaySatisfied(ReplacementEpoch(fresh))
                   THEN PromoteReplacement(fresh) ELSE waiting
    BY <1>3 DEF CommitAudio
  <2> HIDE DEF fresh, cleaned
  <2>3. fresh \in Sessions /\ Good(fresh)
    BY <2>1 DEF Follows, Good
  <2>4. Follows(waiting, fresh)
    <3>1. waiting \in Sessions
      BY <2>3 DEF Sessions, Switches
    <3>2. Holds(waiting, fresh)
      BY <2>3, <3>1, BystandersHold DEF Sessions
    <3> HIDE DEF waiting
    <3> QED
      BY <2>3, <3>2, HoldsFollows
  <2>5. Candidate(fresh) # NoEpoch => fresh.replacement # NoEpoch
    BY DEF Candidate
  <2>6. Candidate(fresh) # NoEpoch /\ RunwaySatisfied(ReplacementEpoch(fresh)) =>
          Follows(PromoteReplacement(fresh), fresh)
    BY <2>3, <2>5, PromoteReplacementFollows
  <2> HIDE DEF waiting
  <2>7. Follows(session', cleaned)
    BY <2>1, <2>2, <2>4, <2>6, FollowsTransitive
  <2>8. Prepares(session, session)
    BY HoldsItself DEF Holds
  <2> QED
    BY <2>7, <2>8, HandlersAdvance DEF cleaned
<1>4. ASSUME CancelAudio PROVE Advances(session', session)
  <2> DEFINE t == CancelCandidate(session, "active")
  <2>1. Holds(t, session)
    BY CancelCandidateHolds DEF Switches
  <2>2. session' = Refresh(t)
    BY <1>4 DEF CancelAudio
  <2> HIDE DEF t
  <2> QED
    BY <2>1, <2>2, RefreshAdvances DEF Holds
<1> QED
  BY <1>2, <1>3, <1>4

LEMMA ReportsAndRequestsAdvance ==
    ASSUME Good(session)
    PROVE  /\ \A reported \in 0..(session.revision + 1) :
                ReportRevision(reported) => Advances(session', session)
           /\ \A e \in Ids : RequestMedia(e) => Advances(session', session)
<1> USE EpochConstants, EpochTypes
<1>1. /\ session \in Sessions
      /\ session.revision \in Nat /\ session.acknowledged \in Nat
      /\ session.acknowledged <= session.revision
  BY FieldTypes DEF Good, Consistent
<1>2. ASSUME NEW reported \in 0..(session.revision + 1), ReportRevision(reported)
      PROVE  Advances(session', session)
  <2> DEFINE acknowledged == Smaller(session.revision, Larger(session.acknowledged, reported))
             t == [session EXCEPT !.acknowledged = acknowledged]
  <2>1. /\ acknowledged \in Nat
        /\ acknowledged >= session.acknowledged
        /\ acknowledged <= session.revision
    BY <1>1 DEF Smaller, Larger
  <2>2. session' = Refresh(t)
    BY <1>2 DEF ReportRevision
  <2> HIDE DEF acknowledged
  <2>3. t \in Sessions
    BY <1>1, <2>1 DEF Sessions
  <2>4. /\ t.epochs = session.epochs /\ t.active = session.active
        /\ t.created = session.created /\ t.replacement = session.replacement
        /\ t.candidate = session.candidate /\ t.revision = session.revision
        /\ t.acknowledged = acknowledged
    BY <1>1 DEF Sessions
  <2> HIDE DEF t
  <2>5. \A e \in Ids : EpochKept(t, session, e)
    BY <1>1, <2>4, EpochOperators, FieldTypes DEF EpochKept, Alike
  <2>6. Prepares(t, session)
    BY <2>1, <2>3, <2>4, <2>5, KeepsPrepares DEF Keeps, NamesKept, RevisionsKept
  <2> QED
    BY <2>2, <2>6, RefreshAdvances
<1>3. ASSUME NEW e \in Ids, RequestMedia(e) PROVE Advances(session', session)
  <2> DEFINE cleaned == CleanupDraining(session)
             t == [cleaned EXCEPT !.epochs[e].age = "fresh"]
  <2>1. session' \in {cleaned, t}
    BY <1>3 DEF RequestMedia
  <2>2. /\ Good(cleaned)
        /\ cleaned.active = session.active /\ cleaned.revision = session.revision
        /\ cleaned.acknowledged = session.acknowledged
        /\ \A f \in Ids : Drained(session, f) => Drained(cleaned, f) \/ DrainExpired(session, f)
    BY CleanupDrainingTidies
  <2> HIDE DEF cleaned
  <2>3. /\ Good(t)
        /\ t.active = cleaned.active /\ t.revision = cleaned.revision
        /\ t.acknowledged = cleaned.acknowledged
        /\ \A f \in Ids : Drained(cleaned, f) => Drained(t, f)
    BY <2>2, AgesAreFree DEF Ages
  <2> HIDE DEF t
  <2>4. /\ Good(session')
        /\ session'.active = session.active /\ session'.revision = session.revision
        /\ session'.acknowledged = session.acknowledged
        /\ \A f \in Ids : Drained(session, f) => Drained(session', f) \/ DrainExpired(session, f)
    BY <2>1, <2>2, <2>3
  <2>5. Grows(session', session)
    BY <1>1, <2>4, GrowsItself DEF Good
  <2> QED
    BY <2>4, <2>5 DEF Advances, DrainExpired
<1> QED
  BY <1>2, <1>3

\* Dispatch and the worker's progress, in the epoch e
LEMMA WorkersAdvance ==
    ASSUME Good(session), NEW e \in Ids
    PROVE  /\ WorkerStep(e) => Advances(session', session)
           /\ \A error \in {"retryable", "fatal"} :
                WorkerFails(e, error) => Advances(session', session)
<1> DEFINE epoch == session.epochs[e]
<1>1. epoch \in Epochs
  BY DEF Good, Sessions
<1>2. ASSUME NEW next, Alike(next, epoch)
      PROVE  /\ Advances([session EXCEPT !.epochs[e] = next], session)
             /\ Advances(Refresh([session EXCEPT !.epochs[e] = next]), session)
  <2> DEFINE t == [session EXCEPT !.epochs[e] = next]
  <2>1. Prepares(t, session)
    BY <1>2, UpdateEpochPrepares
  <2> HIDE DEF t
  <2>2. Advances(t, session) /\ Advances(Refresh(t), session)
    BY <2>1, PreparationsAdvance, RefreshAdvances
  <2> QED
    BY <2>2 DEF t
<1>3. \A supply \in Supplies \ {"none"} : Alike([epoch EXCEPT !.supply = supply], epoch)
  BY <1>1 DEF Alike, Carried, Retired, Epochs, Supplies
<1>4. ASSUME epoch.worker # "none"
      PROVE  /\ Alike([epoch EXCEPT !.worker = "dispatched"], epoch)
             /\ Alike([epoch EXCEPT !.worker = "running",
                             !.state = IF epoch.state = "starting" THEN "warming"
                                                                   ELSE epoch.state], epoch)
             /\ Alike([epoch EXCEPT !.worker = "completed", !.supply = "full",
                                    !.error = "none"], epoch)
             /\ \A error \in {"retryable", "fatal"} :
                  Alike([epoch EXCEPT !.worker = "failed", !.state = "failed",
                                      !.error = error], epoch)
  <2> USE <1>1, <1>4 DEF Alike, Carried, Retired, Epochs, EpochStates
  <2>1. Alike([epoch EXCEPT !.worker = "dispatched"], epoch)
    BY DEF Workers
  <2>2. Alike([epoch EXCEPT !.worker = "running",
                            !.state = IF epoch.state = "starting" THEN "warming"
                                                                  ELSE epoch.state], epoch)
    <3>1. CASE epoch.state = "starting"
      BY <3>1 DEF Workers
    <3>2. CASE epoch.state # "starting"
      BY <3>2 DEF Workers
    <3> QED
      BY <3>1, <3>2
  <2>3. Alike([epoch EXCEPT !.worker = "completed", !.supply = "full",
                            !.error = "none"], epoch)
    BY DEF Workers, Supplies, Errors
  <2>4. \A error \in {"retryable", "fatal"} :
          Alike([epoch EXCEPT !.worker = "failed", !.state = "failed",
                              !.error = error], epoch)
    BY DEF Workers, Errors
  <2> QED
    BY <2>1, <2>2, <2>3, <2>4
<1>5. CASE Dispatch(e)
  BY <1>2, <1>4, <1>5 DEF Dispatch
<1>6. CASE Spawn(e)
  BY <1>2, <1>4, <1>6 DEF Spawn
<1>7. ASSUME NEW supply \in Supplies, Publish(e, supply) PROVE Advances(session', session)
  BY <1>2, <1>3, <1>7 DEF Publish
<1>8. CASE WorkerCompletes(e)
  BY <1>2, <1>4, <1>8 DEF WorkerCompletes
<1>9. ASSUME NEW error \in {"retryable", "fatal"}, WorkerFails(e, error)
      PROVE  Advances(session', session)
  BY <1>2, <1>4, <1>9 DEF WorkerFails
<1> QED
  BY <1>5, <1>6, <1>7, <1>8, <1>9 DEF WorkerStep

\* The late thread's failure ends a drain, and the refresh after it no other.
LEMMA LateSpawnAdvances ==
    ASSUME Good(session), NEW e \in Ids, LateSpawnFails(e) \/ LateSpawnEnds(e)
    PROVE  Advances(session', session)
<1> USE EpochConstants, EpochTypes
<1> DEFINE s == session
           failed == [s.epochs[e] EXCEPT !.state = "failed", !.error = "retryable",
                                         !.late = FALSE]
           r == [s EXCEPT !.epochs[e].state = "failed", !.epochs[e].error = "retryable",
                          !.epochs[e].late = FALSE]
           t == Refresh(r)
<1>1. /\ s \in Sessions /\ s.active \in Ids /\ s.active \in Int
      /\ s.epochs \in [Ids -> Epochs] /\ s.epochs[e] \in Epochs
      /\ s.replacement \in Ids \cup {NoEpoch} /\ s.candidate \in Ids \cup {NoEpoch}
      /\ s.revision \in Nat /\ s.acknowledged \in Nat
  BY FieldTypes DEF Good
<1>2. /\ s.epochs[e].late
      /\ Drained(s, e) /\ e # s.active /\ e < s.active
      /\ s.epochs[e].state = "draining" /\ s.epochs[e].worker = "none"
  BY DEF LateSpawnFails, LateSpawnEnds, Good, Tidy, Drained
<1>3. e # s.replacement /\ (s.replacement # NoEpoch => s.replacement # e)
  BY <1>1, <1>2 DEF Good, Consistent, Drained, ReplacementEpoch, Ids
<1>4. CASE LateSpawnEnds(e)
  <2>1. Alike([s.epochs[e] EXCEPT !.late = FALSE], s.epochs[e])
    BY <1>1, <1>2 DEF Alike, Carried, Retired, Epochs
  <2>2. Prepares(session', session)
    BY <1>4, <2>1, UpdateEpochPrepares DEF LateSpawnEnds
  <2> QED
    BY <2>2, PreparationsAdvance
<1>5. CASE LateSpawnFails(e)
  <2>1. /\ failed \in Epochs
        /\ failed.state = "failed" /\ failed.worker = "none" /\ failed.late = FALSE
        /\ failed.target = s.epochs[e].target
    BY <1>1, <1>2 DEF Epochs, EpochStates, Errors
  <2>2. r.epochs = [s.epochs EXCEPT ![e] = failed]
    BY <1>1 DEF Sessions
  <2>3. /\ r.active = s.active /\ r.created = s.created /\ r.replacement = s.replacement
        /\ r.candidate = s.candidate
        /\ r.revision = s.revision /\ r.acknowledged = s.acknowledged
    BY <1>1 DEF Sessions
  <2>4. r \in Sessions
    <3>1. r = [s EXCEPT !.epochs = [s.epochs EXCEPT ![e] = failed]]
      BY <1>1 DEF Sessions
    <3> HIDE DEF r, failed
    <3> QED
      BY <1>1, <2>1, <3>1 DEF Sessions
  <2> HIDE DEF r, failed
  <2>5. /\ r.epochs[e] = failed
        /\ \A f \in Ids \ {e} : r.epochs[f] = s.epochs[f]
    BY <1>1, <2>2
  <2>6. Consistent(r)
    <3>1. s.candidate # e
      BY <1>1, <1>2, <1>3 DEF Good, Consistent, Ids
    <3>2. \A f \in Ids \ {e} :
            /\ r.epochs[f] = s.epochs[f]
            /\ f \in Present(s) => f \in Present(r)
      BY <2>5 DEF Present
    <3>3. /\ r.active \in Present(r)
          /\ r.active <= r.created
          /\ r.acknowledged <= r.revision
      BY <1>1, <1>2, <2>3, <3>2 DEF Good, Consistent
    <3>4. r.replacement # NoEpoch =>
            /\ r.replacement \in Present(r)
            /\ r.replacement > r.active
            /\ r.replacement <= r.created
            /\ ReplacementEpoch(r).state # "draining"
      BY <1>1, <1>3, <2>3, <3>2 DEF Good, Consistent, ReplacementEpoch
    <3>5. r.candidate # NoEpoch =>
            /\ r.candidate # r.active
            /\ r.candidate <= r.created
            /\ r.candidate = r.replacement => ReplacementEpoch(r).reason = "audio"
            /\ r.candidate = r.replacement \/ r.epochs[r.candidate].state = "absent"
      BY <1>1, <1>3, <2>3, <3>1, <3>2 DEF Good, Consistent, ReplacementEpoch
    <3> QED
      BY <3>3, <3>4, <3>5 DEF Consistent
  <2>7. Tidy(r)
    <3>1. \A f \in Present(r) : f <= r.created
      BY <1>2, <2>3, <2>5 DEF Good, Tidy, Present
    <3>2. \A f \in Ids \ {r.active} :
            r.epochs[f].state \in {"absent", "draining"} => r.epochs[f].worker = "none"
      BY <2>1, <2>3, <2>5 DEF Good, Tidy
    <3>3. \A f \in Ids : Drained(r, f) => r.epochs[f].target > 0
      BY <2>1, <2>3, <2>5 DEF Good, Tidy, Drained
    <3>4. ~FullMode => \A f \in Ids : r.epochs[f].target <= r.revision
      BY <2>1, <2>3, <2>5 DEF Good, Tidy
    <3>5. \A f \in Ids : r.epochs[f].late => Drained(r, f) /\ f < r.active
      BY <2>1, <2>3, <2>5 DEF Good, Tidy, Drained
    <3> QED
      BY <3>1, <3>2, <3>3, <3>4, <3>5 DEF Tidy
  <2>8. Good(r)
    BY <1>1, <1>2, <2>3, <2>4, <2>5, <2>6, <2>7 DEF Good, Readable, ActiveEpoch
  <2>9. Advances(t, r)
    BY <2>8, HoldsItself, RefreshAdvances DEF Holds
  <2>10. t.epochs[e].state = "failed"
    <3>1. Ended(r, e)
      BY <1>2, <2>1, <2>3, <2>5 DEF Ended
    <3>2. Ended(CleanupDraining(r), e)
      BY <2>8, <3>1, CleanupDrainingTidies
    <3> QED
      BY <2>8, <3>2, RefreshFollows DEF Follows, Stays, Ended
  <2> HIDE DEF t
  <2>11. \A f \in Ids : Drained(s, f) =>
            \/ Drained(t, f)
            \/ s.epochs[f].age = "old"
            \/ s.epochs[f].age = "idle" /\ t.acknowledged >= s.epochs[f].target
            \/ s.epochs[f].late /\ t.epochs[f].state = "failed"
    <3> SUFFICES ASSUME NEW f \in Ids, Drained(s, f), f # e
                 PROVE  \/ Drained(t, f)
                        \/ s.epochs[f].age = "old"
                        \/ s.epochs[f].age = "idle" /\ t.acknowledged >= s.epochs[f].target
                        \/ s.epochs[f].late /\ t.epochs[f].state = "failed"
      BY <1>2, <2>10
    <3>1. r.epochs[f] = s.epochs[f] /\ Drained(r, f)
      BY <2>3, <2>5 DEF Drained
    <3> QED
      BY <2>9, <3>1 DEF Advances
  <2>12. Advances(t, s)
    BY <2>3, <2>9, <2>11 DEF Advances, Grows, HandInHand, Promotes
  <2> QED
    BY <1>5, <2>12 DEF LateSpawnFails, t, r
<1> QED
  BY <1>4, <1>5

LEMMA TimeAdvances ==
    ASSUME Good(session), Time
    PROVE  Advances(session', session)
<1> USE EpochConstants, EpochTypes
<1>1. session \in Sessions /\ \A f \in Ids : session.epochs[f] \in Epochs
  BY FieldTypes DEF Good
<1>2. ASSUME NEW e \in Ids, NEW supply \in Supplies, SupplyDrops(e, supply)
      PROVE  Advances(session', session)
  <2>1. Alike([session.epochs[e] EXCEPT !.supply = supply], session.epochs[e])
    BY <1>1, <1>2 DEF SupplyDrops, Alike, Carried, Retired, Epochs
  <2>2. Prepares(session', session)
    BY <1>2, <2>1, UpdateEpochPrepares DEF SupplyDrops
  <2> QED
    BY <2>2, PreparationsAdvance
<1>3. ASSUME NEW e \in Ids, NEW age \in Ages, DrainAges(e, age)
      PROVE  Advances(session', session)
  <2>1. session' = [session EXCEPT !.epochs[e].age = age]
    BY <1>3 DEF DrainAges
  <2>2. /\ Good(session')
        /\ session'.active = session.active /\ session'.revision = session.revision
        /\ session'.acknowledged = session.acknowledged
        /\ \A f \in Ids : Drained(session, f) => Drained(session', f)
    BY <2>1, AgesAreFree
  <2>3. session'.acknowledged >= session.acknowledged
    BY <1>1, <2>2, FieldTypes
  <2>4. Grows(session', session)
    BY <1>1, <2>2, <2>3, GrowsItself DEF Good
  <2> QED
    BY <2>2, <2>4 DEF Advances
<1>4. CASE BackoffElapses
  <2>1. session' \in Sessions
    BY <1>1, <1>4 DEF BackoffElapses, Sessions
  <2>2. Holds(session', session)
    BY <1>1, <1>4, <2>1, BystandersHold DEF BackoffElapses, Sessions
  <2> QED
    BY <2>2, PreparationsAdvance DEF Holds
<1>5. CASE CandidateExpires
  <2>1. session' \in Sessions
    BY <1>1, <1>5 DEF CandidateExpires, Sessions
  <2>2. Holds(session', session)
    BY <1>1, <1>5, <2>1, BystandersHold DEF CandidateExpires, Sessions
  <2> QED
    BY <2>2, PreparationsAdvance DEF Holds
<1> QED
  BY <1>2, <1>3, <1>4, <1>5 DEF Time

LEMMA InitIsGood == Init => Good(session)
<1> USE EpochConstants, EpochTypes
<1> SUFFICES ASSUME NEW stream \in Requested,
                    session = Refresh(
            [epochs |-> [e \in Ids |-> IF e = 0 THEN NewEpoch("initial", stream)
                                                ELSE Absent],
             active |-> 0, replacement |-> NoEpoch, created |-> 0,
             revision |-> 0, acknowledged |-> 0, backoff |-> FALSE,
             status |-> "starting", error |-> "none", selected |-> stream,
             audio |-> stream, switch |-> "active", candidate |-> NoEpoch,
             expired |-> FALSE])
             PROVE  Good(session)
  BY DEF Init
<1> DEFINE epochs == [e \in Ids |-> IF e = 0 THEN NewEpoch("initial", stream) ELSE Absent]
           s == [epochs |-> epochs,
                 active |-> 0, replacement |-> NoEpoch, created |-> 0,
                 revision |-> 0, acknowledged |-> 0, backoff |-> FALSE,
                 status |-> "starting", error |-> "none", selected |-> stream,
                 audio |-> stream, switch |-> "active", candidate |-> NoEpoch,
                 expired |-> FALSE]
<1>1. stream \in Streams \cup {NoStream}
  OBVIOUS
<1>2. /\ NewEpoch("initial", stream) \in Epochs
      /\ NewEpoch("initial", stream).state = "starting"
      /\ NewEpoch("initial", stream).target = 0
      /\ NewEpoch("initial", stream).late = FALSE
  BY <1>1 DEF Reasons, NewEpoch
<1>3. /\ epochs \in [Ids -> Epochs]
      /\ epochs[0].state = "starting" /\ epochs[0].target = 0 /\ epochs[0].late = FALSE
      /\ \A e \in Ids \ {0} : epochs[e] = Absent
  BY <1>2
<1> HIDE DEF epochs
<1>4. s \in Sessions
  BY <1>1, <1>3 DEF Sessions, Statuses, Errors, Switches
<1>5. Consistent(s)
  BY <1>3 DEF Consistent, Present
<1>6. Tidy(s) /\ Readable(s)
  <2>1. \A e \in Ids : s.epochs[e].late = FALSE
    BY <1>3, AbsentIsNotLate
  <2> QED
    BY <1>3, <2>1 DEF Tidy, Readable, Present, Drained
<1>7. Good(s)
  BY <1>4, <1>5, <1>6 DEF Good
<1>8. session = Refresh(s)
  BY DEF epochs
<1> HIDE DEF s
<1> QED
  BY <1>7, <1>8, RefreshFollows DEF Follows

LEMMA StepsAdvance ==
    ASSUME Good(session), [Next]_vars
    PROVE  Advances(session', session)
<1> USE EpochConstants, EpochTypes
<1>1. Prepares(session, session) /\ Advances(session, session)
  BY HoldsItself, PreparationsAdvance DEF Holds
<1>2. CASE Poll
  BY <1>1, <1>2, RefreshAdvances DEF Poll
<1>3. CASE Client
  <2>1. Present(session) \subseteq Ids
    BY DEF Present
  <2> QED
    BY <1>3, <2>1, ReportsAndRequestsAdvance, SeeksAdvance, AudioHandlersAdvance DEF Client
<1>4. CASE \E e \in Ids : WorkerStep(e)
  BY <1>4, WorkersAdvance
<1>5. CASE \E e \in Ids, error \in {"retryable", "fatal"} : WorkerFails(e, error)
  BY <1>5, WorkersAdvance
<1>6. CASE Time
  BY <1>6, TimeAdvances
<1>7. CASE UNCHANGED vars
  BY <1>1, <1>7 DEF vars
<1>8. CASE \E e \in Ids : LateSpawnFails(e) \/ LateSpawnEnds(e)
  BY <1>8, LateSpawnAdvances
<1> QED
  BY <1>2, <1>3, <1>4, <1>5, <1>6, <1>7, <1>8 DEF Next

-----------------------------------------------------------------------------
(* The theorems *)

\* The inductive invariant behind the theorems below: every handler ends in a
\* session whose names are consistent (the handlers of MobilePlaybackManager).
THEOREM AlwaysGood == Spec => []Good(session)
<1>1. Init => Good(session)
  BY InitIsGood
<1>2. Good(session) /\ [Next]_vars => Good(session)'
  BY StepsAdvance DEF Advances
<1> QED
  BY <1>1, <1>2, PTL DEF Spec

\* The session record keeps its type through every handler and refresh, and the
\* bound on failures is respected (MobilePlaybackSession, PlaybackEpoch).
THEOREM Typing == Spec => []TypeOK
<1> USE EpochConstants
<1>1. Init => trouble \in 0..MaxTrouble
  BY DEF Init
<1>2. trouble \in 0..MaxTrouble /\ [Next]_vars => (trouble \in 0..MaxTrouble)'
  <2> SUFFICES ASSUME trouble \in 0..MaxTrouble, [Next]_vars
               PROVE  trouble' \in 0..MaxTrouble
    OBVIOUS
  <2>1. trouble' = trouble \/ Trouble
    BY DEF Next, vars, Poll, Client, ReportRevision, SeekInRange, SeekOutOfRange, SelectAudio,
           CommitAudio, CancelAudio, RequestMedia, WorkerStep, Dispatch, Spawn, Publish,
           WorkerCompletes, WorkerFails, LateSpawnFails, LateSpawnEnds, Time, SupplyDrops, DrainAges, BackoffElapses,
           CandidateExpires
  <2> QED
    BY <2>1 DEF Trouble
<1>3. Good(session) /\ trouble \in 0..MaxTrouble => TypeOK
  BY DEF Good, TypeOK
<1> QED
  BY <1>1, <1>2, <1>3, AlwaysGood, PTL DEF Spec

\* The epochs that active_epoch_id and replacement_epoch_id name exist, and the
\* replacement is younger and not draining, whatever fails, is sought or switched
\* (_refresh_route2_session_authority_locked).
THEOREM AuthorityIsConsistent == Spec => []AuthorityConsistent
<1>1. Good(session) => AuthorityConsistent
  BY DEF Good, Consistent, AuthorityConsistent
<1> QED
  BY <1>1, AlwaysGood, PTL

\* Whoever was told to attach finds media in the active epoch: revisions are
\* issued and epochs promoted only with runway, and what was published stays
\* (_issue_route2_attach_revision_locked, _promote_route2_replacement_epoch_locked).
THEOREM AttachedMediaIsAlwaysReadable == Spec => []AttachedMediaIsReadable
<1>1. Good(session) => AttachedMediaIsReadable
  BY DEF Good, Readable, AttachedMediaIsReadable
<1> QED
  BY <1>1, AlwaysGood, PTL

\* In lite mode every promoted-out epoch waits for a revision that was issued,
\* so that an acknowledgement can end its drain. In full mode the gate may have
\* refused the revision (_issue_route2_attach_revision_locked), and it does not.
THEOREM DrainsCanBeAcknowledged ==
    ASSUME ~FullMode
    PROVE  Spec => []DrainCanBeAcknowledged
<1>1. Good(session) => DrainCanBeAcknowledged
  BY FieldTypes DEF Good, Tidy, Drained, DrainCanBeAcknowledged, Present
<1> QED
  BY <1>1, AlwaysGood, PTL

\* The active epoch changes only to a younger one that has its runway, and its
\* predecessor drains: neither recovery nor commit nor seek goes back
\* (_promote_route2_replacement_epoch_locked).
THEOREM PromotionsAreOneWay == Spec => PromotionIsOneWay
<1>1. Good(session) /\ [Next]_vars =>
        [session'.active # session.active =>
            /\ session'.active > session.active
            /\ RunwaySatisfied(ActiveEpoch(session'))
            /\ session'.epochs[session.active].state = "draining"]_vars
  <2> SUFFICES ASSUME Good(session), [Next]_vars, session'.active # session.active
               PROVE  /\ session'.active > session.active
                      /\ RunwaySatisfied(ActiveEpoch(session'))
                      /\ session'.epochs[session.active].state = "draining"
    OBVIOUS
  <2>1. /\ session'.active >= session.active
        /\ Promotes(session', session)
        /\ session' \in Sessions /\ session \in Sessions
    BY StepsAdvance DEF Advances, Grows, Good
  <2>2. session'.active \in Int /\ session.active \in Int
    BY <2>1, FieldTypes
  <2> QED
    BY <2>1, <2>2 DEF Promotes, Drained
<1> QED
  BY <1>1, AlwaysGood, PTL DEF Spec, PromotionIsOneWay

\* A promoted-out epoch goes on draining until its drain is over: after the
\* maximal drain time, or when the client left it alone for the grace and has
\* acknowledged its target (_route2_draining_epoch_expired_locked); no discard,
\* cancelled switch or new replacement takes it. Only its own thread can, if it
\* was late and could not start ffmpeg (_run_route2_epoch_worker).
THEOREM DrainedMediaStaysReadable == Spec => DrainedMediaStays
<1>1. Good(session) /\ [Next]_vars =>
        [\A e \in Present(session) \ {session.active} :
            LET old == session.epochs[e]
                new == session'.epochs[e]
            IN  old.state = "draining" /\ new.state # "draining" =>
                    \/ old.age = "old"
                    \/ old.age = "idle" /\ session'.acknowledged >= old.target
                    \/ old.late /\ new.state = "failed"]_vars
  <2> SUFFICES ASSUME Good(session), [Next]_vars,
                      NEW e \in Present(session) \ {session.active},
                      session.epochs[e].state = "draining",
                      session'.epochs[e].state # "draining"
               PROVE  \/ session.epochs[e].age = "old"
                      \/ /\ session.epochs[e].age = "idle"
                         /\ session'.acknowledged >= session.epochs[e].target
                      \/ /\ session.epochs[e].late
                         /\ session'.epochs[e].state = "failed"
    OBVIOUS
  <2>1. e \in Ids /\ Drained(session, e)
    BY DEF Present, Drained
  <2>2. ~Drained(session', e)
    BY DEF Drained
  <2> QED
    BY <2>1, <2>2, StepsAdvance DEF Advances
<1> QED
  BY <1>1, AlwaysGood, PTL DEF Spec, DrainedMediaStays

\* No handler takes an attach revision or an acknowledgement back, and the client
\* never acknowledges a revision that was not issued (update_runtime).
THEOREM RevisionsGrow == Spec => RevisionsOnlyGrow
<1>1. Good(session) /\ [Next]_vars =>
        [/\ session'.revision >= session.revision
         /\ session'.acknowledged >= session.acknowledged
         /\ session'.acknowledged <= session'.revision]_vars
  BY StepsAdvance DEF Advances, Grows, Good, Consistent
<1> QED
  BY <1>1, AlwaysGood, PTL DEF Spec, RevisionsOnlyGrow

\* A session starts with its first epoch and no revision: the refresh that
\* creates it (create_session) finds nothing that could be attached to.
LEMMA InitIsUnattached ==
    Init => session.active = 0 /\ session.revision = 0 /\ session.acknowledged = 0
<1> USE EpochConstants, EpochTypes
<1> SUFFICES ASSUME NEW stream \in Requested,
                    session = Refresh(
            [epochs |-> [e \in Ids |-> IF e = 0 THEN NewEpoch("initial", stream)
                                                ELSE Absent],
             active |-> 0, replacement |-> NoEpoch, created |-> 0,
             revision |-> 0, acknowledged |-> 0, backoff |-> FALSE,
             status |-> "starting", error |-> "none", selected |-> stream,
             audio |-> stream, switch |-> "active", candidate |-> NoEpoch,
             expired |-> FALSE])
             PROVE  session.active = 0 /\ session.revision = 0 /\ session.acknowledged = 0
  BY DEF Init
<1> DEFINE epochs == [e \in Ids |-> IF e = 0 THEN NewEpoch("initial", stream) ELSE Absent]
           s == [epochs |-> epochs,
                 active |-> 0, replacement |-> NoEpoch, created |-> 0,
                 revision |-> 0, acknowledged |-> 0, backoff |-> FALSE,
                 status |-> "starting", error |-> "none", selected |-> stream,
                 audio |-> stream, switch |-> "active", candidate |-> NoEpoch,
                 expired |-> FALSE]
           cleaned == CleanupDraining(s)
           unready == [cleaned EXCEPT !.epochs[cleaned.active] =
                                          Preparing(ActiveEpoch(cleaned)),
                                      !.status = IF cleaned.replacement = NoEpoch
                                                 THEN "starting" ELSE cleaned.status]
<1>1. epochs[0].state = "starting" /\ epochs[0].supply = "none"
  BY DEF NewEpoch
<1> HIDE DEF epochs
<1>2. /\ cleaned.active = 0 /\ cleaned.revision = 0 /\ cleaned.acknowledged = 0
      /\ cleaned.replacement = NoEpoch /\ cleaned.switch = "active"
      /\ ActiveEpoch(cleaned).state = "starting" /\ ActiveEpoch(cleaned).supply = "none"
  BY <1>1 DEF CleanupDraining, DrainExpired, ActiveEpoch
<1> HIDE DEF cleaned
<1>3. Refresh(s) = RecoverActive(cleaned)
  BY <1>2 DEF Refresh, cleaned
<1>4. RecoverActive(cleaned) = SettleActive(cleaned)
  BY <1>2 DEF RecoverActive, RetryDraining, PrepareReplacement
<1>5. SettleActive(cleaned) = SettleUnready(cleaned)
  BY <1>2 DEF SettleActive, AttachReady
<1>6. SettleUnready(cleaned) = EnsureWorkers(unready)
  BY DEF SettleUnready
<1>7. /\ EnsureWorkers(unready).active = cleaned.active
      /\ EnsureWorkers(unready).revision = cleaned.revision
      /\ EnsureWorkers(unready).acknowledged = cleaned.acknowledged
  BY DEF EnsureWorkers
<1>8. session = Refresh(s)
  BY DEF epochs
<1> QED
  BY <1>2, <1>3, <1>4, <1>5, <1>6, <1>7, <1>8

\* In lite mode the session implements Route2Authority: the client is told to
\* attach anew if and only if another epoch takes over, and epochs take over in
\* the order of their creation (attach_revision against active_epoch_id).
THEOREM SessionImplementsAuthority ==
    ASSUME ~FullMode
    PROVE  Spec => AttachesWhenHandedOver
<1>1. Init => Authority!Init
  BY InitIsUnattached DEF Authority!Init
<1>2. Good(session) /\ [Next]_vars => [Authority!Next]_(Authority!vars)
  <2> SUFFICES ASSUME Good(session), [Next]_vars
               PROVE  Authority!Next
    OBVIOUS
  <2>1. Advances(session', session)
    BY StepsAdvance
  <2>2. /\ session.active \in Nat /\ session.revision \in Nat
        /\ session'.active \in Nat /\ session'.revision \in Nat
        /\ session'.acknowledged \in Nat
        /\ session'.acknowledged <= session'.revision
    BY <2>1, EpochConstants DEF Advances, Good, Consistent, Sessions, Ids
  <2>3. Authority!Hear
    BY <2>1, <2>2 DEF Advances, Grows, Authority!Hear
  <2>4. CASE session'.active > session.active
    BY <2>1, <2>2, <2>3, <2>4 DEF Advances, Grows, HandInHand, Authority!HandOver, Authority!Next
  <2>5. CASE session'.active = session.active /\ session'.revision > session.revision
    BY <2>1, <2>2, <2>3, <2>5
       DEF Advances, Grows, HandInHand, Authority!FirstAttach, Authority!Next
  <2>6. CASE session'.active = session.active /\ session'.revision = session.revision
    BY <2>3, <2>6 DEF Authority!Acknowledge, Authority!Next
  <2> QED
    BY <2>1, <2>2, <2>4, <2>5, <2>6 DEF Advances, Grows
<1> QED
  BY <1>1, <1>2, AlwaysGood, PTL DEF Spec, AttachesWhenHandedOver, Authority!Spec

=============================================================================
