--------------------------- MODULE Route2Authority ---------------------------
(***************************************************************************)
(* What a Route 2 session promises its client, whatever epochs fail, are   *)
(* replaced or sought: the client is told to attach anew whenever another  *)
(* epoch takes over, and never otherwise; epochs take over in the order of *)
(* their creation; what the client has acknowledged stays acknowledged.    *)
(* Route2Epochs implements this in lite mode.                              *)
(***************************************************************************)
EXTENDS Integers

VARIABLES
    active,          \* the epoch that plays
    revision,        \* the attach revision the client was told, 0 before the first
    acknowledged     \* the newest one the client has reported back

vars == <<active, revision, acknowledged>>

Init ==
    /\ active = 0
    /\ revision = 0
    /\ acknowledged = 0

\* One message of the client may both acknowledge and bring about a hand-over.
Hear ==
    /\ acknowledged' \in Nat
    /\ acknowledged' >= acknowledged
    /\ acknowledged' <= revision'

\* The first epoch has enough media for the client to attach.
FirstAttach ==
    /\ revision = 0
    /\ revision' \in Nat \ {0}
    /\ UNCHANGED active
    /\ Hear

\* A younger epoch takes over and the client must attach to it.
HandOver ==
    /\ active' \in Nat
    /\ active' > active
    /\ revision' \in Nat
    /\ revision' > revision
    /\ Hear

Acknowledge ==
    /\ UNCHANGED <<active, revision>>
    /\ Hear

Next == FirstAttach \/ HandOver \/ Acknowledge

Spec == Init /\ [][Next]_vars
=============================================================================
