------------------------------ MODULE Handover ------------------------------
(***************************************************************************)
(* What a migration promises, with no word about how it is done.  Of each  *)
(* room that the old user is in, some parts are still to be handed over to *)
(* the new user.  The program only ever hands over parts, and makes the    *)
(* old user leave a room when there is nothing more of it to hand over.    *)
(* Others do what they please with a room; it is then contested, and the   *)
(* program promises nothing about it until it is run again.                *)
(***************************************************************************)
CONSTANTS Rooms,
          Parts     \* what there is to hand over of a room

VARIABLES present,  \* the rooms the old user is in
          pending,  \* room -> the parts of it not handed over yet
          contested \* the rooms others changed since the program began

vars == <<present, pending, contested>>

TypeOK ==
    /\ present \in SUBSET Rooms
    /\ pending \in [Rooms -> SUBSET Parts]
    /\ contested \in SUBSET Rooms

Init ==
    /\ present \in SUBSET Rooms
    /\ pending \in [Rooms -> SUBSET Parts]
    /\ contested = {}

\* Nothing is known of the contested rooms.
Unless(R) == /\ present' \in SUBSET Rooms
             /\ pending' \in [Rooms -> SUBSET Parts]
             /\ present' \ R = present \ R

\* The program is started: what it reads from now on is up to date.
Begin ==
    /\ contested' = {}
    /\ UNCHANGED <<present, pending>>

\* A request of the program hands over parts, of one room or of several.
HandOver ==
    /\ Unless(contested)
    /\ \A r \in Rooms \ contested : pending'[r] \subseteq pending[r]
    /\ UNCHANGED contested

\* The program makes the old user leave a room.
Leave(r) ==
    /\ r \in present /\ pending[r] = {}
    /\ present' = present \ {r}
    /\ UNCHANGED <<pending, contested>>

\* Others change rooms.
Contest(R) ==
    /\ contested' = contested \cup R
    /\ Unless(contested')
    /\ \A r \in Rooms \ contested' : pending'[r] = pending[r]

Next ==
    \/ Begin \/ HandOver
    \/ \E r \in Rooms : Leave(r)
    \/ \E R \in SUBSET Rooms : Contest(R)

Spec == Init /\ [][Next]_vars
=============================================================================
