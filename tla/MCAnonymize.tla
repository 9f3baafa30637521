---------------------------- MODULE MCAnonymize ----------------------------
(***************************************************************************)
(* Two rooms of one server, which get the anonymous id 3.                  *)
(***************************************************************************)
EXTENDS Anonymize, MCMigration

ThreeIds == {1, 2, 3}
SameServer == [r \in ThreeIds |-> 3]
MCNoRoom == [PrivateRoom EXCEPT !.old = "leave", !.pl.old = 0]
SharedProfiles == {PublicRoom, SharedRoom, MCNoRoom}
=============================================================================
