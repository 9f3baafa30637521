---------------------------- MODULE MCMigration ----------------------------
(***************************************************************************)
(* Instances of Migration for TLC: two rooms, one contact, one key per     *)
(* JSON map, the power levels 0 (default), 1 (admin) and 2 (Int::MAX).     *)
(***************************************************************************)
EXTENDS MigrationInvariants

MCRooms == {1, 2}
MCContacts == {"carol"}
MCKeys == {"key"}
MCValues == {"a", "b"}
MCLevels == {0, 1, 2}
MCIntMax == 2
MCCreatorLevel == 1

MCMap(value) == [k \in Keys |-> value]

\* A public room where the old user is the admin and the new one is not.
PublicRoom ==
    [old |-> "join", new |-> "leave", joinRule |-> "public",
     history |-> "shared", acl |-> TRUE, v12 |-> FALSE, creators |-> {},
     sender |-> "other", unset |-> FALSE,
     pl |-> [old |-> 1, new |-> 0, invite |-> 0, change |-> 1,
             notifications |-> "default"]]
PrivateRoom == [PublicRoom EXCEPT !.joinRule = "invite"]
\* The new user is there, with the power of the old one; or is invited.
SharedRoom == [PrivateRoom EXCEPT !.new = "join", !.pl.new = 1]
InvitedRoom == [PrivateRoom EXCEPT !.new = "invite", !.pl.old = 0]
\* The new user is there, without the power.
WeakRoom == [SharedRoom EXCEPT !.pl.new = 0]
\* The old user may not invite, or may not promote.
ClosedRoom == [PrivateRoom EXCEPT !.pl.old = 0, !.pl.invite = 1]
CappedRoom == [PublicRoom EXCEPT !.pl.change = 2]
\* Room version 12: an additional creator, or the sender of m.room.create.
\* Creators have no entry in the users map, so that level is 0.
V12Room == [PublicRoom EXCEPT !.v12 = TRUE, !.pl.old = 0]
CreatorRoom == [V12Room EXCEPT !.creators = {"old"}]
SenderRoom == [V12Room EXCEPT !.sender = "old"]
SharedCreatorRoom == [CreatorRoom EXCEPT !.creators = Users]
\* The old user is a creator, the new one a mere moderator.
ModeratedRoom == [CreatorRoom EXCEPT !.new = "join", !.pl.new = 1,
                                     !.pl.change = 0]
\* The old user is a creator, and its entry is users_default.
DefaultedRoom == [ModeratedRoom EXCEPT !.pl.old = 1, !.pl.new = 0]
\* The old user made the room, before version 12, and no levels were set.
UnsetRoom == [PrivateRoom EXCEPT !.unset = TRUE, !.creators = {"old"},
                                 !.sender = "old", !.pl.change = 0]
BannedRoom == [PublicRoom EXCEPT !.new = "ban"]
AclRoom == [PublicRoom EXCEPT !.acl = FALSE]
HiddenRoom == [PublicRoom EXCEPT !.history = "joined"]
CustomRoom == [PublicRoom EXCEPT !.pl.notifications = "custom"]

ManyProfiles == {PublicRoom, PrivateRoom, SharedRoom, WeakRoom, InvitedRoom,
                 ClosedRoom, CappedRoom, CreatorRoom, SharedCreatorRoom,
                 UnsetRoom, BannedRoom, AclRoom, HiddenRoom}
FewProfiles == {PublicRoom, UnsetRoom}
PowerProfiles == {WeakRoom, ModeratedRoom, DefaultedRoom, UnsetRoom}
Creators == {CreatorRoom, SenderRoom}
Customised == {CustomRoom}

\* Account data: everything to copy, nothing to copy, or a conflict.
FullAccount(value) ==
    [tags |-> [r \in Rooms |-> MCMap(value)],
     direct |-> {<<"carol", 1>>, <<"new", 2>>},
     ignored |-> [k \in IgnoredKeys |-> {"carol"}]]
BareAccount ==
    [tags |-> [r \in Rooms |-> Empty(Keys)], direct |-> {},
     ignored |-> Empty(IgnoredKeys)]
\* The two users disagree about the tags of room 1.
TagConflict ==
    [BareAccount EXCEPT !.tags[1] = MCMap("b"), !.direct = {<<"carol", 2>>}]
\* The new user's ignore list exists, and is empty.
IgnoredConflict ==
    [BareAccount EXCEPT !.ignored = [k \in IgnoredKeys |-> {}]]

IgnoredConflicts == {IgnoredConflict}
FullAccounts == {FullAccount("a")}
BareAccounts == {BareAccount}
ConflictingAccounts == {TagConflict}
OtherAccounts == {BareAccount, TagConflict, IgnoredConflict}
=============================================================================
