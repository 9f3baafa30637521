----------------------------- MODULE Homeserver -----------------------------
(***************************************************************************)
(* What matrix-user-swap knows of the Matrix homeserver: the room state    *)
(* events and the account data it reads (trait ReadState, src/state.rs),   *)
(* and the conditions under which the homeserver accepts the requests of   *)
(* trait WriteState.  The acceptance rules are those of the Matrix         *)
(* specification; they are external to the program.                        *)
(***************************************************************************)
EXTENDS Integers, FiniteSets

CONSTANTS
    Rooms,      \* room ids; their order is the order of the BTreeMaps
    Contacts,   \* third-party users, for m.direct and m.ignored_user_list
    Keys,       \* names of room tags
    Values,     \* what a tag can map to
    Levels,     \* the power levels in use
    IntMax,     \* ruma's Int::MAX
    CreatorLevel,   \* a creator's level where none are set: 100
    None        \* Option::None; also "this key is absent"

ASSUME RoomsAssumption == Rooms \subseteq Nat /\ IsFiniteSet(Rooms)
ASSUME LevelsAssumption == IntMax \in Nat /\ Levels \subseteq 0 .. IntMax
                           /\ {0, CreatorLevel, IntMax} \subseteq Levels
ASSUME ContactsAssumption == "new" \notin Contacts

\* UserKind: the account migrated from and the account migrated to.
Users == {"old", "new"}

(***************************************************************************)
(* JsonMap: a map from keys to opaque values.  A missing event and an      *)
(* empty map are the same here, as they are to all that is done with them. *)
(* The content of m.ignored_user_list is a map too: its one key is         *)
(* "ignored_users", and all the ignored users are in the value of that.    *)
(***************************************************************************)
JsonMaps == [Keys -> Values \cup {None}]
IgnoredKeys == {"ignored_users"}
IgnoredMaps == [IgnoredKeys -> (SUBSET Contacts) \cup {None}]
Empty(keys) == [k \in keys |-> None]

(***************************************************************************)
(* m.room.power_levels.  "change" is the level required to send a new      *)
(* m.room.power_levels event; "notifications" stands for the part of the   *)
(* content that redaction drops.                                           *)
(***************************************************************************)
PowerLevels == [old : Levels, new : Levels, invite : Levels, change : Levels,
                notifications : {"default", "custom"}]

(***************************************************************************)
(* The state of one room.  "creators" is whom m.room.create names, as      *)
(* creator or as additional_creators, "sender" is who sent that event: in  *)
(* room version 12 both have infinite power.  "pl" is the levels in force, *)
(* "unset" says that no m.room.power_levels sets them.  "acl" says whether *)
(* the server ACL lets the new user's homeserver in.                       *)
(***************************************************************************)
RoomState == [old : {"join", "leave"},
              new : {"join", "invite", "leave", "ban"},
              joinRule : {"public", "invite"},
              history : {"shared", "joined"},
              acl : BOOLEAN,
              v12 : BOOLEAN,
              creators : SUBSET Users,
              sender : Users \cup {"other"},
              unset : BOOLEAN,
              pl : PowerLevels]

\* Where no levels are set everybody may do everything, and the creators
\* have a level (in version 12, they would have it to who takes the room for
\* one of an earlier version).
DefaultLevel(s, u) == IF u \in s.creators \cup {s.sender} THEN CreatorLevel ELSE 0

WellFormed(s) ==
    s.unset => s.pl = [old |-> DefaultLevel(s, "old"),
                       new |-> DefaultLevel(s, "new"),
                       invite |-> 0, change |-> 0, notifications |-> "default"]

\* Account data of one user: m.tag per room, m.direct, m.ignored_user_list.
\* m.direct is the set of its <<contact, room>> entries.
Mapping == (Contacts \cup {"new"}) \X Rooms
AccountState == [tags : [Rooms -> JsonMaps],
                 direct : SUBSET Mapping,
                 ignored : IgnoredMaps]

\* None is none of the values it stands for the lack of.
ASSUME NoneAssumption ==
    /\ None \notin Levels /\ None \notin Values /\ None \notin Rooms
    /\ \A C \in SUBSET Contacts : None # C
    /\ \A D \in SUBSET Mapping : None # D
    /\ None \notin JsonMaps /\ None \notin IgnoredMaps

IgnoredUsers(a) ==
    IF a.ignored = Empty(IgnoredKeys) THEN {} ELSE a.ignored["ignored_users"]

-----------------------------------------------------------------------------
(* UserPowerLevel: an integer, or Infinite, which is above every integer.  *)

Infinite == IntMax + 1

\* The level the homeserver enforces for user u.
TrueLevel(s, u) ==
    IF s.v12 /\ (u \in s.creators \/ u = s.sender) THEN Infinite ELSE s.pl[u]

(* When the homeserver accepts a request.  The old user sends invites,     *)
(* power levels and leaves; the new user sends joins.                      *)

InviteAccepted(s) ==
    /\ s.old = "join"
    /\ s.new \in {"leave", "invite"}
    /\ TrueLevel(s, "old") >= s.pl.invite

JoinAccepted(s) ==
    \/ s.new = "join"
    \/ /\ s.acl
       /\ s.new = "invite" \/ (s.new = "leave" /\ s.joinRule = "public")

\* A sender may only change the levels it outranks, up to its own; the first
\* levels of a room can be any.  None can be set for a creator in version 12.
LevelChangesAllowed(s, content) ==
    LET own == TrueLevel(s, "old") IN
    /\ \A field \in {"old", "new", "invite", "change"} :
          content[field] # s.pl[field] => own >= content[field]
                                          /\ own >= s.pl[field]
    /\ content.new # s.pl.new => own > s.pl.new
                                 /\ TrueLevel(s, "new") # Infinite

PowerLevelsAccepted(s, content) ==
    /\ s.old = "join"
    /\ TrueLevel(s, "old") >= s.pl.change
    /\ IF s.unset
       THEN \A u \in Users : TrueLevel(s, u) = Infinite => content[u] = 0
       ELSE LevelChangesAllowed(s, content)

LeaveAccepted(s) == s.old = "join"

-----------------------------------------------------------------------------
(* What the other users of a room, its moderators, and other clients of    *)
(* the two users may turn its state into, in one step.                     *)

Interference(s) ==
    {[s EXCEPT !.new = m] : m \in {"join", "invite", "leave", "ban"}}
    \cup {[s EXCEPT !.old = "leave"], [s EXCEPT !.acl = FALSE],
          [s EXCEPT !.joinRule = "invite"], [s EXCEPT !.history = "joined"]}
    \cup {[s EXCEPT !.pl.old = l, !.unset = FALSE] : l \in Levels}
    \cup {[s EXCEPT !.pl.new = l, !.unset = FALSE] : l \in Levels}

\* What a user's other clients may turn its account data about room r into.
RoomDataInterference(a, r) ==
    {[a EXCEPT !.tags[r] = tags] : tags \in JsonMaps}
    \cup {[a EXCEPT !.direct = {m \in @ : m[2] # r} \cup chats] :
             chats \in SUBSET {m \in Mapping : m[2] = r}}
=============================================================================
