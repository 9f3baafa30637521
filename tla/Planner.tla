------------------------------ MODULE Planner ------------------------------
(***************************************************************************)
(* The decisions of src/plan.rs, as functions of what the planner read.    *)
(* A read of the homeserver can fail; the set "failed" names the reads     *)
(* that were made and failed while one room, or the global data, was       *)
(* planned.  The new user's account data is not read where the old user    *)
(* has no such event, but is where it has an empty one.                    *)
(***************************************************************************)
EXTENDS Homeserver

RoomReads == {"powerLevels", "create", "version", "membership", "acl",
              "joinRule", "oldTags", "newTags", "history"}
GlobalReads == {"oldDirect", "newDirect", "oldIgnored", "newIgnored"}

RoomErrors == {"GetPowerLevels", "CopyPowerLevel",
               "CreatorPowerLevelApproximation", "Join", "RoomTagsFailed",
               "RoomTagMerge", "GetHistoryVisibility",
               "RestrictedHistoryVisibility", "GetAlias"}
GlobalErrors == {"DirectAccountDataFailed", "IgnoredUsersAccountDataFailed",
                 "IgnoredUserMerge"}

\* RoomPlan: what to do in one room.  The vector of errors is abstracted to
\* the set of its kinds, because only its emptiness is ever consulted.
RoomPlan == [invite : BOOLEAN, join : BOOLEAN, leave : BOOLEAN,
             power : Levels \cup {None},
             tags : JsonMaps \cup {None},
             errors : SUBSET RoomErrors]

\* Plan: a room with the default plan is one that plan.rooms does not hold.
Plan == [rooms : [Rooms -> RoomPlan],
         direct : (SUBSET Mapping) \cup {None},
         ignored : IgnoredMaps \cup {None},
         errors : SUBSET GlobalErrors]

DefaultRoomPlan == [invite |-> FALSE, join |-> FALSE, leave |-> FALSE,
                    power |-> None, tags |-> None, errors |-> {}]
EmptyPlan == [rooms |-> [r \in Rooms |-> DefaultRoomPlan],
              direct |-> None, ignored |-> None, errors |-> {}]

PlannedRooms(p) == {r \in Rooms : p.rooms[r] # DefaultRoomPlan}

\* errors.push(error) under a condition.
PushIf(condition, error) == IF condition THEN {error} ELSE {}

-----------------------------------------------------------------------------
(* merge_json: copy the keys only old has; a key with two values is left   *)
(* as it is in new and reported.                                           *)

MergeJson_OldFirst(old, new) ==                          \* mutated form
    [k \in DOMAIN new |-> IF old[k] = None THEN new[k] ELSE old[k]]

MergeJson(old, new) ==
    [k \in DOMAIN new |-> IF new[k] = None THEN old[k] ELSE new[k]]

MergeConflicts(old, new) ==
    {k \in DOMAIN new : old[k] # None /\ new[k] # None /\ old[k] # new[k]}

MergeResult_Always(old, new) == MergeJson(old, new)     \* mutated form

\* The Option<JsonMap> that merge_json returns.
MergeResult(old, new) ==
    IF MergeJson(old, new) = new THEN None ELSE MergeJson(old, new)

-----------------------------------------------------------------------------
(* get_power_levels and plan_power_level.  An error reading the create     *)
(* event or the room version is replaced by a default there.  Creators     *)
(* with infinite power are no users of the levels read; the others are     *)
(* made users of them if the room has set none.                            *)

CreatorsSeen(s, failed) == IF "create" \in failed THEN {} ELSE s.creators

PrivilegedSeen(s, failed) ==
    IF s.v12 /\ "version" \notin failed THEN CreatorsSeen(s, failed) ELSE {}

UserLevelRead(s, u, failed) ==
    IF s.unset /\ u \notin CreatorsSeen(s, failed) \ PrivilegedSeen(s, failed)
    THEN 0
    ELSE s.pl[u]

LevelSeen(s, u, failed) ==
    IF u \in PrivilegedSeen(s, failed) THEN Infinite
                                       ELSE UserLevelRead(s, u, failed)

\* The content made of what was read, without what redaction drops.  (No
\* level is set for a creator in version 12, so that the conversion, which
\* would refuse that, always succeeds.)
LevelsRead(s, failed) ==
    [s.pl EXCEPT !.old = UserLevelRead(s, "old", failed),
                 !.new = UserLevelRead(s, "new", failed),
                 !.notifications = "default"]

NeedsPromotion(s, failed) ==
    LevelSeen(s, "new", failed) < LevelSeen(s, "old", failed)

\* user_can_change_user_power_level, given NeedsPromotion.
CanPromote(s, failed) == LevelSeen(s, "old", failed) >= s.pl.change

PowerToSet_Infinite(s, failed) ==                        \* mutated form
    IF "powerLevels" \notin failed /\ NeedsPromotion(s, failed)
    THEN LevelSeen(s, "old", failed) ELSE None

PowerToSet_Entry(s, failed) ==                           \* mutated form
    IF "powerLevels" \notin failed /\ NeedsPromotion(s, failed)
    THEN UserLevelRead(s, "old", failed) ELSE None

PowerToSet(s, failed) ==
    IF /\ "powerLevels" \notin failed
       /\ NeedsPromotion(s, failed)
       /\ CanPromote(s, failed)
    THEN IF LevelSeen(s, "old", failed) = Infinite
         THEN IntMax
         ELSE LevelSeen(s, "old", failed)
    ELSE None

PowerErrors(s, failed) ==
    IF "powerLevels" \in failed THEN {"GetPowerLevels"}
    ELSE PushIf(LevelSeen(s, "old", failed) = Infinite,
                "CreatorPowerLevelApproximation")
         \cup PushIf(NeedsPromotion(s, failed) /\ ~CanPromote(s, failed),
                     "CopyPowerLevel")

-----------------------------------------------------------------------------
(* plan_join *)

NeedsInvite_Always(s) == s.joinRule # "public"     \* mutated form

NeedsInvite(s) == s.new # "invite" /\ s.joinRule # "public"

CanJoin(s, failed) ==
    /\ {"membership", "acl", "joinRule"} \cap failed = {}
    /\ s.new # "ban"
    /\ s.acl
    /\ NeedsInvite(s) => /\ "powerLevels" \notin failed
                         /\ LevelSeen(s, "old", failed) >= s.pl.invite

-----------------------------------------------------------------------------
(* plan_room_account_data_tags and check_history_visibility *)

TagsRead(failed) == {"oldTags", "newTags"} \cap failed = {}

TagsToSet(old, new, failed) ==
    IF TagsRead(failed) THEN MergeResult(old, new) ELSE None

TagErrors(old, new, failed) ==
    IF TagsRead(failed)
    THEN PushIf(MergeConflicts(old, new) # {}, "RoomTagMerge")
    ELSE {"RoomTagsFailed"}

HistoryErrors(s, failed) ==
    IF "history" \in failed THEN {"GetHistoryVisibility"}
    ELSE PushIf(s.history # "shared", "RestrictedHistoryVisibility")

-----------------------------------------------------------------------------
(* plan_room: nothing but errors is planned in a room that the new user is *)
(* not in and cannot join.                                                 *)

JoinErrors(s, already, failed) ==
    PushIf(~already /\ ~CanJoin(s, failed), "Join")

PlanRoom(s, old, new, already, failed) ==
    LET joins  == ~already /\ CanJoin(s, failed)
        joined == already \/ joins
    IN  [invite |-> joins /\ NeedsInvite(s),
         join   |-> joins,
         leave  |-> FALSE,
         power  |-> IF joined THEN PowerToSet(s, failed) ELSE None,
         tags   |-> IF joined THEN TagsToSet(old, new, failed) ELSE None,
         errors |-> PowerErrors(s, failed)
                    \cup JoinErrors(s, already, failed)
                    \cup TagErrors(old, new, failed)
                    \cup HistoryErrors(s, failed)]

-----------------------------------------------------------------------------
(* plan_account_data_direct and plan_account_data_ignored_users *)

WillJoin(p, newJoined, r) == r \in newJoined \/ p.rooms[r].join

\* The entries copied from the old user's m.direct, DMs with the new user
\* itself excepted.
DirectToCopy(p, newJoined, old) ==
    {m \in old : m[1] # "new" /\ WillJoin(p, newJoined, m[2])}

PlanDirect(p, newJoined, old, new, failed) ==
    LET copied == DirectToCopy(p, newJoined, old)
    IN  IF {"oldDirect", "newDirect"} \cap failed # {}
        THEN [p EXCEPT !.errors = @ \cup {"DirectAccountDataFailed"}]
        ELSE IF copied \subseteq new THEN p
        ELSE [p EXCEPT !.direct = new \cup copied]

PlanIgnoredUsers(p, old, new, failed) ==
    IF {"oldIgnored", "newIgnored"} \cap failed # {}
    THEN [p EXCEPT !.errors = @ \cup {"IgnoredUsersAccountDataFailed"}]
    ELSE [p EXCEPT !.ignored = MergeResult(old, new),
                   !.errors = @ \cup PushIf(MergeConflicts(old, new) # {},
                                            "IgnoredUserMerge")]

-----------------------------------------------------------------------------
(* plan_leaves and get_aliases.  An alias that cannot be read adds an      *)
(* error to the room, but after the leaves were decided.                   *)

MayLeave_RoomErrorsIgnored(p, r) == p.errors = {}     \* mutated form

MayLeave(p, r) == p.errors = {} /\ p.rooms[r].errors = {}

PlanLeaves(p, leave, oldJoined) ==
    [p EXCEPT !.rooms = [r \in Rooms |->
        [p.rooms[r] EXCEPT !.leave = leave /\ r \in oldJoined
                                           /\ MayLeave(p, r)]]]

GetAliases(p, failed) ==
    [p EXCEPT !.rooms = [r \in Rooms |->
        IF r \in failed \cap PlannedRooms(p)
        THEN [p.rooms[r] EXCEPT !.errors = @ \cup {"GetAlias"}]
        ELSE p.rooms[r]]]
=============================================================================
