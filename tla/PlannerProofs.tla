--------------------------- MODULE PlannerProofs ---------------------------
(***************************************************************************)
(* Lemmas about the decisions of the planner: what they return for every   *)
(* room state the homeserver can present and every set of failed reads.    *)
(***************************************************************************)
EXTENDS Planner, TLAPS

\* merge_json yields a map over the same keys, or None: what is written back
\* as m.tag is always a tag map.
LEMMA MergeTagsType ==
    ASSUME NEW old \in JsonMaps, NEW new \in JsonMaps
    PROVE  MergeResult(old, new) \in JsonMaps \cup {None}
<1>1. DOMAIN new = Keys
    BY DEF JsonMaps
<1>2. MergeJson(old, new) \in JsonMaps
    BY <1>1 DEF MergeJson, JsonMaps
<1> QED
    BY <1>2 DEF MergeResult

\* The same for m.ignored_user_list.
LEMMA MergeIgnoredType ==
    ASSUME NEW old \in IgnoredMaps, NEW new \in IgnoredMaps
    PROVE  MergeResult(old, new) \in IgnoredMaps \cup {None}
<1>1. DOMAIN new = IgnoredKeys
    BY DEF IgnoredMaps
<1>2. MergeJson(old, new) \in IgnoredMaps
    BY <1>1 DEF MergeJson, IgnoredMaps
<1> QED
    BY <1>2 DEF MergeResult

\* get_power_levels returns levels that m.room.power_levels can hold.
LEMMA LevelsReadType ==
    ASSUME NEW s \in RoomState, NEW failed
    PROVE  /\ LevelsRead(s, failed) \in PowerLevels
           /\ \A u \in Users : UserLevelRead(s, u, failed) \in Levels
           /\ LevelsRead(s, failed).old = UserLevelRead(s, "old", failed)
<1>1. s.pl \in PowerLevels
    BY DEF RoomState
<1>2. \A u \in Users : s.pl[u] \in Levels
    BY <1>1 DEF PowerLevels, Users
<1>3. \A u \in Users : UserLevelRead(s, u, failed) \in Levels
    BY <1>2, LevelsAssumption DEF UserLevelRead
<1> QED
    BY <1>1, <1>3 DEF LevelsRead, PowerLevels, Users

\* plan_power_level returns a level an m.room.power_levels event can hold:
\* Infinite has been replaced by Int::MAX.
LEMMA PowerToSetType ==
    ASSUME NEW s \in RoomState, NEW failed
    PROVE  PowerToSet(s, failed) \in Levels \cup {None}
<1>1. UserLevelRead(s, "old", failed) \in Levels
    BY LevelsReadType DEF Users
<1> QED
    BY <1>1, LevelsAssumption DEF PowerToSet, LevelSeen

\* plan_room returns a RoomPlan.
LEMMA PlanRoomType ==
    ASSUME NEW s \in RoomState, NEW old \in JsonMaps, NEW new \in JsonMaps,
           NEW already, NEW failed
    PROVE  PlanRoom(s, old, new, already, failed) \in RoomPlan
<1> DEFINE joins == ~already /\ CanJoin(s, failed)
           joined == already \/ joins
           power == IF joined THEN PowerToSet(s, failed) ELSE None
           tags == IF joined THEN TagsToSet(old, new, failed) ELSE None
           errors == PowerErrors(s, failed) \cup JoinErrors(s, already, failed)
                     \cup TagErrors(old, new, failed)
                     \cup HistoryErrors(s, failed)
<1>1. joins \in BOOLEAN /\ (joins /\ NeedsInvite(s)) \in BOOLEAN
    BY DEF CanJoin, NeedsInvite
<1>2. power \in Levels \cup {None}
    BY PowerToSetType
<1>3. tags \in JsonMaps \cup {None}
    BY MergeTagsType DEF TagsToSet
<1>4. errors \in SUBSET RoomErrors
    BY DEF PowerErrors, JoinErrors, TagErrors, HistoryErrors, PushIf,
           RoomErrors
<1>5. PlanRoom(s, old, new, already, failed)
      = [invite |-> joins /\ NeedsInvite(s), join |-> joins, leave |-> FALSE,
         power |-> power, tags |-> tags, errors |-> errors]
    BY DEF PlanRoom
<1> QED
    <2> HIDE DEF joins, joined, power, tags, errors
    <2> QED  BY <1>1, <1>2, <1>3, <1>4, <1>5 DEF RoomPlan

\* A room planned without errors is one that the new user is in, or that it
\* is planned to join.
LEMMA PlanRoomJoins ==
    ASSUME NEW s, NEW old, NEW new, NEW already, NEW failed,
           PlanRoom(s, old, new, already, failed).errors = {}
    PROVE  already \/ PlanRoom(s, old, new, already, failed).join
<1>1. JoinErrors(s, already, failed) = {}
    BY DEF PlanRoom
<1>2. already \/ CanJoin(s, failed)
    BY <1>1 DEF JoinErrors, PushIf
<1> QED
    BY <1>2 DEF PlanRoom

LEMMA PlanDirectType ==
    ASSUME NEW p \in Plan, NEW newJoined, NEW old \in SUBSET Mapping,
           NEW new \in SUBSET Mapping, NEW failed
    PROVE  /\ PlanDirect(p, newJoined, old, new, failed) \in Plan
           /\ PlanDirect(p, newJoined, old, new, failed).rooms = p.rooms
<1>1. new \cup DirectToCopy(p, newJoined, old) \in SUBSET Mapping
    BY DEF DirectToCopy
<1>2. {"DirectAccountDataFailed"} \in SUBSET GlobalErrors
    BY DEF GlobalErrors
<1> QED
    BY <1>1, <1>2 DEF PlanDirect, Plan

LEMMA PlanIgnoredUsersType ==
    ASSUME NEW p \in Plan, NEW old \in IgnoredMaps, NEW new \in IgnoredMaps,
           NEW failed
    PROVE  /\ PlanIgnoredUsers(p, old, new, failed) \in Plan
           /\ PlanIgnoredUsers(p, old, new, failed).rooms = p.rooms
<1>1. MergeResult(old, new) \in IgnoredMaps \cup {None}
    BY MergeIgnoredType
<1>2. PushIf(MergeConflicts(old, new) # {}, "IgnoredUserMerge")
      \in SUBSET GlobalErrors
    BY DEF PushIf, GlobalErrors
<1>3. {"IgnoredUsersAccountDataFailed"} \in SUBSET GlobalErrors
    BY DEF GlobalErrors
<1> QED
    BY <1>1, <1>2, <1>3 DEF PlanIgnoredUsers, Plan

\* plan_leaves decides about leaves and about nothing else, and marks only
\* rooms that were planned without errors.
LEMMA PlanLeavesMarks ==
    ASSUME NEW p \in Plan, NEW leave \in BOOLEAN, NEW oldJoined
    PROVE  /\ PlanLeaves(p, leave, oldJoined) \in Plan
           /\ \A r \in Rooms :
                 LET q == PlanLeaves(p, leave, oldJoined).rooms[r] IN
                 /\ q.join = p.rooms[r].join
                 /\ q.leave => r \in oldJoined /\ p.rooms[r].errors = {}
<1>1. \A r \in Rooms : p.rooms[r] \in RoomPlan
    BY DEF Plan
<1>2. \A r \in Rooms :
         (leave /\ r \in oldJoined /\ MayLeave(p, r)) \in BOOLEAN
    BY DEF MayLeave
<1> QED
    BY <1>1, <1>2 DEF PlanLeaves, Plan, RoomPlan, MayLeave

\* get_aliases adds errors, and decides nothing.
LEMMA GetAliasesType ==
    ASSUME NEW p \in Plan, NEW failed
    PROVE  /\ GetAliases(p, failed) \in Plan
           /\ \A r \in Rooms :
                 LET q == GetAliases(p, failed).rooms[r] IN
                 q.join = p.rooms[r].join /\ q.leave = p.rooms[r].leave
<1>1. \A r \in Rooms : p.rooms[r] \in RoomPlan
    BY DEF Plan
<1>2. {"GetAlias"} \in SUBSET RoomErrors
    BY DEF RoomErrors
<1> QED
    BY <1>1, <1>2 DEF GetAliases, Plan, RoomPlan

-----------------------------------------------------------------------------
(* What the decisions take from the new user, and what they leave alone.   *)

\* merge_json: "left with it's `new` value" (utils.rs:31).
LEMMA MergeKeepsNew ==
    ASSUME NEW old, NEW new, MergeResult(old, new) # None,
           NEW k \in DOMAIN new, new[k] # None
    PROVE  MergeResult(old, new)[k] = new[k]
BY DEF MergeResult, MergeJson

\* A merge that changes something was of a list the new user did not have:
\* there is one key only.
LEMMA IgnoredMergeOfNone ==
    ASSUME NEW old \in IgnoredMaps, NEW new \in IgnoredMaps,
           MergeResult(old, new) # None
    PROVE  new = Empty(IgnoredKeys)
BY DEF MergeResult, MergeJson, IgnoredMaps, IgnoredKeys, Empty

\* plan_power_level lowers nobody: the new user is promoted to a level it is
\* seen to be below.
LEMMA PowerToSetRaises ==
    ASSUME NEW s \in RoomState, WellFormed(s), NEW failed,
           PowerToSet(s, failed) # None
    PROVE  /\ PowerToSet(s, failed) \in Levels
           /\ s.pl.new <= PowerToSet(s, failed)
<1> SUFFICES s.pl.new <= PowerToSet(s, failed)
    BY PowerToSetType
<1> DEFINE old == UserLevelRead(s, "old", failed)
           new == UserLevelRead(s, "new", failed)
<1>1. /\ s.pl.old \in 0 .. IntMax /\ s.pl.new \in 0 .. IntMax
      /\ IntMax \in Nat /\ CreatorLevel \in 0 .. IntMax
    BY LevelsAssumption DEF RoomState, PowerLevels
<1>2. LevelSeen(s, "new", failed) < LevelSeen(s, "old", failed)
    BY DEF PowerToSet, NeedsPromotion
<1>3. /\ LevelSeen(s, "new", failed) \in {new, Infinite}
      /\ LevelSeen(s, "old", failed) \in {old, Infinite}
      /\ new \in 0 .. IntMax /\ old \in 0 .. IntMax
    BY LevelsReadType, LevelsAssumption DEF LevelSeen, Users
<1> HIDE DEF old, new
<1>4. LevelSeen(s, "new", failed) = new
    BY <1>1, <1>2, <1>3 DEF Infinite
<1>5. PowerToSet(s, failed)
      = IF LevelSeen(s, "old", failed) = Infinite THEN IntMax ELSE old
    BY <1>3 DEF PowerToSet, old
<1>6. CASE LevelSeen(s, "old", failed) = Infinite
    BY <1>1, <1>5, <1>6
<1>7. CASE LevelSeen(s, "old", failed) # Infinite
    <2>1. PowerToSet(s, failed) = old /\ new < old
        BY <1>2, <1>3, <1>4, <1>5, <1>7
    <2>2. CASE s.unset
        <3>1. old # 0
            BY <1>3, <2>1
        <3>2. old = s.pl.old
            BY <3>1 DEF old, UserLevelRead
        <3>3. /\ s.pl.old \in {0, CreatorLevel}
              /\ s.pl.new \in {0, CreatorLevel}
            BY <2>2 DEF WellFormed, DefaultLevel
        <3>4. s.pl.new <= s.pl.old
            BY <1>1, <3>1, <3>2, <3>3
        <3> QED
            BY <2>1, <3>2, <3>4
    <2>3. CASE ~s.unset
        <3>1. old = s.pl.old /\ new = s.pl.new
            BY <2>3 DEF old, new, UserLevelRead
        <3> QED
            BY <1>1, <2>1, <3>1
    <2> QED
        BY <2>2, <2>3
<1> QED
    BY <1>6, <1>7

\* plan_room invites only a user who is outside, and joins only one who is.
LEMMA PlanRoomInvites ==
    ASSUME NEW s \in RoomState, NEW old, NEW new, NEW already, NEW failed,
           PlanRoom(s, old, new, already, failed).invite,
           already \/ s.new # "join"
    PROVE  s.new = "leave"
<1>1. ~already /\ CanJoin(s, failed) /\ NeedsInvite(s)
    BY DEF PlanRoom
<1> QED
    BY <1>1 DEF CanJoin, NeedsInvite, RoomState

\* The rest of what plan_room decides is decided by its helpers, or nothing.
LEMMA PlanRoomParts ==
    ASSUME NEW s, NEW old, NEW new, NEW already, NEW failed
    PROVE  LET q == PlanRoom(s, old, new, already, failed) IN
           /\ ~q.leave
           /\ q.power \in {PowerToSet(s, failed), None}
           /\ q.tags \in {MergeResult(old, new), None}
BY DEF PlanRoom, TagsToSet

LEMMA PlanDirectKeeps ==
    ASSUME NEW p \in Plan, NEW newJoined, NEW old, NEW new, NEW failed
    PROVE  LET q == PlanDirect(p, newJoined, old, new, failed) IN
           /\ q.ignored = p.ignored
           /\ q.direct = p.direct \/ new \subseteq q.direct
BY DEF PlanDirect, Plan

LEMMA PlanIgnoredUsersKeeps ==
    ASSUME NEW p \in Plan, NEW old, NEW new, NEW failed
    PROVE  LET q == PlanIgnoredUsers(p, old, new, failed) IN
           /\ q.direct = p.direct
           /\ q.ignored \in {p.ignored, MergeResult(old, new)}
BY DEF PlanIgnoredUsers, Plan

\* plan_leaves and get_aliases decide about nothing else.
LEMMA PlanLeavesKeeps ==
    ASSUME NEW p \in Plan, NEW leave, NEW oldJoined
    PROVE  LET q == PlanLeaves(p, leave, oldJoined) IN
           /\ q.direct = p.direct /\ q.ignored = p.ignored
           /\ q.errors = p.errors
           /\ \A r \in Rooms :
                 q.rooms[r] = [p.rooms[r] EXCEPT !.leave =
                                  leave /\ r \in oldJoined /\ MayLeave(p, r)]
BY DEF PlanLeaves, Plan

LEMMA GetAliasesKeeps ==
    ASSUME NEW p \in Plan, NEW failed
    PROVE  LET q == GetAliases(p, failed) IN
           /\ q.direct = p.direct /\ q.ignored = p.ignored
           /\ q.errors = p.errors
           /\ \A r \in Rooms :
                 q.rooms[r] \in {p.rooms[r], [p.rooms[r] EXCEPT
                                    !.errors = @ \cup {"GetAlias"}]}
BY DEF GetAliases, Plan
=============================================================================
