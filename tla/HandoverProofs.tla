--------------------------- MODULE HandoverProofs ---------------------------
(***************************************************************************)
(* What the program hands over, for any set of rooms, any initial state of *)
(* them and any amount of faults, interference and restarts.  Three of the *)
(* results are about power levels and need CreatorsOfAllAreRead, two of    *)
(* them NoOldSenders: elsewhere the program is wrong about the levels, and *)
(* TLC shows what it then does (MCCreators.cfg).                           *)
(***************************************************************************)
EXTENDS ExecutionProofs

USE DEF Planning, Executing, RoomSteps, Ended, Faulty, Outcomes

-----------------------------------------------------------------------------
(* What the planner knew of the rooms: KnownInv.                           *)

LEMMA InitKnown == Init => KnownInv
BY DEF Init, KnownInv, OldKnown, OldJoinedKnown, JoinedPlanned, NothingGlobal,
       MarkedClean, PlansOldJoined, StaysOnGlobalError, EmptyPlan,
       DefaultRoomPlan

LEMMA PlanningKnown ==
    ASSUME TypeInv, PlanInv, MembershipInv, KnownInv,
           Start \/ Cancel \/ Confirm \/ PlanStep
    PROVE  KnownInv'
<1> USE DEF KnownInv, OldKnown, OldJoinedKnown, JoinedPlanned, NothingGlobal,
            MarkedClean, PlansOldJoined, StaysOnGlobalError, WillJoin
<1>0. server \in [Rooms -> RoomState] /\ oldJoined \subseteq Rooms
      /\ newJoined \subseteq Rooms
    BY DEF TypeInv, TypeOK
<1>1. CASE Start
    BY <1>1 DEF Start, EmptyPlan, DefaultRoomPlan
<1>2. CASE Cancel
    BY <1>2 DEF Cancel
<1>3. CASE Confirm
    BY <1>3 DEF Confirm
<1>4. CASE ReadOldRooms
    <2>1. \A r \in Rooms : ~plan.rooms[r].leave
        BY <1>4 DEF ReadOldRooms, MembershipInv, NothingMarked
    <2>2. \A r \in Rooms : server[r].old \in {"join", "leave"}
        BY <1>0 DEF RoomState
    <2>3. /\ UNCHANGED <<server, plan, touched, newJoined>>
          /\ pc = "readOld" /\ pc' \in {"readNew", "failed"}
          /\ pc' = "readNew" =>
                oldJoined' = {r \in Rooms : server[r].old = "join"}
        BY <1>4 DEF ReadOldRooms
    <2>4. OldKnown'
        BY <2>2, <2>3
    <2>5. OldJoinedKnown'
        BY <2>3
    <2> QED
        BY <2>1, <2>3, <2>4, <2>5
<1>5. CASE ReadNewRooms
    BY <1>5 DEF ReadNewRooms
<1>6. CASE PlanNextRoom
    <2> PICK failed \in Outages(RoomReads), r \in First(todo) :
              /\ r \in Rooms
              /\ plan'.rooms[r] =
                   PlanRoom(server[r], account.old.tags[r],
                            account.new.tags[r], r \in newJoined, failed)
              /\ \A x \in Rooms \ {r} : plan'.rooms[x] = plan.rooms[x]
              /\ UNCHANGED <<plan.direct, plan.ignored, plan.errors>>
              /\ todo' = todo \ {r}
        BY <1>6, PlannedRoomOnly
    <2>1. ~plan'.rooms[r].leave
        BY PlanRoomParts
    <2>2. \A x \in Rooms \ touched : server[x].new = "join" => x \in newJoined
        BY <1>6 DEF PlanNextRoom, PlanInv, AbsentKnown
    <2> QED
        BY <1>6, <2>1, <2>2 DEF PlanNextRoom
<1>7. CASE PlanGlobalData
    <2>1. /\ pc = "planRooms" /\ pc' = "planGlobal"
          /\ UNCHANGED <<server, oldJoined, newJoined, touched>>
        BY <1>7 DEF PlanGlobalData
    <2>2. \A r \in Rooms :
             /\ plan'.rooms[r].join = plan.rooms[r].join
             /\ plan'.rooms[r].leave =>
                   /\ r \in oldJoined /\ plan'.errors = {}
                   /\ plan'.rooms[r].errors = {}
        <3>1. \A r \in Rooms : plan.rooms[r] \in RoomPlan
            BY DEF TypeInv, TypeOK, Plan
        <3>2. \A r \in Rooms :
                 plan'.rooms[r] = [plan.rooms[r] EXCEPT !.leave =
                    /\ leave /\ r \in oldJoined
                    /\ plan'.errors = {} /\ plan.rooms[r].errors = {}]
            BY <1>7, PlannedGlobalOnly
        <3> TAKE r \in Rooms
        <3> QED
            BY ONLY <3>1, <3>2, r \in Rooms DEF RoomPlan
    <2> QED
        BY <2>1, <2>2
<1>8. CASE ReadAliases
    BY <1>8, ReadAliasesOnly DEF ReadAliases
<1> QED
    BY <1>1, <1>2, <1>3, <1>4, <1>5, <1>6, <1>7, <1>8 DEF PlanStep

LEMMA EnvironmentKnown ==
    ASSUME TypeInv, KnownInv, Restart \/ Sync \/ SyncFails \/ Others
    PROVE  KnownInv'
<1> USE DEF KnownInv, OldKnown, OldJoinedKnown, JoinedPlanned, NothingGlobal,
            MarkedClean, PlansOldJoined, StaysOnGlobalError, WillJoin
<1>1. CASE Restart
    BY <1>1 DEF Restart
<1>2. CASE Sync
    BY <1>2 DEF Sync, SyncSees, tool
<1>3. CASE SyncFails
    BY <1>3 DEF SyncFails, tool
<1>4. CASE Others
    <2>1. oldJoined \subseteq Rooms
        BY DEF TypeInv, TypeOK
    <2> QED
        BY <1>4, <2>1, OthersEffects
<1> QED
    BY <1>1, <1>2, <1>3, <1>4

LEMMA ExecutionKnown ==
    ASSUME TypeInv, KnownInv, ExecuteStep
    PROVE  KnownInv'
<1>0. /\ UNCHANGED <<oldJoined, newJoined, plan, touched>>
      /\ pc \in Executing /\ pc' \notin Planning
    BY ExecutionFrame, ExecutionControl
<1>1. OldKnown'
    BY <1>0, RoomsStayMigrated DEF KnownInv, OldKnown
<1>2. /\ OldJoinedKnown' /\ NothingGlobal' /\ MarkedClean'
      /\ PlansOldJoined'
    BY <1>0 DEF KnownInv, OldJoinedKnown, NothingGlobal, MarkedClean,
                PlansOldJoined
<1>3. JoinedPlanned'
    <2>1. \A r \in Rooms : server'[r].new = "join" =>
             server[r].new = "join" \/ (pc = "join" /\ r = cur)
        <3> TAKE r \in Rooms
        <3>1. server[r] \in RoomState /\ RoomEffect(r)
            BY RoomEffects DEF TypeInv, TypeOK
        <3> QED
            BY ONLY <3>1 DEF RoomEffect, RoomState
    <2> QED
        BY <1>0, <2>1, ExecutionControl DEF KnownInv, JoinedPlanned, WillJoin
<1>4. StaysOnGlobalError'
    <2>1. pc = "leaving" => todo' \subseteq todo
                            /\ (ctx'.globalErrors => ctx.globalErrors)
        BY DEF ExecuteStep, NextRoom, StartSync, Await, ReadPower, Invite,
               Join, WritePower, SetTags, SetDirect, SetIgnored, LeaveRoom,
               RoomsDone, SkipLeave, Finish, RoomErrorUnless, RoomError,
               TypeInv, TypeOK
    <2>2. pc' = "leaving" /\ pc # "leaving" =>
             todo' = RoomsToLeave(plan, ctx')
        BY GlobalProgress
    <2> QED
        BY <2>1, <2>2
           DEF KnownInv, StaysOnGlobalError, RoomsToLeave
<1> QED
    BY <1>1, <1>2, <1>3, <1>4 DEF KnownInv

LEMMA StutterKnown == KnownInv /\ UNCHANGED vars => KnownInv'
BY DEF KnownInv, OldKnown, OldJoinedKnown, JoinedPlanned, NothingGlobal,
       MarkedClean, PlansOldJoined, StaysOnGlobalError, WillJoin, vars

LEMMA NextKnown ==
    TypeInv /\ PlanInv /\ MembershipInv /\ KnownInv /\ [Next]_vars => KnownInv'
BY PlanningKnown, ExecutionKnown, EnvironmentKnown, StutterKnown DEF Next

-----------------------------------------------------------------------------
(* A plan without errors hands over everything: FitInv.                    *)

\* What was read of the creators is what the room has.
LEMMA SeenLevels ==
    ASSUME NEW s, NEW u, CreatorsAreRead(s), NEW failed \in Outages(RoomReads)
    PROVE  LevelSeen(s, u, failed) = LevelSeen(s, u, {})
BY DEF CreatorsAreRead, CreatorsCount, Outages, LevelSeen, UserLevelRead,
       PrivilegedSeen, CreatorsSeen

\* The levels seen are numbers, and none is above the one in force.
LEMMA SeenLevelType ==
    ASSUME NEW s \in RoomState, NEW u \in Users, NEW failed
    PROVE  /\ LevelSeen(s, u, failed) \in 0 .. Infinite
           /\ s.pl[u] \in 0 .. IntMax
           /\ UserLevelRead(s, u, failed) \in {0, s.pl[u]}
           /\ LevelSeen(s, u, failed) <= TrueLevel(s, u)
           /\ ~s.unset => LevelSeen(s, u, failed) >= s.pl[u]
<1>1. /\ s.pl.old \in 0 .. IntMax /\ s.pl.new \in 0 .. IntMax
      /\ IntMax \in Nat
    BY LevelsAssumption DEF RoomState, PowerLevels
<1>2. s.pl[u] \in 0 .. IntMax
    BY <1>1 DEF Users
<1>3. UserLevelRead(s, u, failed) \in {0, s.pl[u]}
      /\ (~s.unset => UserLevelRead(s, u, failed) = s.pl[u])
    BY DEF UserLevelRead
<1>4. u \in PrivilegedSeen(s, failed) => TrueLevel(s, u) = Infinite
    BY DEF PrivilegedSeen, CreatorsSeen, TrueLevel
<1>5. TrueLevel(s, u) \in {s.pl[u], Infinite}
    BY DEF TrueLevel
<1> QED
    BY <1>1, <1>2, <1>3, <1>4, <1>5 DEF LevelSeen, Infinite

\* merge_json without a conflict: every old entry is in what will be there.
LEMMA MergeFits ==
    ASSUME NEW old, NEW new, MergeConflicts(old, new) = {},
           MergeJson(old, new) # None, NEW k \in DOMAIN new
    PROVE  old[k] \in {None, Target(MergeResult(old, new), new)[k]}
<1>1. old[k] = None \/ new[k] = None \/ old[k] = new[k]
    BY DEF MergeConflicts
<1>2. MergeJson(old, new)[k] = IF new[k] = None THEN old[k] ELSE new[k]
    BY DEF MergeJson
<1>3. Target(MergeResult(old, new), new) = MergeJson(old, new)
    BY DEF Target, MergeResult
<1> QED
    BY <1>1, <1>2, <1>3

LEMMA MergeJsonType ==
    /\ \A old \in JsonMaps, new \in JsonMaps :
          DOMAIN new = Keys /\ MergeJson(old, new) \in JsonMaps
    /\ \A old \in IgnoredMaps, new \in IgnoredMaps :
          DOMAIN new = IgnoredKeys /\ MergeJson(old, new) \in IgnoredMaps
<1>1. ASSUME NEW old \in JsonMaps, NEW new \in JsonMaps
      PROVE  DOMAIN new = Keys /\ MergeJson(old, new) \in JsonMaps
    BY DEF JsonMaps, MergeJson
<1>2. ASSUME NEW old \in IgnoredMaps, NEW new \in IgnoredMaps
      PROVE  DOMAIN new = IgnoredKeys /\ MergeJson(old, new) \in IgnoredMaps
    BY DEF IgnoredMaps, MergeJson
<1> QED
    BY <1>1, <1>2

\* plan_power_level without an error: the old user has no infinite power, and
\* the new user is planned to be as powerful, or is.
LEMMA PowerToSetFits ==
    ASSUME NEW s \in RoomState, CreatorsAreRead(s),
           NEW failed \in Outages(RoomReads), PowerErrors(s, failed) = {}
    PROVE  /\ LevelSeen(s, "old", {}) # Infinite
           /\ PowerToSet(s, failed) = None =>
                 LevelSeen(s, "new", {}) >= LevelSeen(s, "old", {})
           /\ PowerToSet(s, failed) # None =>
                 PowerToSet(s, failed) >= LevelSeen(s, "old", {})
<1>1. /\ LevelSeen(s, "old", failed) = LevelSeen(s, "old", {})
      /\ LevelSeen(s, "new", failed) = LevelSeen(s, "new", {})
    BY SeenLevels
<1>2. /\ LevelSeen(s, "old", {}) \in Int /\ LevelSeen(s, "new", {}) \in Int
      /\ LevelSeen(s, "old", {}) # Infinite =>
            LevelSeen(s, "old", {}) \in {0, s.pl.old}
    <2>1. /\ LevelSeen(s, "old", {}) \in 0 .. Infinite
          /\ LevelSeen(s, "new", {}) \in 0 .. Infinite
          /\ UserLevelRead(s, "old", {}) \in {0, s.pl.old}
        BY SeenLevelType DEF Users
    <2>2. IntMax \in Nat
        BY LevelsAssumption
    <2> QED
        BY <2>1, <2>2 DEF LevelSeen, Infinite
<1>3. /\ "powerLevels" \notin failed
      /\ LevelSeen(s, "old", failed) # Infinite
      /\ NeedsPromotion(s, failed) => CanPromote(s, failed)
    BY DEF PowerErrors, PushIf
<1>4. CASE NeedsPromotion(s, failed)
    <2>1. PowerToSet(s, failed) = LevelSeen(s, "old", {})
        BY <1>1, <1>3, <1>4 DEF PowerToSet
    <2>2. LevelSeen(s, "old", {}) \in Levels
        BY <1>1, <1>2, <1>3, LevelsAssumption DEF RoomState, PowerLevels
    <2> QED
        BY <1>1, <1>2, <1>3, <2>1, <2>2, NoneAssumption
<1>5. CASE ~NeedsPromotion(s, failed)
    <2>1. PowerToSet(s, failed) = None
        BY <1>5 DEF PowerToSet
    <2>2. LevelSeen(s, "new", {}) >= LevelSeen(s, "old", {})
        BY <1>1, <1>2, <1>5 DEF NeedsPromotion
    <2> QED
        BY <1>1, <1>3, <2>1, <2>2
<1> QED
    BY <1>4, <1>5

\* Before version 12 a promotion fits even where reads failed: where no levels
\* are set, only a creator that was read can be above the new user.
LEMMA PromotionFits ==
    ASSUME NEW s \in RoomState, ~s.v12, NEW failed \in Outages(RoomReads),
           PowerToSet(s, failed) # None
    PROVE  /\ LevelSeen(s, "old", {}) # Infinite
           /\ PowerToSet(s, failed) >= LevelSeen(s, "old", {})
<1>1. \A u \in Users : \A f :
         /\ LevelSeen(s, u, f) = UserLevelRead(s, u, f)
         /\ UserLevelRead(s, u, f) \in {0, s.pl[u]}
         /\ s.pl[u] \in 0 .. IntMax
    BY SeenLevelType DEF LevelSeen, PrivilegedSeen
<1>2. /\ LevelSeen(s, "old", {}) \in {0, s.pl.old}
      /\ LevelSeen(s, "old", failed) \in {0, s.pl.old}
      /\ LevelSeen(s, "new", failed) \in {0, s.pl.new}
      /\ s.pl.old \in 0 .. IntMax /\ s.pl.new \in 0 .. IntMax
      /\ IntMax \in Nat
    BY <1>1, LevelsAssumption DEF Users
<1>3. /\ LevelSeen(s, "new", failed) < LevelSeen(s, "old", failed)
      /\ PowerToSet(s, failed) = LevelSeen(s, "old", failed)
    BY <1>2 DEF PowerToSet, NeedsPromotion, Infinite
<1>4. LevelSeen(s, "old", failed) = s.pl.old
    BY <1>2, <1>3
<1> QED
    BY <1>2, <1>3, <1>4 DEF Infinite

\* plan_room without an error.
LEMMA PlanRoomFits ==
    ASSUME NEW s \in RoomState, NEW old \in JsonMaps, NEW new \in JsonMaps,
           NEW already, NEW failed \in Outages(RoomReads),
           PlanRoom(s, old, new, already, failed).errors = {}
    PROVE  LET q == PlanRoom(s, old, new, already, failed) IN
           /\ already \/ q.join
           /\ s.history = "shared"
           /\ LevelsAreKnown(q, s) => PowerFits(q, s)
           /\ \A k \in Keys : old[k] \in {None, Target(q.tags, new)[k]}
<1> DEFINE q == PlanRoom(s, old, new, already, failed)
<1>1. /\ PowerErrors(s, failed) = {} /\ JoinErrors(s, already, failed) = {}
      /\ TagErrors(old, new, failed) = {} /\ HistoryErrors(s, failed) = {}
    BY DEF PlanRoom
<1>2. already \/ CanJoin(s, failed)
    BY <1>1 DEF JoinErrors, PushIf
<1>3. /\ q.join = (~already /\ CanJoin(s, failed))
      /\ q.power = PowerToSet(s, failed)
      /\ q.tags = TagsToSet(old, new, failed)
    BY <1>2 DEF PlanRoom
<1>4. s.history = "shared"
    BY <1>1 DEF HistoryErrors, PushIf
<1>5. q.tags = MergeResult(old, new) /\ MergeConflicts(old, new) = {}
    BY <1>1, <1>3 DEF TagErrors, TagsToSet, PushIf
<1>6. \A k \in Keys : old[k] \in {None, Target(q.tags, new)[k]}
    BY <1>5, MergeFits, MergeJsonType, NoneAssumption
<1> HIDE DEF q
<1>7. LevelsAreKnown(q, s) => PowerFits(q, s)
    BY <1>1, <1>3, PowerToSetFits, PromotionFits DEF PowerFits, LevelsAreKnown
<1>8. /\ already \/ q.join
      /\ s.history = "shared"
      /\ LevelsAreKnown(q, s) => PowerFits(q, s)
      /\ \A k \in Keys : old[k] \in {None, Target(q.tags, new)[k]}
    BY <1>2, <1>3, <1>4, <1>6, <1>7
<1> QED
    BY <1>8 DEF q

\* plan_account_data_direct without an error.
LEMMA PlanDirectFits ==
    ASSUME NEW p \in Plan, NEW present, NEW old \in SUBSET Mapping,
           NEW new \in SUBSET Mapping, NEW failed,
           p.direct = None,
           PlanDirect(p, present, old, new, failed).errors = {},
           NEW m \in old, m[1] # "new", WillJoin(p, present, m[2])
    PROVE  m \in Target(PlanDirect(p, present, old, new, failed).direct, new)
<1> DEFINE copied == DirectToCopy(p, present, old)
<1>1. m \in copied
    BY DEF DirectToCopy
<1>2. new \cup copied # None
    BY NoneAssumption DEF DirectToCopy
<1>3. {"oldDirect", "newDirect"} \cap failed = {}
    BY DEF PlanDirect, Plan
<1>4. PlanDirect(p, present, old, new, failed)
      = IF copied \subseteq new THEN p
        ELSE [p EXCEPT !.direct = new \cup copied]
    BY <1>3 DEF PlanDirect
<1> HIDE DEF copied
<1> QED
    BY <1>1, <1>2, <1>4 DEF Target, Plan

\* plan_account_data_ignored_users without an error.
LEMMA PlanIgnoredFits ==
    ASSUME NEW p \in Plan, NEW old \in IgnoredMaps, NEW new \in IgnoredMaps,
           NEW failed, PlanIgnoredUsers(p, old, new, failed).errors = {},
           NEW k \in IgnoredKeys
    PROVE  old[k] \in
              {None, Target(PlanIgnoredUsers(p, old, new, failed).ignored,
                            new)[k]}
<1>1. {"oldIgnored", "newIgnored"} \cap failed = {}
    BY DEF PlanIgnoredUsers, Plan
<1>2. /\ PlanIgnoredUsers(p, old, new, failed).ignored = MergeResult(old, new)
      /\ MergeConflicts(old, new) = {}
    BY <1>1 DEF PlanIgnoredUsers, Plan, PushIf
<1>3. DOMAIN new = IgnoredKeys /\ MergeJson(old, new) # None
    BY MergeJsonType, NoneAssumption
<1> QED
    BY <1>2, <1>3, MergeFits

LEMMA InitFit == Init => FitInv
BY DEF Init, FitInv, RoomsFit, Decided, DirectFits, IgnoredFits,
       GloballyDecided

\* What Fits depends on.
LEMMA FitsFrame ==
    ASSUME NEW r \in Rooms, Fits(r),
           UNCHANGED <<newJoined, plan.rooms[r].join, plan.rooms[r].power,
                       plan.rooms[r].tags, server[r], account.old.tags[r],
                       account.new.tags[r]>>
    PROVE  Fits(r)'
BY DEF Fits, PowerFits, LevelsAreKnown, CreatorsAreRead, WillJoin

LEMMA PlanningFit ==
    ASSUME TypeInv, KnownInv, FitInv,
           Start \/ Cancel \/ Confirm \/ PlanStep
    PROVE  FitInv'
<1> USE DEF FitInv, RoomsFit, DirectFits, IgnoredFits, GloballyDecided,
            Decided
<1>0. /\ server \in [Rooms -> RoomState] /\ plan \in Plan
      /\ oldJoined \subseteq Rooms
      /\ account.old \in AccountState /\ account.new \in AccountState
      /\ \A r \in Rooms : plan.rooms[r] \in RoomPlan
    BY DEF TypeInv, TypeOK, Users, Plan
<1>1. CASE Start
    BY <1>1 DEF Start
<1>2. CASE Cancel
    BY <1>2 DEF Cancel
<1>3. CASE Confirm
    <2>1. /\ UNCHANGED <<server, account, oldJoined, newJoined, plan, touched>>
          /\ pc = "confirm" /\ pc' = "nextRoom"
        BY <1>3 DEF Confirm
    <2> QED
        BY <1>0, <2>1, FitsFrame
<1>4. CASE ReadOldRooms
    BY <1>4 DEF ReadOldRooms
<1>5. CASE ReadNewRooms
    BY <1>5 DEF ReadNewRooms
<1>6. CASE PlanNextRoom
    <2> PICK failed \in Outages(RoomReads), r \in First(todo) :
              /\ r \in Rooms
              /\ plan'.rooms[r] =
                   PlanRoom(server[r], account.old.tags[r],
                            account.new.tags[r], r \in newJoined, failed)
              /\ \A x \in Rooms \ {r} : plan'.rooms[x] = plan.rooms[x]
              /\ UNCHANGED <<plan.direct, plan.ignored, plan.errors>>
              /\ todo' = todo \ {r}
        BY <1>6, PlannedRoomOnly
    <2>1. /\ UNCHANGED <<server, account, pc, oldJoined, newJoined, touched>>
          /\ pc = "planRooms"
        BY <1>6 DEF PlanNextRoom
    <2>2. plan'.rooms[r].errors = {} => Fits(r)'
        <3>1. server[r] \in RoomState /\ account.old.tags[r] \in JsonMaps
              /\ account.new.tags[r] \in JsonMaps
            BY <1>0 DEF AccountState
        <3> DEFINE q == PlanRoom(server[r], account.old.tags[r],
                                 account.new.tags[r], r \in newJoined, failed)
        <3>2. q.errors = {} =>
                 /\ r \in newJoined \/ q.join
                 /\ server[r].history = "shared"
                 /\ LevelsAreKnown(q, server[r]) => PowerFits(q, server[r])
                 /\ \A k \in Keys :
                       account.old.tags[r][k]
                          \in {None, Target(q.tags, account.new.tags[r])[k]}
            BY <3>1, PlanRoomFits
        <3> HIDE DEF q
        <3>3. plan'.rooms[r] = q
            BY DEF q
        <3> QED
            BY <2>1, <3>2, <3>3 DEF Fits, PowerFits, LevelsAreKnown, CreatorsAreRead, WillJoin
    <2>3. plan'.rooms[r].errors \subseteq {"GetAlias"}
             => plan'.rooms[r].errors = {}
        BY DEF PlanRoom, PowerErrors, JoinErrors, TagErrors, HistoryErrors,
               PushIf
    <2>4. \A x \in (Decided \ touched) \ {r} :
             plan'.rooms[x].errors \subseteq {"GetAlias"} => Fits(x)'
        <3> SUFFICES ASSUME NEW x \in (Decided \ touched) \ {r},
                            plan'.rooms[x].errors \subseteq {"GetAlias"}
                     PROVE  Fits(x)'
            OBVIOUS
        <3>1. x \in Rooms /\ plan'.rooms[x] = plan.rooms[x] /\ Fits(x)
            BY <1>0, <2>1
        <3> QED
            BY <2>1, <3>1, FitsFrame
    <2> QED
        BY <2>1, <2>2, <2>3, <2>4
<1>7. CASE PlanGlobalData
    <2> DEFINE D(failed) == PlanDirect(plan, newJoined, account.old.direct,
                                       account.new.direct, failed)
               I(failed) == PlanIgnoredUsers(D(failed), account.old.ignored,
                                             account.new.ignored, failed)
    <2> PICK failed \in Outages(GlobalReads) :
              /\ plan'.direct = D(failed).direct
              /\ plan'.ignored = I(failed).ignored
              /\ plan'.errors = I(failed).errors
              /\ D(failed).errors \subseteq I(failed).errors
              /\ \A r \in Rooms :
                    plan'.rooms[r] = [plan.rooms[r] EXCEPT !.leave =
                       /\ leave /\ r \in oldJoined
                       /\ I(failed).errors = {} /\ plan.rooms[r].errors = {}]
        BY <1>7, PlannedGlobalOnly
    <2>1. /\ UNCHANGED <<server, account, oldJoined, newJoined, touched>>
          /\ pc = "planRooms" /\ pc' = "planGlobal" /\ todo = {}
        BY <1>7 DEF PlanGlobalData
    <2>2. \A r \in Rooms :
             UNCHANGED <<plan.rooms[r].join, plan.rooms[r].power,
                         plan.rooms[r].tags, plan.rooms[r].errors>>
        BY <1>0 DEF RoomPlan
    <2>3. plan.direct = None
        BY <2>1 DEF KnownInv, NothingGlobal
    <2>4. D(failed) \in Plan
        BY <1>0, PlanDirectType DEF AccountState
    <2>5. RoomsFit'
        <3> SUFFICES ASSUME NEW r \in oldJoined \ touched,
                            plan'.rooms[r].errors \subseteq {"GetAlias"}
                     PROVE  Fits(r)'
            BY <2>1
        <3>1. r \in Rooms /\ Fits(r)
            BY <1>0, <2>1, <2>2
        <3> QED
            BY <2>1, <2>2, <3>1, FitsFrame
    <2>6. DirectFits'
        <3> SUFFICES ASSUME plan'.errors = {}, NEW m \in account.old.direct,
                            m[1] # "new", WillJoin(plan', newJoined, m[2])
                     PROVE  m \in Target(D(failed).direct, account.new.direct)
            BY <2>1
        <3>1. /\ account.old.direct \in SUBSET Mapping
              /\ account.new.direct \in SUBSET Mapping
            BY <1>0 DEF AccountState
        <3>2. WillJoin(plan, newJoined, m[2])
            BY <2>2, <3>1 DEF WillJoin, Mapping
        <3>3. D(failed).errors = {}
            OBVIOUS
        <3> QED
            BY <1>0, <2>3, <3>1, <3>2, <3>3, PlanDirectFits
    <2>7. IgnoredFits'
        <3>1. plan'.errors = {} =>
                 \A k \in IgnoredKeys :
                    account.old.ignored[k]
                       \in {None, Target(I(failed).ignored,
                                         account.new.ignored)[k]}
            BY <1>0, <2>4, PlanIgnoredFits DEF AccountState
        <3> QED
            BY <2>1, <3>1
    <2> QED
        BY <2>5, <2>6, <2>7
<1>8. CASE ReadAliases
    <2>1. /\ UNCHANGED <<server, account, oldJoined, newJoined, touched>>
          /\ pc = "planGlobal" /\ pc' = "confirm"
        BY <1>8 DEF ReadAliases
    <2>2. /\ UNCHANGED <<plan.direct, plan.ignored, plan.errors>>
          /\ \A r \in Rooms :
                /\ UNCHANGED <<plan.rooms[r].join, plan.rooms[r].power,
                               plan.rooms[r].tags>>
                /\ plan.rooms[r].errors \subseteq plan'.rooms[r].errors
        BY <1>8, ReadAliasesOnly
    <2>3. RoomsFit'
        <3> SUFFICES ASSUME NEW r \in oldJoined \ touched,
                            plan'.rooms[r].errors \subseteq {"GetAlias"}
                     PROVE  Fits(r)'
            BY <2>1
        <3>1. r \in Rooms /\ Fits(r)
            BY <1>0, <2>1, <2>2
        <3> QED
            BY <2>1, <2>2, <3>1, FitsFrame
    <2>4. \A m \in account.old.direct :
             WillJoin(plan', newJoined, m[2]) => WillJoin(plan, newJoined, m[2])
        BY <1>0, <2>2 DEF WillJoin, AccountState, Mapping
    <2> QED
        BY <2>1, <2>2, <2>3, <2>4
<1> QED
    BY <1>1, <1>2, <1>3, <1>4, <1>5, <1>6, <1>7, <1>8 DEF PlanStep

\* What the program does to a room others left alone: memberships, or it sets
\* levels, the planned one for the new user.
LEMMA UntouchedRoom ==
    ASSUME TypeInv, PlanInv, ExecuteStep, NEW r \in Rooms, r \notin touched
    PROVE  LET s == server[r]
               t == server'[r] IN
           /\ t.history = s.history /\ t.v12 = s.v12
           /\ t.creators = s.creators /\ t.sender = s.sender
           /\ \/ t.unset = s.unset /\ t.pl = s.pl
              \/ /\ plan.rooms[r].power # None /\ ~t.unset
                 /\ \E failed : t.pl.old = UserLevelRead(s, "old", failed)
                 /\ t.pl.new = plan.rooms[r].power
<1>0. RoomEffect(r) /\ server[r] \in RoomState
    BY RoomEffects DEF TypeInv, TypeOK
<1>1. server'[r].history = server[r].history
    BY ONLY <1>0 DEF RoomEffect, RoomState
<1>2. CASE /\ pc = "writePower" /\ r = cur /\ ~server'[r].unset
           /\ server'[r].pl = PowerContent(snapshot, plan.rooms[r])
    <2> PICK failed : snapshot = LevelsRead(server[r], failed)
        BY <1>2 DEF PlanInv, SnapshotFresh
    <2>1. plan.rooms[r].power # None /\ server[r].pl \in PowerLevels
        BY <1>0, <1>2 DEF TypeInv, StepMatchesPlan, RoomState
    <2>2. /\ server'[r].pl.old = UserLevelRead(server[r], "old", failed)
          /\ server'[r].pl.new = plan.rooms[r].power
        BY <1>2, <2>1 DEF PowerContent, LevelsRead, PowerLevels
    <2> QED
        BY <1>0, <1>1, <1>2, <2>1, <2>2, EffectOnLevels
<1> QED
    BY <1>0, <1>1, <1>2, EffectOnLevels

\* The levels of a room that has these fields in common.
LEMMA SameLevels ==
    ASSUME NEW s, NEW t, t.v12 = s.v12, t.creators = s.creators,
           t.sender = s.sender, t.unset = s.unset, t.pl = s.pl, NEW u
    PROVE  /\ LevelSeen(t, u, {}) = LevelSeen(s, u, {})
           /\ TrueLevel(t, u) = TrueLevel(s, u)
BY DEF LevelSeen, UserLevelRead, PrivilegedSeen, CreatorsSeen, TrueLevel

\* A write of what was read does not raise the old user.
LEMMA WrittenLevels ==
    ASSUME NEW s \in RoomState, NEW t \in RoomState, t.v12 = s.v12,
           t.creators = s.creators, t.sender = s.sender, ~t.unset,
           NEW failed, t.pl.old = UserLevelRead(s, "old", failed)
    PROVE  /\ TrueLevel(t, "old") <= TrueLevel(s, "old")
           /\ LevelSeen(s, "old", {}) # Infinite =>
                 /\ LevelSeen(t, "old", {}) # Infinite
                 /\ LevelSeen(t, "old", {}) <= LevelSeen(s, "old", {})
<1>1. /\ t.pl.old \in {0, s.pl.old} /\ s.pl.old \in 0 .. IntMax
      /\ IntMax \in Nat
    BY SeenLevelType, LevelsAssumption DEF Users
<1>2. PrivilegedSeen(t, {}) = PrivilegedSeen(s, {})
    BY DEF PrivilegedSeen, CreatorsSeen
<1>3. TrueLevel(t, "old") <= TrueLevel(s, "old")
    BY <1>1 DEF TrueLevel, Infinite
<1>4. ASSUME LevelSeen(s, "old", {}) # Infinite
      PROVE  /\ LevelSeen(t, "old", {}) # Infinite
             /\ LevelSeen(t, "old", {}) <= LevelSeen(s, "old", {})
    <2>1. "old" \notin PrivilegedSeen(s, {})
        BY <1>4 DEF LevelSeen
    <2>2. LevelSeen(t, "old", {}) = t.pl.old
        BY <1>2, <2>1 DEF LevelSeen, UserLevelRead
    <2>3. LevelSeen(s, "old", {}) = UserLevelRead(s, "old", {})
        BY <2>1 DEF LevelSeen
    <2>4. t.pl.old # 0 => UserLevelRead(s, "old", {}) = s.pl.old
        BY <2>1 DEF UserLevelRead, PrivilegedSeen, CreatorsSeen
    <2>5. UserLevelRead(s, "old", {}) \in {0, s.pl.old}
        BY DEF UserLevelRead
    <2> QED
        BY <1>1, <2>2, <2>3, <2>4, <2>5 DEF Infinite
<1> QED
    BY <1>3, <1>4

LEMMA FitsKept ==
    ASSUME TypeInv, PlanInv, ExecuteStep, NEW r \in Rooms, r \notin touched,
           Fits(r)
    PROVE  Fits(r)'
<1>0. /\ UNCHANGED <<plan, newJoined>> /\ AccountEffect
      /\ account.new \in AccountState
      /\ plan.rooms[r] \in RoomPlan
    BY ExecutionFrame, AccountEffects DEF TypeInv, TypeOK, Users, Plan
<1> DEFINE s == server[r]
           t == server'[r]
           p == plan.rooms[r]
<1>1. /\ s \in RoomState /\ t \in RoomState
      /\ t.history = s.history /\ t.v12 = s.v12
      /\ t.creators = s.creators /\ t.sender = s.sender
      /\ \/ t.unset = s.unset /\ t.pl = s.pl
         \/ /\ p.power # None /\ ~t.unset
            /\ \E failed : t.pl.old = UserLevelRead(s, "old", failed)
    BY UntouchedRoom, ExecutionType DEF TypeInv, TypeOK
<1>4. pc = "tags" /\ r = cur => p.tags # None
    BY DEF TypeInv, StepMatchesPlan
<1>5. \A k \in Keys : account'.old.tags[r][k]
                         \in {None, Target(p.tags, account'.new.tags[r])[k]}
    <2>1. account'.old.tags[r] = account.old.tags[r]
          /\ Target(p.tags, account'.new.tags[r])
             = Target(p.tags, account.new.tags[r])
        BY <1>0, <1>4 DEF AccountEffect, Target
    <2> QED
        BY <2>1 DEF Fits
<1>6. /\ WillJoin(plan, newJoined, r) /\ s.history = "shared"
      /\ LevelsAreKnown(p, s) => PowerFits(p, s)
    BY DEF Fits
<1>7. WillJoin(plan, newJoined, r)' /\ t.history = "shared"
    BY <1>0, <1>1, <1>6 DEF WillJoin
<1>8. LevelsAreKnown(p, t) => PowerFits(p, t)
    <2> HIDE DEF s, t, p
    <2>1. CASE t.unset = s.unset /\ t.pl = s.pl
        <3>1. \A u : LevelSeen(t, u, {}) = LevelSeen(s, u, {})
            BY <1>1, <2>1, SameLevels
        <3>2. LevelsAreKnown(p, t) => LevelsAreKnown(p, s)
            BY <1>1, <2>1
               DEF LevelsAreKnown, CreatorsAreRead, CreatorsCount
        <3> QED
            BY <1>6, <3>1, <3>2 DEF PowerFits
    <2>2. CASE /\ p.power # None /\ ~t.unset
               /\ \E failed : t.pl.old = UserLevelRead(s, "old", failed)
        <3> SUFFICES ASSUME LevelsAreKnown(p, t) PROVE PowerFits(p, t)
            OBVIOUS
        <3>1. LevelsAreKnown(p, s)
            BY <1>1, <2>2 DEF LevelsAreKnown, CreatorsAreRead, CreatorsCount
        <3>2. LevelSeen(s, "old", {}) # Infinite
              /\ p.power >= LevelSeen(s, "old", {})
            BY <1>6, <2>2, <3>1 DEF PowerFits
        <3>3. LevelSeen(t, "old", {}) # Infinite
              /\ LevelSeen(t, "old", {}) <= LevelSeen(s, "old", {})
            BY <1>1, <2>2, <3>2, WrittenLevels
        <3>4. /\ p.power \in Int
              /\ LevelSeen(t, "old", {}) \in Int
              /\ LevelSeen(s, "old", {}) \in Int
            <4>1. p.power \in Levels
                BY <1>0, <2>2 DEF RoomPlan, p
            <4>2. /\ LevelSeen(t, "old", {}) \in 0 .. Infinite
                  /\ LevelSeen(s, "old", {}) \in 0 .. Infinite
                BY <1>1, SeenLevelType DEF Users
            <4>3. Levels \subseteq Int /\ 0 .. Infinite \subseteq Int
                BY ONLY LevelsAssumption DEF Infinite
            <4> QED
                BY <4>1, <4>2, <4>3, Zenon
        <3> QED
            BY <2>2, <3>2, <3>3, <3>4 DEF PowerFits
    <2> QED
        BY <1>1, <2>1, <2>2
<1>9. (LevelsAreKnown(plan.rooms[r], server[r])
          => PowerFits(plan.rooms[r], server[r]))'
    BY <1>0, <1>8 DEF PowerFits, LevelsAreKnown, CreatorsAreRead
<1> QED
    BY <1>0, <1>5, <1>7, <1>9 DEF Fits

LEMMA ExecutionFit ==
    ASSUME TypeInv, PlanInv, FitInv, ExecuteStep
    PROVE  FitInv'
<1>0. /\ UNCHANGED <<oldJoined, newJoined, plan, touched>>
      /\ pc \in Executing /\ pc' \notin Planning /\ AccountEffect
      /\ oldJoined \subseteq Rooms
    BY ExecutionFrame, ExecutionControl, AccountEffects DEF TypeInv, TypeOK
<1>1. RoomsFit'
    <2> SUFFICES ASSUME NEW r \in oldJoined \ touched,
                        plan.rooms[r].errors \subseteq {"GetAlias"}
                 PROVE  Fits(r)'
        BY <1>0 DEF RoomsFit, Decided
    <2>1. r \in Rooms /\ Fits(r)
        BY <1>0 DEF FitInv, RoomsFit, Decided
    <2> QED
        BY <2>1, FitsKept
<1>2. Target(plan.direct, account'.new.direct)
      = Target(plan.direct, account.new.direct)
    BY <1>0 DEF AccountEffect, Target, TypeInv, StepMatchesPlan
<1>3. Target(plan.ignored, account'.new.ignored)
      = Target(plan.ignored, account.new.ignored)
    BY <1>0 DEF AccountEffect, Target, TypeInv, StepMatchesPlan
<1>4. DirectFits'
    BY <1>0, <1>2 DEF FitInv, DirectFits, GloballyDecided, WillJoin,
                      AccountEffect
<1>5. IgnoredFits'
    BY <1>0, <1>3 DEF FitInv, IgnoredFits, GloballyDecided, AccountEffect
<1> QED
    BY <1>1, <1>4, <1>5 DEF FitInv

LEMMA EnvironmentFit ==
    ASSUME TypeInv, FitInv, Restart \/ Sync \/ SyncFails \/ Others, TypeInv'
    PROVE  FitInv'
<1> USE DEF FitInv, RoomsFit, Decided, DirectFits, IgnoredFits,
            GloballyDecided
<1>1. CASE Restart
    BY <1>1 DEF Restart
<1>2. CASE Sync \/ SyncFails
    <2>1. UNCHANGED <<server, account, pc, oldJoined, newJoined, plan, todo,
                      touched>>
        BY <1>2 DEF Sync, SyncSees, SyncFails, tool
    <2> QED
        BY <2>1 DEF Fits, PowerFits, LevelsAreKnown, CreatorsAreRead, WillJoin
<1>3. CASE Others
    <2>0. /\ oldJoined \subseteq Rooms
          /\ touched \subseteq Rooms /\ touched' \subseteq Rooms
          /\ account'.old.direct \subseteq Mapping
        BY DEF TypeInv, TypeOK, Users, AccountState
    <2>1. /\ UNCHANGED <<pc, oldJoined, newJoined, plan, todo>>
          /\ touched \subseteq touched'
          /\ \A r \in Rooms \ touched' :
                UNCHANGED <<server[r], account.old.tags[r],
                            account.new.tags[r]>>
          /\ \A m \in Mapping : m[2] \notin touched' =>
                /\ m \in account'.old.direct <=> m \in account.old.direct
                /\ m \in account'.new.direct <=> m \in account.new.direct
          /\ touched' # Rooms =>
                UNCHANGED <<account.old.ignored, account.new.ignored>>
        BY <1>3, OthersEffects DEF Users
    <2>2. RoomsFit'
        <3> SUFFICES ASSUME NEW r \in Decided \ touched',
                            plan.rooms[r].errors \subseteq {"GetAlias"}
                     PROVE  Fits(r)'
            BY <2>1
        <3>1. r \in Rooms \ touched' /\ Fits(r)
            BY <2>0, <2>1
        <3> QED
            BY <2>1, <3>1, FitsFrame
    <2>3. DirectFits'
        BY <2>0, <2>1 DEF Target, WillJoin
    <2>4. IgnoredFits'
        BY <2>0, <2>1
    <2> QED
        BY <2>2, <2>3, <2>4
<1> QED
    BY <1>1, <1>2, <1>3

LEMMA StutterFit == FitInv /\ UNCHANGED vars => FitInv'
BY DEF FitInv, RoomsFit, Decided, DirectFits, IgnoredFits, GloballyDecided,
       Fits, PowerFits, LevelsAreKnown, CreatorsAreRead, WillJoin, vars

LEMMA NextFit ==
    TypeInv /\ PlanInv /\ KnownInv /\ FitInv /\ [Next]_vars => FitInv'
BY NextType, PlanningFit, ExecutionFit, EnvironmentFit, StutterFit DEF Next

-----------------------------------------------------------------------------
(* Once the rooms are being left, whatever was planned without an error    *)
(* has been handed over, in the rooms that were not touched.               *)

LEMMA RoomHandedOver ==
    ASSUME TypeInv, MembershipInv, DoneInv, KnownInv, FitInv, pc = "leaving",
           NEW r \in oldJoined, r \notin touched, r \notin ctx.failedRooms,
           plan.rooms[r].errors \subseteq {"GetAlias"}
    PROVE  /\ server[r].new = "join"
           /\ server[r].history = "shared"
           /\ CreatorsAreRead(server[r]) =>
                 /\ LevelSeen(server[r], "old", {}) # Infinite
                 /\ ~NeedsPromotion(server[r], {})
           /\ \A k \in Keys :
                 account.old.tags[r][k] \in {None, account.new.tags[r][k]}
<1>0. r \in Rooms /\ server[r] \in RoomState
    BY DEF TypeInv, TypeOK
<1> DEFINE p == plan.rooms[r]
<1>1. Fits(r)
    BY DEF FitInv, RoomsFit, Decided
<1>2. /\ p.join => server[r].new = "join"
      /\ p.power # None => server[r].pl.new = p.power /\ ~server[r].unset
      /\ p.tags # None => account.new.tags[r] = p.tags
    BY <1>0 DEF DoneInv, RoomsMigrated, JoinPending, PowerPending, TagsPending
<1>3. server[r].new = "join"
    BY <1>1, <1>2 DEF Fits, WillJoin, MembershipInv, KnownJoined
<1>4. CreatorsAreRead(server[r]) =>
         /\ LevelSeen(server[r], "old", {}) # Infinite
         /\ ~NeedsPromotion(server[r], {})
    <2> SUFFICES ASSUME CreatorsAreRead(server[r])
                 PROVE  /\ LevelSeen(server[r], "old", {}) # Infinite
                        /\ ~NeedsPromotion(server[r], {})
        OBVIOUS
    <2> DEFINE oldLevel == LevelSeen(server[r], "old", {})
               newLevel == LevelSeen(server[r], "new", {})
    <2>1. /\ oldLevel # Infinite
          /\ p.power = None => newLevel >= oldLevel
          /\ p.power # None => p.power >= oldLevel
        BY <1>1 DEF Fits, PowerFits, LevelsAreKnown
    <2>2. /\ newLevel \in 0 .. Infinite /\ oldLevel \in 0 .. Infinite
          /\ ~server[r].unset => newLevel >= server[r].pl.new
          /\ server[r].pl.new \in 0 .. IntMax /\ IntMax \in Nat
        BY <1>0, SeenLevelType, LevelsAssumption DEF Users
    <2>3. newLevel >= oldLevel
        <3> HIDE DEF oldLevel, newLevel
        <3> QED
            BY <1>2, <2>1, <2>2 DEF Infinite
    <2>4. ~(newLevel < oldLevel)
        <3> HIDE DEF oldLevel, newLevel
        <3> QED
            BY <2>2, <2>3 DEF Infinite
    <2> QED
        BY <2>1, <2>4 DEF NeedsPromotion
<1>5. \A k \in Keys :
         account.old.tags[r][k] \in {None, account.new.tags[r][k]}
    <2>1. Target(p.tags, account.new.tags[r]) = account.new.tags[r]
        BY <1>2 DEF Target
    <2> QED
        BY <1>1, <2>1 DEF Fits
<1> QED
    BY <1>1, <1>3, <1>4, <1>5 DEF Fits

LEMMA DataHandedOver ==
    ASSUME TypeInv, DoneInv, KnownInv, FitInv, pc = "leaving",
           ~ctx.globalErrors, plan.errors = {}
    PROVE  /\ \A m \in account.old.direct :
                 m[1] # "new" /\ m[2] \notin touched
                 /\ WillJoin(plan, newJoined, m[2])
                    => m \in account.new.direct
           /\ touched # Rooms =>
                 \A k \in IgnoredKeys :
                    account.old.ignored[k] \in {None, account.new.ignored[k]}
<1>1. GloballyDecided
    BY DEF GloballyDecided
<1>2. \A m \in account.old.direct : m[2] \notin touched =>
         (m \in Target(plan.direct, account.new.direct)
             => m \in account.new.direct)
    <2>1. account.old.direct \subseteq Mapping
        BY DEF TypeInv, TypeOK, Users, AccountState
    <2> QED
        BY <2>1 DEF DoneInv, DirectDone, Target
<1>3. touched # Rooms =>
         Target(plan.ignored, account.new.ignored) = account.new.ignored
    BY DEF DoneInv, IgnoredDone, Target
<1> QED
    BY <1>1, <1>2, <1>3 DEF FitInv, DirectFits, IgnoredFits

-----------------------------------------------------------------------------
(* A migration without errors leaves nothing to plan but leaves:           *)
(* SettledInv.                                                             *)

LEMMA FinishedIsMigrated ==
    ASSUME TypeInv, MembershipInv, DoneInv, KnownInv, FitInv,
           pc = "leaving", todo = {}, ~ctx.erred, CleanPlan(plan),
           touched = {}, ReadInv, Rooms # {}
    PROVE  Migrated
<1>1. ctx.failedRooms = {} /\ ~ctx.globalErrors
    BY DEF DoneInv, ErrorsCounted
<1>2. plan.errors = {} /\ \A r \in Rooms : plan.rooms[r].errors = {}
    BY DEF CleanPlan
<1>3. ASSUME NEW r \in Rooms, server[r].old = "join"
      PROVE  /\ server[r].new = "join"
             /\ ~NeedsPromotion(server[r], {})
             /\ \A k \in Keys :
                   account.old.tags[r][k] \in {None, account.new.tags[r][k]}
    <2>1. r \in oldJoined
        BY <1>3 DEF KnownInv, OldKnown
    <2> QED
        BY <1>1, <1>2, <2>1, RoomHandedOver DEF ReadInv
<1>4. ASSUME NEW m \in account.old.direct, m[1] # "new",
             server[m[2]].new = "join"
      PROVE  m \in account.new.direct
    <2>1. m[2] \in Rooms
        BY DEF TypeInv, TypeOK, Users, AccountState, Mapping
    <2>2. WillJoin(plan, newJoined, m[2])
        BY <1>4, <2>1 DEF KnownInv, JoinedPlanned
    <2> QED
        BY <1>1, <1>2, <1>4, <2>2, DataHandedOver
<1>5. \A k \in IgnoredKeys :
         account.old.ignored[k] \in {None, account.new.ignored[k]}
    BY <1>1, <1>2, DataHandedOver
<1> QED
    BY <1>3, <1>4, <1>5 DEF Migrated

\* plan_room returns None where everything is handed over.
LEMMA PlanRoomNoop ==
    ASSUME NEW s \in RoomState, NEW old \in JsonMaps, NEW new \in JsonMaps,
           NEW failed \in Outages(RoomReads), CreatorsAreRead(s),
           ~NeedsPromotion(s, {}), NEW already, already,
           \A k \in Keys : old[k] \in {None, new[k]}
    PROVE  LET q == PlanRoom(s, old, new, already, failed) IN
           ~q.invite /\ ~q.join /\ q.power = None /\ q.tags = None
<1>1. PowerToSet(s, failed) = None
    BY SeenLevels DEF PowerToSet, NeedsPromotion
<1>2. MergeResult(old, new) = None
    <2>1. \A k \in Keys : MergeJson(old, new)[k] = new[k]
        BY MergeJsonType DEF MergeJson
    <2>2. MergeJson(old, new) = new
        BY <2>1, MergeJsonType DEF JsonMaps
    <2> QED
        BY <2>2 DEF MergeResult
<1> QED
    BY <1>1, <1>2 DEF PlanRoom, TagsToSet

LEMMA PlanIgnoredNoop ==
    ASSUME NEW p \in Plan, NEW old \in IgnoredMaps, NEW new \in IgnoredMaps,
           NEW failed, p.ignored = None,
           \A k \in IgnoredKeys : old[k] \in {None, new[k]}
    PROVE  PlanIgnoredUsers(p, old, new, failed).ignored = None
<1>1. \A k \in IgnoredKeys : MergeJson(old, new)[k] = new[k]
    BY MergeJsonType DEF MergeJson
<1>2. MergeJson(old, new) = new
    BY <1>1, MergeJsonType DEF IgnoredMaps
<1>3. MergeResult(old, new) = None
    BY <1>2 DEF MergeResult
<1> QED
    BY <1>3, PlanIgnoredUsersKeeps

LEMMA PlanDirectNoop ==
    ASSUME NEW p \in Plan, NEW present, NEW old, NEW new, NEW failed,
           p.direct = None,
           \A m \in old : m[1] # "new" /\ WillJoin(p, present, m[2])
                             => m \in new
    PROVE  PlanDirect(p, present, old, new, failed).direct = None
<1>1. DirectToCopy(p, present, old) \subseteq new
    BY DEF DirectToCopy
<1> QED
    BY <1>1 DEF PlanDirect, Plan

LEMMA InitSettled == Init => SettledInv
BY DEF Init, SettledInv

LEMMA PlanningSettled ==
    ASSUME TypeInv, MembershipInv, PlanInv, KnownInv, SettledInv,
           ReadInv, Start \/ Cancel \/ Confirm \/ PlanStep
    PROVE  SettledInv'
<1>0. /\ server \in [Rooms -> RoomState] /\ plan \in Plan
      /\ account.old \in AccountState /\ account.new \in AccountState
      /\ \A r \in Rooms : plan.rooms[r] \in RoomPlan
    BY DEF TypeInv, TypeOK, Users, Plan
<1>1. CASE Start
    <2>1. NoopPlan'
        BY <1>1 DEF Start, NoopPlan, EmptyPlan, DefaultRoomPlan
    <2> QED
        BY <1>1, <2>1 DEF Start, SettledInv, Migrated
<1>2. CASE Confirm
    BY <1>2 DEF Confirm, SettledInv
<1>3. ASSUME Cancel \/ PlanStep
      PROVE  /\ UNCHANGED <<server, account, touched, settled>>
             /\ pc \in Planning
             /\ pc' \in Planning \cup {"failed", "cancelled"}
    BY <1>3 DEF Cancel, PlanStep, ReadOldRooms, ReadNewRooms, PlanNextRoom,
                PlanGlobalData, ReadAliases
<1>4. ASSUME Cancel \/ PlanStep, settled
      PROVE  Migrated /\ NoopPlan /\ touched = {} /\ Migrated'
    BY <1>3, <1>4 DEF SettledInv, Migrated
<1>5. CASE Cancel \/ ReadOldRooms \/ ReadNewRooms
    <2>1. plan' = plan
        BY <1>5 DEF Cancel, ReadOldRooms, ReadNewRooms
    <2> QED
        BY <1>3, <1>4, <1>5, <2>1 DEF PlanStep, SettledInv, NoopPlan
<1>6. CASE PlanNextRoom
    <2> SUFFICES ASSUME settled PROVE NoopPlan'
        BY <1>3, <1>4, <1>6 DEF PlanStep, SettledInv
    <2> PICK failed \in Outages(RoomReads), r \in First(todo) :
              /\ r \in Rooms
              /\ plan'.rooms[r] =
                   PlanRoom(server[r], account.old.tags[r],
                            account.new.tags[r], r \in newJoined, failed)
              /\ \A x \in Rooms \ {r} : plan'.rooms[x] = plan.rooms[x]
              /\ UNCHANGED <<plan.direct, plan.ignored, plan.errors>>
              /\ todo' = todo \ {r}
        BY <1>6, PlannedRoomOnly
    <2>1. Migrated /\ NoopPlan /\ touched = {} /\ pc = "planRooms"
        BY <1>4, <1>6 DEF PlanStep, PlanNextRoom
    <2>2. server[r].old = "join"
        BY <2>1, FirstIsMember DEF KnownInv, PlansOldJoined, OldJoinedKnown
    <2>3. /\ server[r].new = "join" /\ ~NeedsPromotion(server[r], {})
          /\ \A k \in Keys :
                account.old.tags[r][k] \in {None, account.new.tags[r][k]}
        BY <2>1, <2>2 DEF Migrated
    <2>4. r \in newJoined
        BY <2>1, <2>3 DEF PlanInv, AbsentKnown
    <2>5. server[r] \in RoomState /\ account.old.tags[r] \in JsonMaps
          /\ account.new.tags[r] \in JsonMaps
        BY <1>0 DEF AccountState
    <2> DEFINE q == PlanRoom(server[r], account.old.tags[r],
                             account.new.tags[r], r \in newJoined, failed)
    <2>6. ~q.invite /\ ~q.join /\ q.power = None /\ q.tags = None
        BY <2>3, <2>4, <2>5, PlanRoomNoop DEF ReadInv
    <2> QED
        BY <2>1, <2>6 DEF NoopPlan
<1>7. CASE PlanGlobalData
    <2> SUFFICES ASSUME settled PROVE NoopPlan'
        BY <1>3, <1>4, <1>7 DEF PlanStep, SettledInv
    <2>1. Migrated /\ NoopPlan /\ touched = {} /\ pc = "planRooms"
        BY <1>4, <1>7 DEF PlanStep, PlanGlobalData
    <2> DEFINE D(failed) == PlanDirect(plan, newJoined, account.old.direct,
                                       account.new.direct, failed)
               I(failed) == PlanIgnoredUsers(D(failed), account.old.ignored,
                                             account.new.ignored, failed)
    <2> PICK failed \in Outages(GlobalReads) :
              /\ plan'.direct = D(failed).direct
              /\ plan'.ignored = I(failed).ignored
              /\ \A r \in Rooms :
                    plan'.rooms[r] = [plan.rooms[r] EXCEPT !.leave =
                       /\ leave /\ r \in oldJoined
                       /\ I(failed).errors = {} /\ plan.rooms[r].errors = {}]
        BY <1>7, PlannedGlobalOnly
    <2>2. \A r \in Rooms :
             UNCHANGED <<plan.rooms[r].invite, plan.rooms[r].join,
                         plan.rooms[r].power, plan.rooms[r].tags>>
        BY <1>0 DEF RoomPlan
    <2>3. /\ account.old.direct \subseteq Mapping
          /\ account.new.direct \subseteq Mapping
          /\ account.old.ignored \in IgnoredMaps
          /\ account.new.ignored \in IgnoredMaps
        BY <1>0 DEF AccountState
    <2>4. \A m \in account.old.direct :
             m[1] # "new" /\ WillJoin(plan, newJoined, m[2])
                => m \in account.new.direct
        BY <2>1, <2>3
           DEF WillJoin, NoopPlan, Migrated, MembershipInv, KnownJoined,
               Mapping
    <2>5. D(failed).direct = None
        BY <1>0, <2>1, <2>4, PlanDirectNoop DEF NoopPlan
    <2>6. D(failed) \in Plan /\ D(failed).ignored = None
        BY <1>0, <2>1, <2>3, PlanDirectType, PlanDirectKeeps DEF NoopPlan
    <2>7. I(failed).ignored = None
        BY <2>1, <2>3, <2>6, PlanIgnoredNoop DEF Migrated
    <2> QED
        BY <2>1, <2>2, <2>5, <2>7 DEF NoopPlan
<1>8. CASE ReadAliases
    BY <1>3, <1>4, <1>8, ReadAliasesOnly DEF PlanStep, SettledInv, NoopPlan
<1> QED
    BY <1>1, <1>2, <1>5, <1>6, <1>7, <1>8 DEF PlanStep

LEMMA ExecutionSettled ==
    ASSUME TypeInv, MembershipInv, DoneInv, KnownInv, FitInv, SettledInv,
           ReadInv, Rooms # {}, ExecuteStep
    PROVE  SettledInv'
<1>1. CASE Finish
    <2> SUFFICES ASSUME settled' PROVE SettledInv'
        BY DEF SettledInv
    <2>1. /\ pc = "leaving" /\ todo = {} /\ ~ctx.erred
          /\ CleanPlan(plan) /\ touched = {} /\ pc' = "succeeded"
          /\ UNCHANGED <<server, account, touched>>
        BY <1>1 DEF Finish
    <2>2. Migrated
        BY <2>1, FinishedIsMigrated
    <2> QED
        BY <2>1, <2>2 DEF SettledInv, Migrated
<1>2. CASE ~Finish
    <2>1. settled' = settled
        BY <1>2 DEF ExecuteStep, NextRoom, StartSync, Await, ReadPower,
               Invite, Join, WritePower, SetTags, SetDirect, SetIgnored,
               LeaveRoom, RoomsDone, SkipLeave
    <2> QED
        BY <2>1, ExecutionControl DEF SettledInv
<1> QED
    BY <1>1, <1>2

LEMMA EnvironmentSettled ==
    ASSUME TypeInv, SettledInv, Restart \/ Sync \/ SyncFails \/ Others
    PROVE  SettledInv'
<1>1. CASE Restart
    BY <1>1 DEF Restart, SettledInv, Migrated
<1>2. CASE Sync \/ SyncFails
    BY <1>2 DEF Sync, SyncSees, SyncFails, tool, SettledInv, Migrated,
                NoopPlan
<1>3. CASE Others
    BY <1>3, OthersEffects DEF SettledInv
<1> QED
    BY <1>1, <1>2, <1>3

LEMMA StutterSettled == SettledInv /\ UNCHANGED vars => SettledInv'
BY DEF SettledInv, Migrated, NoopPlan, vars

LEMMA NextSettled ==
    ASSUME Rooms # {}
    PROVE  TypeInv /\ MembershipInv /\ PlanInv /\ DoneInv /\ KnownInv
           /\ FitInv /\ ReadInv /\ SettledInv /\ [Next]_vars => SettledInv'
BY PlanningSettled, ExecutionSettled, EnvironmentSettled, StutterSettled
   DEF Next

-----------------------------------------------------------------------------
(* Nothing changes who made a room, or its version, and levels once set    *)
(* stay so.                                                                *)

LEMMA OriginsStay ==
    ASSUME TypeInv, Next, NEW r \in Rooms
    PROVE  /\ server'[r].creators = server[r].creators
           /\ server'[r].sender = server[r].sender
           /\ CreatorsCount(server'[r]) => CreatorsCount(server[r])
<1>0. server[r] \in RoomState
    BY DEF TypeInv, TypeOK
<1>1. CASE ExecuteStep
    BY <1>0, <1>1, RoomEffects, EffectOnLevels DEF CreatorsCount
<1>2. CASE Others
    BY <1>2, OthersLevels DEF CreatorsCount
<1>3. CASE UNCHANGED server
    BY <1>3
<1> QED
    BY <1>1, <1>2, <1>3, RestIsHarmless

LEMMA InitRead == CreatorsOfAllAreRead /\ Init => ReadInv
BY DEF Init, ReadInv, CreatorsOfAllAreRead

LEMMA NextRead == TypeInv /\ ReadInv /\ [Next]_vars => ReadInv'
<1>1. ASSUME TypeInv, ReadInv, Next PROVE ReadInv'
    <2> SUFFICES ASSUME NEW r \in Rooms PROVE CreatorsAreRead(server'[r])
        BY DEF ReadInv
    <2> QED
        BY <1>1, OriginsStay DEF ReadInv, CreatorsAreRead
<1>2. CASE UNCHANGED vars
    BY <1>2 DEF ReadInv, vars
<1> QED
    BY <1>1, <1>2

LEMMA InitSender == NoOldSenders /\ Init => SenderInv
BY DEF Init, SenderInv, NoOldSenders

LEMMA NextSender == TypeInv /\ SenderInv /\ [Next]_vars => SenderInv'
<1>1. ASSUME TypeInv, SenderInv, Next PROVE SenderInv'
    <2> SUFFICES ASSUME NEW r \in Rooms PROVE OldIsNamed(server'[r])
        BY DEF SenderInv
    <2> QED
        BY <1>1, OriginsStay DEF SenderInv, OldIsNamed
<1>2. CASE UNCHANGED vars
    BY <1>2 DEF SenderInv, vars
<1> QED
    BY <1>1, <1>2

-----------------------------------------------------------------------------
(* The inductive invariants of whole runs.                                 *)

\* Every plan without errors fits, and the execution keeps it fitting.
THEOREM FitInvariant ==
    Spec => [](TypeInv /\ MembershipInv /\ ExecutionInv /\ KnownInv /\ FitInv)
<1> DEFINE Inv == /\ TypeInv /\ MembershipInv /\ ExecutionInv
                  /\ KnownInv /\ FitInv
<1>1. Init => Inv
    BY InitType, InitMembership, InitPlan, InitDone, InitKnown, InitFit
       DEF ExecutionInv
<1>2. Inv /\ [Next]_vars => Inv'
    BY NextType, NextMembership, NextPlan, NextDone, NextKnown, NextFit
       DEF ExecutionInv
<1> QED
    BY <1>1, <1>2, PTL DEF Spec

\* With a room at least: touched is a set of rooms, and with none it could
\* not record that others changed whom a user ignores.
THEOREM HandoverInvariant ==
    ASSUME CreatorsOfAllAreRead, Rooms # {}
    PROVE  Spec => [](/\ TypeInv /\ MembershipInv /\ ExecutionInv
                      /\ HandoverInv)
<1> DEFINE Inv == /\ TypeInv /\ MembershipInv /\ ExecutionInv
                  /\ KnownInv /\ FitInv
           All == /\ TypeInv /\ MembershipInv /\ ExecutionInv
                  /\ HandoverInv
<1>1. Spec => []Inv
    BY FitInvariant, PTL
<1>2. Init => ReadInv /\ SettledInv
    BY InitRead, InitSettled
<1>3. Inv /\ ReadInv /\ SettledInv /\ [Next]_vars => (ReadInv /\ SettledInv)'
    BY NextRead, NextSettled DEF ExecutionInv
<1>4. Inv /\ SettledInv => All
    BY DEF HandoverInv
<1> HIDE DEF Inv, All
<1>5. Spec => [](ReadInv /\ SettledInv)
    BY <1>1, <1>2, <1>3, PTL DEF Spec
<1>6. Spec => []All
    BY <1>1, <1>4, <1>5, PTL
<1> QED
    BY <1>6 DEF All

\* Running the program again after a migration without errors plans nothing
\* but leaves.
THEOREM RerunPlansNothing ==
    ASSUME CreatorsOfAllAreRead, Rooms # {}
    PROVE  Spec => []RerunIsNoop
<1>1. TypeInv /\ MembershipInv /\ ExecutionInv /\ HandoverInv => RerunIsNoop
    BY DEF HandoverInv, SettledInv, NoopPlan, RerunIsNoop
<1> QED
    BY <1>1, HandoverInvariant, PTL

-----------------------------------------------------------------------------
(* What has been handed over of a room when the old user leaves it.        *)

\* Whom the levels read do not mark as a creator, and who is named as one if
\* it made the room, has no more power than can be read.
LEMMA TrueLevels ==
    ASSUME NEW s \in RoomState, WellFormed(s), OldIsNamed(s),
           LevelSeen(s, "old", {}) # Infinite, ~NeedsPromotion(s, {})
    PROVE  TrueLevel(s, "new") >= TrueLevel(s, "old")
<1>1. /\ LevelSeen(s, "new", {}) \in 0 .. Infinite
      /\ LevelSeen(s, "old", {}) \in 0 .. Infinite
      /\ LevelSeen(s, "new", {}) <= TrueLevel(s, "new")
      /\ IntMax \in Nat
    BY SeenLevelType, LevelsAssumption DEF Users
<1>2. s.v12 => "old" \notin s.creators /\ s.sender # "old"
    BY DEF LevelSeen, PrivilegedSeen, CreatorsSeen, OldIsNamed, CreatorsCount
<1>3. TrueLevel(s, "old") = s.pl.old
    BY <1>2 DEF TrueLevel
<1>4. LevelSeen(s, "old", {}) = UserLevelRead(s, "old", {})
    BY DEF LevelSeen
<1>5. UserLevelRead(s, "old", {}) = s.pl.old
    <2>1. CASE ~s.unset
        BY <2>1 DEF UserLevelRead
    <2>2. CASE s.unset
        <3>1. s.pl.old = DefaultLevel(s, "old")
            BY <2>2 DEF WellFormed
        <3>2. s.sender = "old" => "old" \in s.creators
            BY <2>2 DEF OldIsNamed, CreatorsCount
        <3> QED
            BY <1>2, <3>1, <3>2
               DEF DefaultLevel, UserLevelRead, CreatorsSeen, PrivilegedSeen
    <2> QED
        BY <2>1, <2>2
<1>6. LevelSeen(s, "new", {}) >= LevelSeen(s, "old", {})
    BY <1>1 DEF NeedsPromotion, Infinite
<1>7. TrueLevel(s, "new") \in 0 .. Infinite
    BY TrueLevelType DEF Users
<1> QED
    BY <1>1, <1>3, <1>4, <1>5, <1>6, <1>7 DEF Infinite

LEMMA LeftRoom ==
    ASSUME TypeInv, MembershipInv, ExecutionInv, KnownInv, FitInv, Next,
           NEW r \in Rooms, Leaves(r)
    PROVE  /\ server[r].new = "join" /\ server[r].history = "shared"
           /\ CreatorsAreRead(server[r]) =>
                 /\ LevelSeen(server[r], "old", {}) # Infinite
                 /\ ~NeedsPromotion(server[r], {})
           /\ \A k \in Keys :
                 account.old.tags[r][k] \in {None, account.new.tags[r][k]}
           /\ IgnoredUsers(account.old) \subseteq IgnoredUsers(account.new)
           /\ \A c \in Contacts :
                 <<c, r>> \in account.old.direct
                    => <<c, r>> \in account.new.direct
<1>1. /\ pc = "leaving" /\ r \in todo /\ r \notin touched
      /\ r \notin ctx.failedRooms
    BY LeavingStep
<1>2. plan.rooms[r].leave /\ ~ctx.globalErrors
    BY <1>1 DEF MembershipInv, OnlyMarkedLeft, KnownInv, StaysOnGlobalError
<1>3. /\ r \in oldJoined /\ plan.errors = {}
      /\ plan.rooms[r].errors \subseteq {"GetAlias"}
      /\ WillJoin(plan, newJoined, r)
    BY <1>2 DEF KnownInv, MarkedClean, MembershipInv, MarkedWillJoin
<1>4. /\ server[r].new = "join" /\ server[r].history = "shared"
      /\ CreatorsAreRead(server[r]) =>
            /\ LevelSeen(server[r], "old", {}) # Infinite
            /\ ~NeedsPromotion(server[r], {})
      /\ \A k \in Keys :
            account.old.tags[r][k] \in {None, account.new.tags[r][k]}
    BY <1>1, <1>3, RoomHandedOver DEF ExecutionInv
<1>5. \A m \in account.old.direct :
         m[1] # "new" /\ m[2] = r => m \in account.new.direct
    BY <1>1, <1>2, <1>3, DataHandedOver DEF ExecutionInv
<1>6. \A c \in Contacts :
         <<c, r>> \in account.old.direct => <<c, r>> \in account.new.direct
    BY <1>5, ContactsAssumption
<1>7. \A k \in IgnoredKeys :
         account.old.ignored[k] \in {None, account.new.ignored[k]}
    BY <1>1, <1>2, <1>3, DataHandedOver DEF ExecutionInv
<1>8. IgnoredUsers(account.old) \subseteq IgnoredUsers(account.new)
    <2>1. /\ account.old.ignored \in IgnoredMaps
          /\ account.new.ignored \in IgnoredMaps
        BY DEF TypeInv, TypeOK, Users, AccountState
    <2>2. account.old.ignored["ignored_users"] = None =>
             account.old.ignored = Empty(IgnoredKeys)
        BY <2>1 DEF IgnoredMaps, IgnoredKeys, Empty
    <2>3. account.new.ignored = Empty(IgnoredKeys) =>
             account.new.ignored["ignored_users"] = None
        BY DEF IgnoredKeys, Empty
    <2> QED
        BY <1>7, <2>2, <2>3 DEF IgnoredUsers, IgnoredKeys
<1> QED
    BY <1>4, <1>6, <1>8

\* With --leave, the old user never leaves a room where it has more power
\* than the new user.
THEOREM LeavingKeepsPower ==
    ASSUME CreatorsOfAllAreRead, NoOldSenders
    PROVE  Spec => LeaveKeepsPower
<1> DEFINE Inv == /\ TypeInv /\ MembershipInv /\ ExecutionInv
                  /\ KnownInv /\ FitInv
           Safe == \A r \in Rooms : Leaves(r) =>
                     TrueLevel(server[r], "new") >= TrueLevel(server[r], "old")
<1>1. Inv /\ ReadInv /\ SenderInv /\ [Next]_vars => [Safe]_vars
    <2> SUFFICES ASSUME Inv, ReadInv, SenderInv, Next, NEW r \in Rooms, Leaves(r)
                 PROVE  TrueLevel(server[r], "new")
                        >= TrueLevel(server[r], "old")
        BY DEF vars
    <2>1. server[r] \in RoomState
        BY DEF TypeInv, TypeOK
    <2> QED
        BY <2>1, LeftRoom, TrueLevels
           DEF ReadInv, SenderInv, ExecutionInv, PlanInv, LevelsMakeSense
<1>2. Spec => []Inv
    BY FitInvariant, PTL
<1>3. Inv => TypeInv
    OBVIOUS
<1> HIDE DEF Inv
<1>4. Spec => [](ReadInv /\ SenderInv)
    BY <1>2, <1>3, InitRead, NextRead, InitSender, NextSender, PTL DEF Spec
<1> QED
    BY <1>1, <1>2, <1>4, PTL DEF Spec, LeaveKeepsPower

\* ... nor one of which the new user lacks the history, a tag or the direct
\* chat, nor any while the new user does not ignore whom it ignores.
THEOREM LeavingKeepsData == Spec => LeaveKeepsData
<1> DEFINE Inv == /\ TypeInv /\ MembershipInv /\ ExecutionInv
                  /\ KnownInv /\ FitInv
           Safe == \A r \in Rooms : Leaves(r) =>
              /\ server[r].history = "shared"
              /\ \A k \in Keys :
                    account.old.tags[r][k] \in {None, account.new.tags[r][k]}
              /\ IgnoredUsers(account.old) \subseteq IgnoredUsers(account.new)
              /\ \A c \in Contacts :
                    <<c, r>> \in account.old.direct
                       => <<c, r>> \in account.new.direct
<1>1. Inv /\ [Next]_vars => [Safe]_vars
    <2> SUFFICES ASSUME Inv, Next PROVE Safe
        BY DEF vars
    <2> QED
        BY LeftRoom
<1> QED
    BY <1>1, FitInvariant, PTL DEF Spec, LeaveKeepsData

-----------------------------------------------------------------------------
(* The migration implements Handover.                                      *)

LEMMA PendingTypes == \A r \in Rooms : Pending(r) \subseteq Parts
BY DEF Pending, PushIf, Parts

\* Pending depends on nothing but these, and not on whether the old user is
\* in the room.
LEMMA PendingFrame ==
    ASSUME NEW r \in Rooms,
           server[r] \in RoomState, server'[r] \in RoomState,
           \/ server'[r] = server[r]
           \/ server'[r] = [server[r] EXCEPT !.old = "leave"],
           \A u \in Users : account'[u].tags[r] = account[u].tags[r],
           \A u \in Users, c \in Contacts :
              <<c, r>> \in account'[u].direct
                 <=> <<c, r>> \in account[u].direct,
           \A u \in Users :
              IgnoredUsers(account'[u]) = IgnoredUsers(account[u])
    PROVE  Pending(r)' = Pending(r)
<1>1. /\ server'[r].new = server[r].new
      /\ server'[r].history = server[r].history
      /\ TrueLevel(server'[r], "new") = TrueLevel(server[r], "new")
      /\ TrueLevel(server'[r], "old") = TrueLevel(server[r], "old")
    BY DEF RoomState, TrueLevel
<1>2. /\ account'.old.tags[r] = account.old.tags[r]
      /\ account'.new.tags[r] = account.new.tags[r]
      /\ IgnoredUsers(account'.old) = IgnoredUsers(account.old)
      /\ IgnoredUsers(account'.new) = IgnoredUsers(account.new)
    BY DEF Users
<1>3. (\E c \in Contacts : <<c, r>> \in account'.old.direct
                                         \ account'.new.direct)
      <=> \E c \in Contacts : <<c, r>> \in account.old.direct
                                            \ account.new.direct
    BY DEF Users
<1> QED
    BY <1>1, <1>2, <1>3 DEF Pending, PushIf

\* What a step of the execution does to an untouched room takes nothing back.
LEMMA PendingShrinks ==
    ASSUME TypeInv, TypeInv', PlanInv, ExecuteStep, NEW r \in Rooms,
           r \notin touched
    PROVE  Pending(r)' \subseteq Pending(r)
<1> DEFINE s == server[r]
           t == server'[r]
<1>0. /\ s \in RoomState /\ t \in RoomState
      /\ plan.rooms[r] \in RoomPlan
      /\ account.old.tags[r] \in JsonMaps
      /\ account.new.direct \subseteq Mapping
    BY DEF TypeInv, TypeOK, Plan, Users, AccountState
<1>1. s.new = "join" => t.new = "join"
    BY <1>0, RoomEffects DEF RoomEffect, RoomState
<1>2. /\ t.history = s.history /\ t.v12 = s.v12
      /\ t.creators = s.creators /\ t.sender = s.sender
      /\ \/ t.unset = s.unset /\ t.pl = s.pl
         \/ /\ plan.rooms[r].power # None /\ ~t.unset
            /\ \E failed : t.pl.old = UserLevelRead(s, "old", failed)
            /\ t.pl.new = plan.rooms[r].power
    BY UntouchedRoom
<1>3. s.pl.new <= t.pl.new
    <2>1. s.pl.new \in 0 .. IntMax /\ IntMax \in Nat
        BY <1>0, LevelsAssumption DEF RoomState, PowerLevels
    <2> QED
        BY <1>2, <2>1 DEF PlanInv, PlanRaises
<1>4. TrueLevel(t, "old") <= TrueLevel(s, "old")
    <2>1. TrueLevel(s, "old") \in 0 .. Infinite /\ IntMax \in Nat
        BY <1>0, TrueLevelType, LevelsAssumption DEF Users
    <2>2. CASE t.unset = s.unset /\ t.pl = s.pl
        <3>1. TrueLevel(t, "old") = TrueLevel(s, "old")
            BY <1>2, <2>2, SameLevels
        <3> QED
            BY <2>1, <3>1 DEF Infinite
    <2> QED
        BY <1>0, <1>2, <2>2, WrittenLevels
<1>5. TrueLevel(s, "new") <= TrueLevel(t, "new")
    <2>1. s.pl.new \in 0 .. IntMax /\ IntMax \in Nat
        BY <1>0, LevelsAssumption DEF RoomState, PowerLevels
    <2> QED
        BY <1>2, <1>3, <2>1 DEF TrueLevel, Infinite
<1>6. /\ TrueLevel(s, "old") \in Int /\ TrueLevel(t, "old") \in Int
      /\ TrueLevel(s, "new") \in Int /\ TrueLevel(t, "new") \in Int
    BY <1>0, TrueLevelType, LevelsAssumption DEF Users, Infinite
<1>7. TrueLevel(t, "new") < TrueLevel(t, "old")
         => TrueLevel(s, "new") < TrueLevel(s, "old")
    BY ONLY <1>4, <1>5, <1>6
<1>8. account'.old = account.old
    BY AccountEffects DEF AccountEffect
<1>9. \A k \in Keys :
         account.old.tags[r][k] \in {None, account.new.tags[r][k]}
            => account'.old.tags[r][k] \in {None, account'.new.tags[r][k]}
    BY <1>8, ExecutionKeepsNewData
<1>10. \A c \in Contacts :
          <<c, r>> \in account.new.direct => <<c, r>> \in account'.new.direct
    BY ExecutionKeepsNewData
<1>11. IgnoredUsers(account.new) \subseteq IgnoredUsers(account'.new)
    BY ExecutionKeepsNewData
<1> HIDE DEF s, t
<1>12. /\ server[r] = s /\ server'[r] = t
    BY DEF s, t
<1> QED
    BY ONLY <1>1, <1>2, <1>7, <1>8, <1>9, <1>10, <1>11, <1>12
       DEF Pending, PushIf

LEMMA StartRefines ==
    ASSUME TypeInv, TypeInv', Start
    PROVE  Promise!Begin
<1>1. UNCHANGED <<server, account>> /\ touched' = {}
    BY DEF Start
<1>2. \A r \in Rooms : Pending(r)' = Pending(r)
    BY <1>1, PendingFrame DEF TypeInv, TypeOK
<1> QED
    BY <1>1, <1>2 DEF Promise!Begin

LEMMA OthersRefine ==
    ASSUME TypeInv, TypeInv', Others
    PROVE  Promise!Contest(touched')
<1>1. touched' = touched \cup touched'
    BY OthersEffects
<1>2. \A r \in Rooms \ touched' : server'[r] = server[r]
    BY OthersEffects
<1>3. ASSUME NEW r \in Rooms \ touched' PROVE Pending(r)' = Pending(r)
    <2>1. \A u \in Users :
             IgnoredUsers(account'[u]) = IgnoredUsers(account[u])
        BY OthersEffects, IgnoredUsersOf DEF TypeInv, TypeOK
    <2>2. \A u \in Users, c \in Contacts :
             <<c, r>> \in account'[u].direct <=> <<c, r>> \in account[u].direct
        BY OthersEffects DEF Mapping
    <2>3. \A u \in Users : account'[u].tags[r] = account[u].tags[r]
        BY OthersEffects
    <2>4. server[r] \in RoomState /\ server'[r] \in RoomState
        BY DEF TypeInv, TypeOK
    <2> QED
        BY <1>2, <2>1, <2>2, <2>3, <2>4, PendingFrame
<1>4. \A r \in Rooms : Pending(r)' \subseteq Parts
    BY DEF Pending, PushIf, Parts
<1> QED
    BY <1>1, <1>2, <1>3, <1>4 DEF Promise!Contest, Promise!Unless

LEMMA LeaveRefines ==
    ASSUME TypeInv, TypeInv', MembershipInv, ExecutionInv, KnownInv, FitInv,
           ReadInv, SenderInv, Next, NEW r \in Rooms, Leaves(r)
    PROVE  Promise!Leave(r)
<1>1. /\ server' = [server EXCEPT ![r].old = "leave"]
      /\ UNCHANGED <<account, touched>>
      /\ server[r].old = "join"
    BY LeavingStep DEF Leaves
<1>2. /\ server \in [Rooms -> RoomState]
      /\ \A x \in Rooms : server[x] \in RoomState /\ server'[x] \in RoomState
    BY DEF TypeInv, TypeOK
<1>3. \A x \in Rooms : server'[x] = IF x = r
                                    THEN [server[r] EXCEPT !.old = "leave"]
                                    ELSE server[x]
    BY <1>1, <1>2
<1>4. \A x \in Rooms : Pending(x)' = Pending(x)
    BY <1>1, <1>2, <1>3, PendingFrame
<1>5. Pending(r) = {}
    <2>1. TrueLevel(server[r], "new") >= TrueLevel(server[r], "old")
        BY <1>2, LeftRoom, TrueLevels
           DEF ReadInv, SenderInv, ExecutionInv, PlanInv, LevelsMakeSense
    <2>2. /\ TrueLevel(server[r], "new") \in Int
          /\ TrueLevel(server[r], "old") \in Int
        BY <1>2, TrueLevelType, LevelsAssumption DEF Users, Infinite
    <2>3. ~(TrueLevel(server[r], "new") < TrueLevel(server[r], "old"))
        BY ONLY <2>1, <2>2
    <2> QED
        BY <2>3, LeftRoom DEF Pending, PushIf
<1>6. {x \in Rooms : server'[x].old = "join"}
      = {x \in Rooms : server[x].old = "join"} \ {r}
    BY <1>1, <1>2, <1>3 DEF RoomState
<1> QED
    BY <1>1, <1>4, <1>5, <1>6 DEF Promise!Leave

LEMMA ExecutionRefines ==
    ASSUME TypeInv, TypeInv', PlanInv, ExecuteStep,
           ~\E r \in Rooms : Leaves(r)
    PROVE  Promise!HandOver
<1>1. UNCHANGED touched
    BY ExecutionFrame
<1>2. ASSUME NEW r \in Rooms \ touched
      PROVE  server'[r].old = server[r].old
    <2>1. server[r] \in RoomState /\ RoomEffect(r)
        BY RoomEffects DEF TypeInv, TypeOK
    <2>2. ~(/\ pc = "leaving" /\ server[r].old = "join"
            /\ server'[r] = [server[r] EXCEPT !.old = "leave"])
        BY <1>1, <2>1 DEF Leaves, RoomState
    <2> QED
        BY ONLY <2>1, <2>2 DEF RoomEffect, RoomState
<1>3. \A r \in Rooms \ touched : Pending(r)' \subseteq Pending(r)
    BY PendingShrinks
<1>4. \A r \in Rooms : Pending(r)' \subseteq Parts
    BY DEF Pending, PushIf, Parts
<1> QED
    BY <1>1, <1>2, <1>3, <1>4 DEF Promise!HandOver, Promise!Unless

LEMMA InitRefines == Init => Promise!Init
BY PendingTypes DEF Init, Promise!Init

LEMMA NextRefines ==
    TypeInv /\ MembershipInv /\ ExecutionInv /\ KnownInv /\ FitInv
    /\ ReadInv /\ SenderInv /\ [Next]_vars
    => [Promise!Next]_(Promise!vars)
<1> SUFFICES ASSUME TypeInv, MembershipInv, ExecutionInv, KnownInv, FitInv,
                    ReadInv, SenderInv, [Next]_vars
             PROVE  Promise!Next \/ UNCHANGED Promise!vars
    OBVIOUS
<1>0. TypeInv'
    BY NextType
<1>1. CASE UNCHANGED <<server, account, touched>>
    <2>1. \A r \in Rooms : Pending(r)' = Pending(r)
        BY <1>0, <1>1, PendingFrame DEF TypeInv, TypeOK
    <2> QED
        BY <1>1, <2>1 DEF Promise!vars
<1>2. CASE Next /\ \E r \in Rooms : Leaves(r)
    BY <1>0, <1>2, LeaveRefines DEF Promise!Next
<1>3. CASE ExecuteStep /\ ~\E r \in Rooms : Leaves(r)
    BY <1>0, <1>3, ExecutionRefines DEF Promise!Next, ExecutionInv
<1>4. CASE Start
    BY <1>0, <1>4, StartRefines DEF Promise!Next
<1>5. CASE Others
    <2>1. touched' \subseteq Rooms
        BY <1>0 DEF TypeInv, TypeOK
    <2> QED
        BY <1>0, <1>5, <2>1, OthersRefine DEF Promise!Next
<1>6. Next => \/ ExecuteStep \/ Start \/ Others
              \/ UNCHANGED <<server, account, touched>>
    BY DEF Next, Cancel, Confirm, Restart, PlanStep, ReadOldRooms,
           ReadNewRooms, PlanNextRoom, PlanGlobalData, ReadAliases, Sync,
           SyncSees, SyncFails
<1> QED
    BY <1>1, <1>2, <1>3, <1>4, <1>5, <1>6 DEF vars

\* Every step of the program hands something over, or leaves a room of which
\* nothing is pending, or changes nothing of the abstract state: for any
\* rooms and accounts, any faults, any interference and any number of runs.
THEOREM MigrationHandsOver ==
    ASSUME CreatorsOfAllAreRead, NoOldSenders
    PROVE  Spec => HandoverSpec
<1> DEFINE Inv == /\ TypeInv /\ MembershipInv /\ ExecutionInv
                  /\ KnownInv /\ FitInv
<1>1. Spec => []Inv
    BY FitInvariant, PTL
<1>2. Inv /\ ReadInv /\ SenderInv /\ [Next]_vars => [Promise!Next]_(Promise!vars)
    BY NextRefines
<1>3. Inv => TypeInv
    OBVIOUS
<1> HIDE DEF Inv
<1>4. Spec => [](ReadInv /\ SenderInv)
    BY <1>1, <1>3, InitRead, NextRead, InitSender, NextSender, PTL DEF Spec
<1> QED
    BY <1>1, <1>2, <1>4, InitRefines, PTL DEF Spec, HandoverSpec, Promise!Spec
=============================================================================
