-------------------------- MODULE ExecutionProofs --------------------------
(***************************************************************************)
(* What the execution does with the plan, for any set of rooms and any     *)
(* amount of faults, interference and restarts: it takes nothing from the  *)
(* new user, invites no user twice, and ends in success only when all of   *)
(* the plan took effect.  The invariant is ExecutionInv.                   *)
(***************************************************************************)
EXTENDS MigrationInvariants, MigrationProofs

USE DEF Planning, Executing, RoomSteps, Ended, Faulty, Outcomes

-----------------------------------------------------------------------------
(* What one step of the execution can do to a room and to the account data *)
(* of the users: the requests of trait WriteState, as they take effect.    *)

\* An invite, a join, the power levels or a leave; or nothing.
RoomEffect(r) ==
    \/ server'[r] = server[r]
    \/ /\ pc = "invite" /\ r = cur
       /\ server[r].new \in {"leave", "invite"}
       /\ server'[r] = [server[r] EXCEPT !.new = "invite"]
    \/ /\ pc = "join" /\ r = cur
       /\ server'[r] = [server[r] EXCEPT !.new = "join"]
    \/ /\ pc = "writePower" /\ r = cur
       /\ PowerLevelsAccepted(server[r], PowerContent(snapshot, plan.rooms[r]))
       /\ server'[r] = [server[r] EXCEPT
                          !.pl = PowerContent(snapshot, plan.rooms[r]),
                          !.unset = FALSE]
    \/ /\ pc = "leaving" /\ r \in todo \ ctx.failedRooms
       /\ server[r].old = "join"
       /\ server'[r] = [server[r] EXCEPT !.old = "leave"]

\* Only the new user's data is written, and only with what is planned.
AccountEffect ==
    /\ account'.old = account.old
    /\ \A r \in Rooms :
          \/ account'.new.tags[r] = account.new.tags[r]
          \/ /\ pc = "tags" /\ r = cur
             /\ account'.new.tags[r] = plan.rooms[r].tags
    /\ \/ account'.new.direct = account.new.direct
       \/ pc = "direct" /\ account'.new.direct = plan.direct
    /\ \/ account'.new.ignored = account.new.ignored
       \/ pc = "ignored" /\ account'.new.ignored = plan.ignored

\* The steps a room's plan leads to, and what taking or skipping each says.
LEMMA StepReasons ==
    ASSUME NEW p \in RoomPlan
    PROVE  /\ FromTags(p) \in {"tags", "nextRoom"}
           /\ FromTags(p) = "nextRoom" => p.tags = None
           /\ FromPower(p) \in {"readPower", "tags", "nextRoom"}
           /\ FromPower(p) # "readPower" => p.power = None
           /\ FromPower(p) = "nextRoom" => p.tags = None
           /\ FromJoin(p) \in {"join", "readPower", "tags", "nextRoom"}
           /\ FromJoin(p) = "join" <=> p.join
           /\ FromJoin(p) \in {"tags", "nextRoom"} => p.power = None
           /\ FromJoin(p) = "nextRoom" => p.tags = None
           /\ FromInvite(p) \in {"invite", "join", "readPower", "tags",
                                 "nextRoom"}
           /\ FromInvite(p) = "invite" => p.invite
           /\ FromInvite(p) = "join" => p.join
           /\ FromInvite(p) \in {"readPower", "tags", "nextRoom"} => ~p.join
           /\ FromInvite(p) \in {"tags", "nextRoom"} => p.power = None
           /\ FromInvite(p) = "nextRoom" => p.tags = None
BY DEF FromTags, FromPower, FromJoin, FromInvite, RoomPlan

\* The execution does not change its plan.
LEMMA ExecutionFrame ==
    ASSUME ExecuteStep
    PROVE  UNCHANGED <<leave, oldJoined, newJoined, plan, touched>>
BY DEF ExecuteStep, NextRoom, StartSync, Await, ReadPower, Invite, Join,
       WritePower, SetTags, SetDirect, SetIgnored, LeaveRoom, RoomsDone,
       SkipLeave, Finish, tool

\* AccountEffect is all that a step does to the account data.
LEMMA AccountEffects ==
    ASSUME TypeInv, ExecuteStep
    PROVE  AccountEffect
<1> USE DEF AccountEffect
<1>0. account \in [Users -> AccountState]
    BY DEF TypeInv, TypeOK
<1>1. CASE UNCHANGED account
    BY <1>1
<1>2. CASE \E outcome \in Outcomes : SetTags(outcome)
    <2>1. cur \in Rooms
        BY <1>2 DEF SetTags, TypeInv, TypeOK
    <2> QED
        BY <1>0, <1>2, <2>1 DEF SetTags, Users, AccountState
<1>3. CASE \E outcome \in Outcomes : SetDirect(outcome)
    BY <1>0, <1>3 DEF SetDirect, Users, AccountState
<1>4. CASE \E outcome \in Outcomes : SetIgnored(outcome)
    BY <1>0, <1>4 DEF SetIgnored, Users, AccountState
<1> QED
    BY <1>1, <1>2, <1>3, <1>4
       DEF ExecuteStep, NextRoom, StartSync, Await, ReadPower, Invite, Join,
           WritePower, LeaveRoom, RoomsDone, SkipLeave, Finish

\* RoomEffect is all that a step does to a room.
LEMMA RoomEffects ==
    ASSUME TypeInv, ExecuteStep, NEW r \in Rooms
    PROVE  RoomEffect(r)
<1> USE DEF RoomEffect
<1>0. server \in [Rooms -> RoomState]
    BY DEF TypeInv, TypeOK
<1>1. CASE UNCHANGED server
    BY <1>1
<1>2. CASE \E outcome \in Outcomes : Invite(outcome)
    BY <1>0, <1>2 DEF Invite, Request, InviteAccepted, UpdateRoom, Applied
<1>3. CASE \E outcome \in Outcomes : Join(outcome)
    BY <1>0, <1>3 DEF Join, UpdateRoom
<1>4. CASE \E outcome \in Outcomes : WritePower(outcome)
    BY <1>0, <1>4 DEF WritePower, Request, UpdateRoom, Applied
<1>5. CASE \E outcome \in Outcomes : LeaveRoom(outcome)
    <2> PICK outcome \in Outcomes, x \in First(todo) :
            /\ pc = "leaving"
            /\ ~SkipsLeave(x)
            /\ Request(outcome, LeaveAccepted(server[x]))
            /\ server' = IF Applied(outcome)
                         THEN [server EXCEPT ![x].old = "leave"]
                         ELSE server
        BY <1>5 DEF LeaveRoom
    <2>1. x \in todo \ ctx.failedRooms
        BY FirstIsMember DEF SkipsLeave
    <2> QED
        BY <1>0, <2>1 DEF Request, LeaveAccepted, Applied
<1> QED
    BY <1>1, <1>2, <1>3, <1>4, <1>5
       DEF ExecuteStep, NextRoom, StartSync, Await, ReadPower, SetTags,
           SetDirect, SetIgnored, RoomsDone, SkipLeave, Finish

\* Where a step of the execution leads, and from where.
LEMMA ExecutionControl ==
    ASSUME TypeInv, ExecuteStep
    PROVE  /\ pc \in Executing
           /\ pc' \notin Planning
           /\ pc' \in RoomSteps =>
                 /\ pc \in RoomSteps
                 /\ IF pc = "nextRoom"
                    THEN cur' \in todo /\ todo' = todo \ {cur'}
                    ELSE UNCHANGED <<cur, todo>>
           /\ pc' = "invite" => pc = "nextRoom" /\ plan.rooms[cur'].invite
           /\ pc' = "join" => plan.rooms[cur'].join
           /\ pc' = "writePower" =>
                 /\ pc = "readPower" /\ UNCHANGED <<server, cur>>
                 /\ \E failed \in SUBSET {"create", "version"} :
                       snapshot' = LevelsRead(server[cur], failed)
<1>0. \A r \in Rooms : plan.rooms[r] \in RoomPlan
    BY DEF TypeInv, TypeOK, Plan
<1>c. pc \in RoomSteps \ {"nextRoom"} => cur \in Rooms
    BY DEF TypeInv, TypeOK
<1>1. CASE NextRoom
    <2>1. cur' \in todo /\ cur' \in Rooms
        BY <1>1, FirstIsMember DEF NextRoom, TypeInv, TypeOK
    <2> QED
        BY <1>0, <1>1, <2>1, StepReasons DEF NextRoom
<1>2. CASE StartSync
    BY <1>2 DEF StartSync, tool
<1>3. CASE Await
    BY <1>0, <1>c, <1>3, StepReasons DEF Await
<1>4. CASE ReadPower
    <2>1. pc' = "writePower" =>
             \E failed \in SUBSET {"create", "version"} :
                snapshot' = LevelsRead(server[cur], failed)
        BY <1>0, <1>c, <1>4, StepReasons DEF ReadPower, Outages
    <2> QED
        BY <1>0, <1>c, <1>4, <2>1, StepReasons DEF ReadPower
<1>5. CASE \E outcome \in Outcomes : Invite(outcome)
    BY <1>5 DEF Invite, OrGiveUp
<1>6. CASE \E outcome \in Outcomes : Join(outcome)
    BY <1>0, <1>c, <1>6, StepReasons DEF Join, OrGiveUp
<1>7. CASE \E outcome \in Outcomes : WritePower(outcome)
    BY <1>0, <1>c, <1>7, StepReasons DEF WritePower
<1>8. CASE \E outcome \in Outcomes : SetTags(outcome)
    BY <1>8 DEF SetTags
<1>9. CASE \E outcome \in Outcomes : \/ SetDirect(outcome)
                                     \/ SetIgnored(outcome)
                                     \/ LeaveRoom(outcome)
    BY <1>9 DEF SetDirect, SetIgnored, LeaveRoom, FromIgnored
<1>10. CASE RoomsDone \/ SkipLeave \/ Finish
    BY <1>10 DEF RoomsDone, SkipLeave, Finish, FromDirect, FromIgnored
<1> QED
    BY <1>1, <1>2, <1>3, <1>4, <1>5, <1>6, <1>7, <1>8, <1>9, <1>10
       DEF ExecuteStep

-----------------------------------------------------------------------------
(* The plan takes nothing from the new user, and what the planner knew of  *)
(* an untouched room stays true: PlanInv.                                  *)

\* An invocation has no plan before it begins.
LEMMA InitPlan == Init => PlanInv
BY ProfilesAssumption
   DEF Init, PlanInv, PlanRaises, PlanKeepsTags, PlanKeepsDirect,
       PlanKeepsIgnored, SnapshotFresh, LevelsMakeSense, AbsentKnown,
       VisitedOnce, InvitesNeeded, NoRedundantInvite, EmptyPlan,
       DefaultRoomPlan

\* The steps of the planner that add to the plan, as PlanNextRoom,
\* PlanGlobalData and ReadAliases leave it.
LEMMA PlannedRoomOnly ==
    ASSUME TypeInv, PlanNextRoom
    PROVE  \E failed \in Outages(RoomReads), r \in First(todo) :
              /\ r \in Rooms
              /\ plan'.rooms[r] =
                   PlanRoom(server[r], account.old.tags[r],
                            account.new.tags[r], r \in newJoined, failed)
              /\ \A x \in Rooms \ {r} : plan'.rooms[x] = plan.rooms[x]
              /\ UNCHANGED <<plan.direct, plan.ignored, plan.errors>>
              /\ todo' = todo \ {r}
<1> PICK failed \in Outages(RoomReads), r \in First(todo) :
        /\ plan' = [plan EXCEPT !.rooms[r] =
             PlanRoom(server[r], account.old.tags[r],
                      account.new.tags[r], r \in newJoined, failed)]
        /\ todo' = todo \ {r}
    BY DEF PlanNextRoom
<1>1. r \in Rooms
    BY FirstIsMember DEF TypeInv, TypeOK
<1> QED
    BY <1>1 DEF TypeInv, TypeOK, Plan

LEMMA PlannedGlobalOnly ==
    ASSUME TypeInv, PlanGlobalData
    PROVE  \E failed \in Outages(GlobalReads) :
              LET direct == PlanDirect(plan, newJoined, account.old.direct,
                                       account.new.direct, failed)
                  ignored == PlanIgnoredUsers(direct, account.old.ignored,
                                              account.new.ignored, failed)
              IN  /\ plan'.direct = direct.direct
                  /\ plan'.ignored = ignored.ignored
                  /\ plan'.errors = ignored.errors
                  /\ direct.errors \subseteq ignored.errors
                  /\ \A r \in Rooms :
                        plan'.rooms[r] = [plan.rooms[r] EXCEPT !.leave =
                           /\ leave /\ r \in oldJoined
                           /\ ignored.errors = {} /\ plan.rooms[r].errors = {}]
<1> PICK failed \in Outages(GlobalReads) :
        plan' = PlanLeaves(
              PlanIgnoredUsers(
                 PlanDirect(plan, newJoined, account.old.direct,
                            account.new.direct, failed),
                 account.old.ignored, account.new.ignored, failed),
              leave, oldJoined)
    BY DEF PlanGlobalData
<1> DEFINE direct == PlanDirect(plan, newJoined, account.old.direct,
                                account.new.direct, failed)
           ignored == PlanIgnoredUsers(direct, account.old.ignored,
                                       account.new.ignored, failed)
<1>0. /\ account.old.direct \in SUBSET Mapping
      /\ account.new.direct \in SUBSET Mapping
      /\ account.old.ignored \in IgnoredMaps
      /\ account.new.ignored \in IgnoredMaps
    BY DEF TypeInv, TypeOK, Users, AccountState
<1>1. plan \in Plan /\ direct \in Plan /\ ignored \in Plan
      /\ ignored.rooms = plan.rooms
    BY <1>0, PlanDirectType, PlanIgnoredUsersType DEF TypeInv, TypeOK
<1>2. ignored.direct = direct.direct
    BY <1>1, PlanIgnoredUsersKeeps
<1>3. direct.errors \subseteq ignored.errors
    BY <1>1 DEF PlanIgnoredUsers, Plan
<1>4. /\ plan'.direct = direct.direct /\ plan'.ignored = ignored.ignored
      /\ plan'.errors = ignored.errors
      /\ \A r \in Rooms :
            plan'.rooms[r] = [plan.rooms[r] EXCEPT !.leave =
                                 leave /\ r \in oldJoined
                                       /\ MayLeave(ignored, r)]
    BY <1>1, <1>2, PlanLeavesKeeps
<1>5. \A r \in Rooms : MayLeave(ignored, r)
                       = (ignored.errors = {} /\ plan.rooms[r].errors = {})
    BY <1>1 DEF MayLeave
<1>6. \A r \in Rooms :
         plan'.rooms[r] = [plan.rooms[r] EXCEPT !.leave =
            /\ leave /\ r \in oldJoined
            /\ ignored.errors = {} /\ plan.rooms[r].errors = {}]
    BY <1>4, <1>5
<1> HIDE DEF direct, ignored
<1>7. /\ plan'.direct = direct.direct
      /\ plan'.ignored = ignored.ignored
      /\ plan'.errors = ignored.errors
      /\ direct.errors \subseteq ignored.errors
      /\ \A r \in Rooms :
            plan'.rooms[r] = [plan.rooms[r] EXCEPT !.leave =
               /\ leave /\ r \in oldJoined
               /\ ignored.errors = {} /\ plan.rooms[r].errors = {}]
    BY <1>3, <1>4, <1>6
<1> QED
    BY <1>7 DEF direct, ignored

LEMMA ReadAliasesOnly ==
    ASSUME TypeInv, ReadAliases
    PROVE  /\ UNCHANGED <<plan.direct, plan.ignored, plan.errors>>
           /\ \A r \in Rooms :
                 /\ UNCHANGED <<plan.rooms[r].invite, plan.rooms[r].join,
                                plan.rooms[r].leave, plan.rooms[r].power,
                                plan.rooms[r].tags>>
                 /\ plan'.rooms[r].errors
                       \in {plan.rooms[r].errors,
                            plan.rooms[r].errors \cup {"GetAlias"}}
<1>1. plan \in Plan /\ \A r \in Rooms : plan.rooms[r] \in RoomPlan
    BY DEF TypeInv, TypeOK, Plan
<1>2. \E failed : plan' = GetAliases(plan, failed)
    BY DEF ReadAliases
<1> QED
    BY <1>1, <1>2, GetAliasesKeeps DEF RoomPlan

\* What one planned room adds to the plan.
LEMMA PlannedRoom ==
    ASSUME TypeInv, PlanInv, PlanNextRoom
    PROVE  PlanInv'
<1> PICK failed \in Outages(RoomReads), r \in First(todo) :
        /\ r \in Rooms
        /\ plan'.rooms[r] =
             PlanRoom(server[r], account.old.tags[r],
                      account.new.tags[r], r \in newJoined, failed)
        /\ \A x \in Rooms \ {r} : plan'.rooms[x] = plan.rooms[x]
        /\ UNCHANGED <<plan.direct, plan.ignored, plan.errors>>
        /\ todo' = todo \ {r}
    BY PlannedRoomOnly
<1> DEFINE q == PlanRoom(server[r], account.old.tags[r],
                         account.new.tags[r], r \in newJoined, failed)
<1>0. server[r] \in RoomState
    BY DEF TypeInv, TypeOK
<1>1. /\ pc = "planRooms"
      /\ UNCHANGED <<server, account, pc, newJoined, cur, snapshot, touched>>
    BY DEF PlanNextRoom
<1>2. /\ plan'.rooms[r] = q
      /\ \A x \in Rooms \ {r} : plan'.rooms[x] = plan.rooms[x]
      /\ plan'.direct = plan.direct /\ plan'.ignored = plan.ignored
    OBVIOUS
<1>3. PlanRaises'
    <2>1. q.power # None => server[r].pl.new <= q.power
        BY <1>0, PlanRoomParts, PowerToSetRaises DEF PlanInv, LevelsMakeSense
    <2> QED
        BY <1>1, <1>2, <2>1 DEF PlanInv, PlanRaises
<1>4. PlanKeepsTags'
    <2>1. DOMAIN account.new.tags[r] = Keys
        BY <1>0 DEF TypeInv, TypeOK, Users, AccountState, JsonMaps
    <2>2. q.tags # None =>
             \A k \in Keys : account.new.tags[r][k] # None =>
                q.tags[k] = account.new.tags[r][k]
        BY <2>1, PlanRoomParts, MergeKeepsNew
    <2> QED
        BY <1>1, <1>2, <2>2 DEF PlanInv, PlanKeepsTags
<1>5. InvitesNeeded'
    <2>1. r \notin touched /\ q.invite => server[r].new = "leave"
        BY <1>0, <1>1, PlanRoomInvites DEF PlanInv, AbsentKnown
    <2> QED
        BY <1>1, <1>2, <2>1 DEF PlanInv, InvitesNeeded
<1>6. /\ PlanKeepsDirect' /\ PlanKeepsIgnored' /\ SnapshotFresh'
      /\ LevelsMakeSense' /\ AbsentKnown' /\ VisitedOnce'
      /\ NoRedundantInvite'
    BY <1>1, <1>2 DEF PlanInv, PlanKeepsDirect, PlanKeepsIgnored,
       SnapshotFresh, LevelsMakeSense, AbsentKnown, VisitedOnce,
       NoRedundantInvite
<1> QED
    BY <1>3, <1>4, <1>5, <1>6 DEF PlanInv

\* What planning the global account data adds to it.
LEMMA PlannedGlobalData ==
    ASSUME TypeInv, PlanInv, PlanGlobalData
    PROVE  PlanInv'
<1> DEFINE D(failed) == PlanDirect(plan, newJoined, account.old.direct,
                                   account.new.direct, failed)
           I(failed) == PlanIgnoredUsers(D(failed), account.old.ignored,
                                         account.new.ignored, failed)
<1> PICK failed \in Outages(GlobalReads) :
        /\ plan'.direct = D(failed).direct
        /\ plan'.ignored = I(failed).ignored
        /\ \A r \in Rooms :
              plan'.rooms[r] = [plan.rooms[r] EXCEPT !.leave =
                 /\ leave /\ r \in oldJoined
                 /\ I(failed).errors = {} /\ plan.rooms[r].errors = {}]
    BY PlannedGlobalOnly
<1>0. /\ account.old.direct \in SUBSET Mapping
      /\ account.new.direct \in SUBSET Mapping
      /\ account.old.ignored \in IgnoredMaps
      /\ account.new.ignored \in IgnoredMaps
    BY DEF TypeInv, TypeOK, Users, AccountState
<1>1. /\ pc = "planRooms" /\ pc' = "planGlobal"
      /\ UNCHANGED <<server, account, newJoined, todo, cur, snapshot, touched>>
    BY DEF PlanGlobalData
<1>2. plan \in Plan /\ D(failed) \in Plan
      /\ \A r \in Rooms : plan.rooms[r] \in RoomPlan
    BY <1>0, PlanDirectType DEF TypeInv, TypeOK, Plan
<1>3. /\ plan'.direct = plan.direct \/ account.new.direct \subseteq plan'.direct
      /\ plan'.ignored \in
            {plan.ignored, MergeResult(account.old.ignored, account.new.ignored)}
    BY <1>2, PlanDirectKeeps, PlanIgnoredUsersKeeps
<1>4. \A r \in Rooms :
         LET p == plan.rooms[r]  q == plan'.rooms[r] IN
         q.power = p.power /\ q.tags = p.tags /\ q.invite = p.invite
    BY <1>2 DEF RoomPlan
<1>5. PlanRaises' /\ PlanKeepsTags' /\ InvitesNeeded'
    BY <1>1, <1>4 DEF PlanInv, PlanRaises, PlanKeepsTags, InvitesNeeded
<1>6. PlanKeepsDirect'
    BY <1>1, <1>3 DEF PlanInv, PlanKeepsDirect
<1>7. PlanKeepsIgnored'
    BY <1>0, <1>1, <1>3, IgnoredMergeOfNone
       DEF PlanInv, PlanKeepsIgnored, IgnoredUsers
<1>8. /\ SnapshotFresh' /\ LevelsMakeSense' /\ AbsentKnown'
      /\ VisitedOnce' /\ NoRedundantInvite'
    BY <1>1 DEF PlanInv, SnapshotFresh, LevelsMakeSense, AbsentKnown,
                VisitedOnce, NoRedundantInvite
<1> QED
    BY <1>5, <1>6, <1>7, <1>8 DEF PlanInv

LEMMA PlanningPlan ==
    ASSUME TypeInv, PlanInv, Start \/ Cancel \/ Confirm \/ PlanStep
    PROVE  PlanInv'
<1> USE DEF PlanInv, PlanRaises, PlanKeepsTags, PlanKeepsDirect,
            PlanKeepsIgnored, SnapshotFresh, LevelsMakeSense, AbsentKnown,
            VisitedOnce, InvitesNeeded, NoRedundantInvite
<1>1. CASE Start
    BY <1>1 DEF Start, EmptyPlan, DefaultRoomPlan
<1>2. CASE Cancel
    BY <1>2 DEF Cancel
<1>3. CASE Confirm
    BY <1>3 DEF Confirm
<1>4. CASE ReadOldRooms
    BY <1>4 DEF ReadOldRooms
<1>5. CASE ReadNewRooms
    BY <1>5 DEF ReadNewRooms
<1>6. CASE PlanNextRoom \/ PlanGlobalData
    BY <1>6, PlannedRoom, PlannedGlobalData
<1>7. CASE ReadAliases
    BY <1>7, ReadAliasesOnly DEF ReadAliases
<1> QED
    BY <1>1, <1>2, <1>3, <1>4, <1>5, <1>6, <1>7 DEF PlanStep

\* Others cannot change who made a room, and the levels only by setting some.
LEMMA InterferenceLevels ==
    ASSUME NEW s \in RoomState, NEW t \in Interference(s)
    PROVE  /\ t.v12 = s.v12 /\ t.creators = s.creators /\ t.sender = s.sender
           /\ t.unset => s.unset /\ t.pl = s.pl
BY DEF Interference, RoomState

LEMMA OthersLevels ==
    ASSUME TypeInv, Others, NEW r \in Rooms
    PROVE  /\ server'[r].v12 = server[r].v12
           /\ server'[r].creators = server[r].creators
           /\ server'[r].sender = server[r].sender
           /\ server'[r].unset => /\ server[r].unset
                                  /\ server'[r].pl = server[r].pl
<1>0. server \in [Rooms -> RoomState]
    BY DEF TypeInv, TypeOK
<1>1. server'[r] = server[r] \/ server'[r] \in Interference(server[r])
    BY <1>0 DEF Others, Meddle, MeddleRoomData, MeddleIgnored
<1> QED
    BY <1>0, <1>1, InterferenceLevels

\* The execution changes the levels only by setting them.
LEMMA EffectOnLevels ==
    ASSUME NEW r \in Rooms, server[r] \in RoomState, RoomEffect(r)
    PROVE  /\ server'[r].v12 = server[r].v12
           /\ server'[r].creators = server[r].creators
           /\ server'[r].sender = server[r].sender
           /\ \/ UNCHANGED <<server[r].unset, server[r].pl>>
              \/ /\ pc = "writePower" /\ r = cur
                 /\ ~server'[r].unset
                 /\ server'[r].pl = PowerContent(snapshot, plan.rooms[r])
BY DEF RoomEffect, RoomState

\* Others change nothing but what concerns the rooms that are then touched.
LEMMA OthersEffects ==
    ASSUME TypeInv, Others
    PROVE  /\ UNCHANGED <<pc, leave, oldJoined, newJoined, plan, todo, cur,
                          snapshot, ctx>>
           /\ touched \subseteq touched' /\ ~settled'
           /\ \A r \in Rooms \ touched' :
                 /\ server'[r] = server[r]
                 /\ \A u \in Users : account'[u].tags[r] = account[u].tags[r]
           /\ \A u \in Users, m \in Mapping : m[2] \notin touched' =>
                 (m \in account'[u].direct <=> m \in account[u].direct)
           /\ touched' # Rooms =>
                 \A u \in Users : account'[u].ignored = account[u].ignored
<1>0. /\ server \in [Rooms -> RoomState] /\ account \in [Users -> AccountState]
      /\ touched \subseteq Rooms
    BY DEF TypeInv, TypeOK
<1>1. \A kind, R : Disturb(kind, R) =>
         /\ UNCHANGED <<pc, leave, oldJoined, newJoined, plan, todo, cur,
                        snapshot, ctx>>
         /\ touched' = touched \cup R /\ ~settled'
    BY DEF Disturb, tool
<1>2. CASE \E r \in Rooms : Meddle(r)
    BY <1>0, <1>1, <1>2 DEF Meddle
<1>3. CASE \E u \in Users, r \in Rooms : MeddleRoomData(u, r)
    <2> PICK u \in Users, r \in Rooms : MeddleRoomData(u, r)
        BY <1>3
    <2>1. Disturb("accounts", {r}) /\ UNCHANGED server
        BY DEF MeddleRoomData
    <2> PICK a \in RoomDataInterference(account[u], r) :
            account' = [account EXCEPT ![u] = a]
        BY DEF MeddleRoomData
    <2>2. \A v \in Users : account'[v] = IF v = u THEN a ELSE account[v]
        BY <1>0
    <2>3. /\ \A x \in Rooms \ {r} : a.tags[x] = account[u].tags[x]
          /\ \A m \in Mapping : m[2] # r =>
                (m \in a.direct <=> m \in account[u].direct)
          /\ a.ignored = account[u].ignored
        <3>1. account[u] \in AccountState
            BY <1>0
        <3>2. CASE \E tags \in JsonMaps : a = [account[u] EXCEPT !.tags[r] = tags]
            BY <3>1, <3>2 DEF AccountState
        <3>3. CASE \E chats \in SUBSET {m \in Mapping : m[2] = r} :
                 a = [account[u] EXCEPT
                        !.direct = {m \in @ : m[2] # r} \cup chats]
            BY <3>1, <3>3 DEF AccountState
        <3> QED
            BY <3>2, <3>3 DEF RoomDataInterference
    <2> QED
        BY <1>0, <1>1, <2>1, <2>2, <2>3
<1>4. CASE \E u \in Users : MeddleIgnored(u)
    <2>1. touched' = Rooms
        BY <1>0, <1>1, <1>4 DEF MeddleIgnored
    <2>2. \A u \in Users : /\ account'[u].tags = account[u].tags
                           /\ account'[u].direct = account[u].direct
        BY <1>0, <1>4 DEF MeddleIgnored, AccountState
    <2> QED
        BY <1>0, <1>1, <1>4, <2>1, <2>2 DEF MeddleIgnored
<1> QED
    BY <1>2, <1>3, <1>4 DEF Others

\* Whom a user ignores depends on nothing else of its account data.
LEMMA IgnoredUsersOf ==
    ASSUME NEW a \in AccountState, NEW b \in AccountState, NEW m
    PROVE  /\ a.ignored = b.ignored => IgnoredUsers(a) = IgnoredUsers(b)
           /\ IgnoredUsers([a EXCEPT !.ignored = m])
              = IgnoredUsers([b EXCEPT !.ignored = m])
BY DEF AccountState, IgnoredUsers

LEMMA EnvironmentPlan ==
    ASSUME TypeInv, PlanInv, Restart \/ Sync \/ SyncFails \/ Others, TypeInv'
    PROVE  PlanInv'
<1> USE DEF PlanInv, PlanRaises, PlanKeepsTags, PlanKeepsDirect,
            PlanKeepsIgnored, SnapshotFresh, LevelsMakeSense, AbsentKnown,
            VisitedOnce, InvitesNeeded, NoRedundantInvite
<1>1. CASE Restart
    BY <1>1 DEF Restart
<1>2. CASE Sync
    BY <1>2 DEF Sync, SyncSees, tool
<1>3. CASE SyncFails
    BY <1>3 DEF SyncFails, tool
<1>4. CASE Others
    <2> USE <1>4, OthersEffects DEF Users
    <2>0. /\ account.new \in AccountState /\ account'.new \in AccountState
          /\ account.new.direct \subseteq Mapping
          /\ account'.new.direct \subseteq Mapping
          /\ touched \subseteq Rooms /\ touched' \subseteq Rooms
          /\ cur \in Rooms \/ pc \notin {"writePower", "invite"}
        BY DEF TypeInv, TypeOK, AccountState
    <2>1. PlanKeepsTags' /\ InvitesNeeded' /\ AbsentKnown'
        OBVIOUS
    <2>r. PlanRaises'
        <3> SUFFICES ASSUME NEW r \in Rooms,
                            r \notin touched' \/ server'[r].unset,
                            plan.rooms[r].power # None
                     PROVE  server'[r].pl.new <= plan.rooms[r].power
            OBVIOUS
        <3>1. CASE r \notin touched'
            BY <3>1
        <3>2. CASE server'[r].unset
            BY <3>2, OthersLevels
        <3> QED
            BY <3>1, <3>2
    <2>l. LevelsMakeSense'
        <3> TAKE r \in Rooms
        <3>1. WellFormed(server[r])
            OBVIOUS
        <3> QED
            BY <3>1, OthersLevels DEF WellFormed, DefaultLevel
    <2>2. PlanKeepsDirect'
        BY <2>0
    <2>3. PlanKeepsIgnored'
        <3> SUFFICES ASSUME plan.ignored # None, touched' # Rooms
                     PROVE  IgnoredUsers(account'.new)
                            \subseteq IgnoredUsers([account'.new EXCEPT
                                                      !.ignored = plan.ignored])
            OBVIOUS
        <3>1. touched # Rooms /\ account'.new.ignored = account.new.ignored
            BY <2>0
        <3>2. IgnoredUsers(account.new)
              \subseteq IgnoredUsers([account.new EXCEPT
                                        !.ignored = plan.ignored])
            BY <3>1
        <3>3. /\ IgnoredUsers(account'.new) = IgnoredUsers(account.new)
              /\ IgnoredUsers([account'.new EXCEPT !.ignored = plan.ignored])
                 = IgnoredUsers([account.new EXCEPT !.ignored = plan.ignored])
            BY ONLY <2>0, <3>1, IgnoredUsersOf
        <3> QED
            BY <3>2, <3>3
    <2>4. SnapshotFresh' /\ VisitedOnce' /\ NoRedundantInvite'
        BY <2>0
    <2> QED
        BY <2>1, <2>r, <2>l, <2>2, <2>3, <2>4
<1> QED
    BY <1>1, <1>2, <1>3, <1>4

\* Of the execution, only the request that carries out a part of the plan
\* changes what that part is about.
LEMMA ExecutionPlan ==
    ASSUME TypeInv, PlanInv, ExecuteStep, TypeInv'
    PROVE  PlanInv'
<1>0. /\ UNCHANGED <<newJoined, plan, touched>>
      /\ touched \subseteq Rooms /\ todo \subseteq Rooms
      /\ \A r \in Rooms : plan.rooms[r] \in RoomPlan /\ server[r] \in RoomState
      /\ account.new \in AccountState /\ account'.new \in AccountState
      /\ pc \in RoomSteps \ {"nextRoom"} => cur \in Rooms
    BY ExecutionFrame DEF TypeInv, TypeOK, Plan, Users
<1>1. /\ \A r \in Rooms : RoomEffect(r)
      /\ AccountEffect
    BY RoomEffects, AccountEffects
<1>l. \A r \in Rooms : server[r] \in RoomState /\ RoomEffect(r)
    BY <1>0, <1>1
<1>2. PlanRaises'
    <2> SUFFICES ASSUME NEW r \in Rooms, r \notin touched \/ server'[r].unset,
                        plan.rooms[r].power # None
                 PROVE  server'[r].pl.new <= plan.rooms[r].power
        BY <1>0 DEF PlanRaises
    <2>1. CASE UNCHANGED <<server[r].unset, server[r].pl>>
        BY <2>1 DEF PlanInv, PlanRaises
    <2>2. CASE /\ pc = "writePower" /\ r = cur
               /\ server'[r].pl = PowerContent(snapshot, plan.rooms[r])
        <3>1. snapshot \in PowerLevels /\ plan.rooms[r].power \in Int
            BY <1>0, <2>2, LevelsAssumption DEF TypeInv, TypeOK, RoomPlan
        <3>2. server'[r].pl.new = plan.rooms[r].power
            BY <2>2, <3>1 DEF PowerContent, PowerLevels
        <3> QED
            BY <3>1, <3>2
    <2> QED
        BY <1>l, <2>1, <2>2, EffectOnLevels
<1>s. LevelsMakeSense'
    BY <1>l, EffectOnLevels
       DEF PlanInv, LevelsMakeSense, WellFormed, DefaultLevel
<1>3. PlanKeepsTags'
    BY <1>0, <1>1 DEF PlanInv, PlanKeepsTags, AccountEffect
<1>4. PlanKeepsDirect'
    BY <1>0, <1>1 DEF PlanInv, PlanKeepsDirect, AccountEffect
<1>5. PlanKeepsIgnored'
    <2> SUFFICES ASSUME plan.ignored # None, touched # Rooms
                 PROVE  IgnoredUsers(account'.new)
                        \subseteq IgnoredUsers([account'.new EXCEPT
                                                  !.ignored = plan.ignored])
        BY <1>0 DEF PlanKeepsIgnored
    <2>1. IgnoredUsers([account'.new EXCEPT !.ignored = plan.ignored])
          = IgnoredUsers([account.new EXCEPT !.ignored = plan.ignored])
        BY <1>0, IgnoredUsersOf
    <2>2. CASE account'.new.ignored = account.new.ignored
        BY <1>0, <2>1, <2>2, IgnoredUsersOf DEF PlanInv, PlanKeepsIgnored
    <2>3. CASE account'.new.ignored = plan.ignored
        BY <1>0, <2>3 DEF IgnoredUsers, AccountState
    <2> QED
        BY <1>1, <2>2, <2>3 DEF AccountEffect
<1>6. /\ SnapshotFresh' /\ VisitedOnce' /\ AbsentKnown'
    BY <1>0, ExecutionControl
       DEF PlanInv, SnapshotFresh, VisitedOnce, AbsentKnown
<1>7. ASSUME NEW r \in Rooms \ touched, plan.rooms[r].invite, r \in todo,
             pc \in RoomSteps
      PROVE  server'[r].new = "leave"
    <2>1. server[r].new = "leave" /\ ~(pc # "nextRoom" /\ r = cur)
        BY <1>7 DEF PlanInv, InvitesNeeded, VisitedOnce
    <2> QED
        BY <1>0, <1>1, <1>7, <2>1 DEF RoomEffect, RoomState
<1>8. InvitesNeeded'
    BY <1>0, <1>7, ExecutionControl DEF InvitesNeeded
<1>9. NoRedundantInvite'
    BY <1>0, <1>7, ExecutionControl DEF NoRedundantInvite
<1> QED
    BY <1>s, <1>2, <1>3, <1>4, <1>5, <1>6, <1>8, <1>9 DEF PlanInv

LEMMA StutterPlan == PlanInv /\ UNCHANGED vars => PlanInv'
BY DEF PlanInv, PlanRaises, PlanKeepsTags, PlanKeepsDirect, PlanKeepsIgnored,
       SnapshotFresh, LevelsMakeSense, AbsentKnown, VisitedOnce,
       InvitesNeeded, NoRedundantInvite, vars

LEMMA NextPlan == TypeInv /\ PlanInv /\ [Next]_vars => PlanInv'
BY NextType, PlanningPlan, ExecutionPlan, EnvironmentPlan, StutterPlan
   DEF Next

\* The plan takes nothing from the new user, at any moment of any invocation:
\* what the planner knew of an untouched room is still so.
THEOREM PlanInvariant == Spec => [](TypeInv /\ PlanInv)
BY InitType, NextType, InitPlan, NextPlan, PTL DEF Spec

\* However often the program is interrupted and run again, it never invites
\* a user who has the invite, or is in the room.
THEOREM InvitesOnce == Spec => []NoRedundantInvite
<1>1. PlanInv => NoRedundantInvite
    BY DEF PlanInv
<1> QED
    BY <1>1, PlanInvariant, PTL

\* The steps that are neither of the execution nor of others change nothing
\* on the homeserver.
LEMMA RestIsHarmless ==
    ASSUME Next, ~ExecuteStep, ~Others
    PROVE  UNCHANGED <<server, account>>
BY DEF Next, Start, Cancel, Confirm, Restart, PlanStep, ReadOldRooms,
       ReadNewRooms, PlanNextRoom, PlanGlobalData, ReadAliases, Sync,
       SyncSees, SyncFails

\* Every map and list that the execution writes contains what is there.
LEMMA ExecutionKeepsNewData ==
    ASSUME TypeInv, TypeInv', PlanInv, ExecuteStep
    PROVE  /\ \A r \in Rooms \ touched, k \in Keys :
                 account.new.tags[r][k] # None =>
                    account'.new.tags[r][k] = account.new.tags[r][k]
           /\ \A m \in account.new.direct :
                 m[2] \notin touched => m \in account'.new.direct
           /\ touched # Rooms =>
                 IgnoredUsers(account.new) \subseteq IgnoredUsers(account'.new)
<1>0. account.new \in AccountState /\ account'.new \in AccountState
    BY DEF TypeInv, TypeOK, Users
<1>1. AccountEffect
    BY AccountEffects
<1>2. /\ pc = "tags" => plan.rooms[cur].tags # None
      /\ pc = "direct" => plan.direct # None
      /\ pc = "ignored" => plan.ignored # None
    BY DEF TypeInv, StepMatchesPlan
<1>3. \A r \in Rooms \ touched, k \in Keys :
         account.new.tags[r][k] # None =>
            account'.new.tags[r][k] = account.new.tags[r][k]
    BY <1>1, <1>2 DEF AccountEffect, PlanInv, PlanKeepsTags
<1>4. \A m \in account.new.direct :
         m[2] \notin touched => m \in account'.new.direct
    BY <1>1, <1>2 DEF AccountEffect, PlanInv, PlanKeepsDirect
<1>5. touched # Rooms =>
         IgnoredUsers(account.new) \subseteq IgnoredUsers(account'.new)
    <2>1. CASE account'.new.ignored = account.new.ignored
        BY <1>0, <2>1, IgnoredUsersOf
    <2>2. CASE pc = "ignored" /\ account'.new.ignored = plan.ignored
        <3>1. IgnoredUsers(account'.new)
              = IgnoredUsers([account.new EXCEPT !.ignored = plan.ignored])
            BY <1>0, <2>2 DEF IgnoredUsers, AccountState
        <3> QED
            BY <1>2, <2>2, <3>1 DEF PlanInv, PlanKeepsIgnored
    <2> QED
        BY <1>1, <2>1, <2>2 DEF AccountEffect
<1> QED
    BY <1>3, <1>4, <1>5

\* The program never takes from the new user an entry of its account data:
\* every map and list it writes contains what is there.
THEOREM NewDataIsKept == Spec => KeepsNewData
<1> DEFINE Kept ==
       /\ \A r \in Rooms \ touched', k \in Keys :
             account.new.tags[r][k] # None =>
                account'.new.tags[r][k] = account.new.tags[r][k]
       /\ \A m \in account.new.direct :
             m[2] \notin touched' => m \in account'.new.direct
       /\ touched' # Rooms =>
             IgnoredUsers(account.new) \subseteq IgnoredUsers(account'.new)
<1>1. TypeInv /\ PlanInv /\ [Next]_vars => [Kept]_vars
    <2> SUFFICES ASSUME TypeInv, PlanInv, Next PROVE Kept
        BY DEF vars
    <2> TypeInv'
        BY NextType
    <2>0. /\ account.new \in AccountState /\ account'.new \in AccountState
          /\ account.new.direct \subseteq Mapping
        BY NextType DEF TypeInv, TypeOK, Users, AccountState
    <2>1. CASE ExecuteStep
        BY <2>1, ExecutionKeepsNewData, ExecutionFrame
    <2>2. CASE Others
        <3>1. \A r \in Rooms \ touched' :
                 account'.new.tags[r] = account.new.tags[r]
            BY <2>2, OthersEffects DEF Users
        <3>2. \A m \in Mapping : m[2] \notin touched' =>
                 (m \in account'.new.direct <=> m \in account.new.direct)
            BY <2>2, OthersEffects DEF Users
        <3>3. touched' # Rooms =>
                 IgnoredUsers(account.new) = IgnoredUsers(account'.new)
            BY <2>0, <2>2, OthersEffects, IgnoredUsersOf DEF Users
        <3> QED
            BY <2>0, <3>1, <3>2, <3>3
    <2>3. CASE UNCHANGED account
        BY <2>3
    <2> QED
        BY <2>1, <2>2, <2>3, RestIsHarmless
<1> QED
    BY <1>1, PlanInvariant, PTL DEF Spec, KeepsNewData

\* The level the homeserver enforces is a number.
LEMMA TrueLevelType ==
    ASSUME NEW s \in RoomState, NEW u \in Users
    PROVE  TrueLevel(s, u) \in 0 .. Infinite
<1>1. /\ s.pl.old \in 0 .. IntMax /\ s.pl.new \in 0 .. IntMax
      /\ IntMax \in Nat
    BY LevelsAssumption DEF RoomState, PowerLevels
<1>2. s.pl[u] \in 0 .. IntMax
    BY <1>1 DEF Users
<1> QED
    BY <1>1, <1>2 DEF TrueLevel, Infinite

\* Setting the power level demotes the new user only in a room others
\* changed meanwhile, and only if the old user is more powerful than that.
THEOREM PromotionIsSafe == Spec => PromotesOnly
<1> DEFINE Promotes ==
       pc = "writePower" /\ pc' # pc
          /\ server'[cur].pl.new < server[cur].pl.new
       => cur \in touched
          /\ TrueLevel(server[cur], "old") > plan.rooms[cur].power
<1>1. TypeInv /\ PlanInv /\ [Next]_vars => [Promotes]_vars
    <2> SUFFICES ASSUME TypeInv, PlanInv, Next, pc = "writePower", pc' # pc,
                        server'[cur].pl.new < server[cur].pl.new
                 PROVE  /\ cur \in touched
                        /\ TrueLevel(server[cur], "old") > plan.rooms[cur].power
        BY DEF vars
    <2> DEFINE content == PowerContent(snapshot, plan.rooms[cur])
    <2>0. /\ cur \in Rooms /\ server[cur] \in RoomState
          /\ snapshot \in PowerLevels
          /\ plan.rooms[cur].power \in Levels
        BY DEF TypeInv, TypeOK, StepMatchesPlan, Plan, RoomPlan
    <2>1. ~Others
        BY OthersEffects
    <2>2. server[cur].pl.new \in 0 .. IntMax /\ IntMax \in Nat
          /\ plan.rooms[cur].power \in 0 .. IntMax
        BY <2>0, LevelsAssumption DEF RoomState, PowerLevels
    <2>3. ExecuteStep
        BY <2>1, <2>2, RestIsHarmless
    <2>4. server'[cur] # server[cur]
        BY <2>2
    <2>5. /\ PowerLevelsAccepted(server[cur], content)
          /\ server'[cur] = [server[cur] EXCEPT !.pl = content,
                                                !.unset = FALSE]
        BY <2>0, <2>3, <2>4, RoomEffects DEF RoomEffect
    <2>6. /\ server'[cur].pl.new = content.new
          /\ content.new = plan.rooms[cur].power
        BY <2>0, <2>5 DEF PowerContent, PowerLevels, RoomState
    <2>7. content.new < server[cur].pl.new
        BY <2>6
    <2>8. cur \in touched /\ ~server[cur].unset
        BY <2>0, <2>2, <2>6, <2>7, NoneAssumption DEF PlanInv, PlanRaises
    <2>9. TrueLevel(server[cur], "old") > server[cur].pl.new
        BY <2>2, <2>5, <2>6, <2>7, <2>8
           DEF PowerLevelsAccepted, LevelChangesAllowed
    <2>10. TrueLevel(server[cur], "old") \in 0 .. Infinite
        BY <2>0, TrueLevelType DEF Users
    <2> QED
        BY <2>2, <2>6, <2>7, <2>8, <2>9, <2>10 DEF Infinite
<1> QED
    BY <1>1, PlanInvariant, PTL DEF Spec, PromotesOnly

\* Writing the power levels changes no level but the new user's: what is
\* written is what was read, and in an untouched room that is what is there.
THEOREM OtherLevelsAreKept == Spec => KeepsOtherLevels
<1> DEFINE Kept == \A r \in Rooms \ touched :
       pc = "writePower" /\ r = cur /\ pc' # pc /\ ~server[r].unset
          => [server'[r].pl EXCEPT !.new = 0, !.notifications = "default"]
             = [server[r].pl EXCEPT !.new = 0, !.notifications = "default"]
<1>1. TypeInv /\ PlanInv /\ [Next]_vars => [Kept]_vars
    <2> SUFFICES ASSUME TypeInv, PlanInv, Next, NEW r \in Rooms \ touched,
                        pc = "writePower", r = cur, pc' # pc, ~server[r].unset
                 PROVE  [server'[r].pl EXCEPT !.new = 0,
                                              !.notifications = "default"]
                        = [server[r].pl EXCEPT !.new = 0,
                                               !.notifications = "default"]
        BY DEF vars
    <2>1. ~Others
        BY OthersEffects
    <2>2. CASE ExecuteStep
        <3>0. /\ server[r] \in RoomState /\ server[r].pl \in PowerLevels
              /\ \E failed : snapshot = LevelsRead(server[r], failed)
            BY DEF TypeInv, TypeOK, RoomState, PlanInv, SnapshotFresh
        <3>1. snapshot = [server[r].pl EXCEPT !.notifications = "default"]
            BY <3>0 DEF LevelsRead, UserLevelRead, PowerLevels
        <3>2. \/ server'[r].pl = server[r].pl
              \/ server'[r].pl = PowerContent(snapshot, plan.rooms[r])
            BY <2>2, <3>0, RoomEffects, EffectOnLevels
        <3> QED
            BY <3>0, <3>1, <3>2 DEF PowerContent, PowerLevels
    <2>3. CASE UNCHANGED server
        BY <2>3
    <2> QED
        BY <2>1, <2>2, <2>3, RestIsHarmless
<1> QED
    BY <1>1, PlanInvariant, PTL DEF Spec, KeepsOtherLevels

-----------------------------------------------------------------------------
(* Every part of the plan takes effect, or its failure is counted: DoneInv *)

\* ExecuteContext only ever collects errors.
LEMMA ContextGrows ==
    ASSUME TypeInv, ExecuteStep
    PROVE  /\ ctx.failedRooms \subseteq ctx'.failedRooms
           /\ ctx.globalErrors => ctx'.globalErrors
           /\ ctx' = ctx \/ ctx'.erred
<1>1. \A r : /\ ctx.failedRooms \subseteq RoomError(ctx, r).failedRooms
             /\ ctx.globalErrors => RoomError(ctx, r).globalErrors
             /\ RoomError(ctx, r).erred
    BY DEF TypeInv, TypeOK, RoomError
<1>2. /\ ctx.failedRooms \subseteq GlobalError(ctx).failedRooms
      /\ GlobalError(ctx).globalErrors /\ GlobalError(ctx).erred
    BY DEF TypeInv, TypeOK, GlobalError
<1>3. \/ ctx' \in {ctx, GlobalError(ctx)}
      \/ \E r : ctx' = RoomError(ctx, r)
    BY DEF ExecuteStep, NextRoom, StartSync, Await, ReadPower, Invite, Join,
           WritePower, SetTags, SetDirect, SetIgnored, LeaveRoom, RoomsDone,
           SkipLeave, Finish, tool, RoomErrorUnless, GlobalErrorUnless
<1> QED
    BY <1>1, <1>2, <1>3

\* A part of a room's plan is only passed by when it is not planned, when it
\* was carried out, or when the room is among the failed ones.
LEMMA RoomProgress ==
    ASSUME TypeInv, ExecuteStep, NEW r \in Rooms, r \notin ctx'.failedRooms
    PROVE  LET p == plan.rooms[r] IN
           /\ p.join /\ JoinPending(r) /\ ~JoinPending(r)'
                 => server'[r].new = "join"
           /\ p.power # None /\ PowerPending(r) /\ ~PowerPending(r)'
                 => server'[r].pl.new = p.power /\ ~server'[r].unset
           /\ p.tags # None /\ TagsPending(r) /\ ~TagsPending(r)'
                 => account'.new.tags[r] = p.tags
<1> USE DEF JoinPending, PowerPending, TagsPending
<1>0. /\ \A x \in Rooms : plan.rooms[x] \in RoomPlan
      /\ server \in [Rooms -> RoomState] /\ server[r] \in RoomState
      /\ pc \in RoomSteps \ {"nextRoom"} => cur \in Rooms
    BY DEF TypeInv, TypeOK, Plan
<1>1. ASSUME NEW outcome, ctx' = RoomErrorUnless(outcome, cur), r = cur
      PROVE  outcome = "done"
    BY <1>1 DEF RoomErrorUnless, RoomError, TypeInv, TypeOK
<1>2. CASE NextRoom
    <2>1. cur' \in todo /\ cur' \in Rooms
        BY <1>2, FirstIsMember DEF NextRoom, TypeInv, TypeOK
    <2> QED
        BY <1>0, <1>2, <2>1, StepReasons DEF NextRoom
<1>3. CASE StartSync
    BY <1>3 DEF StartSync, tool
<1>4. CASE Await
    BY <1>0, <1>4, StepReasons DEF Await
<1>5. CASE ReadPower
    <2>1. r # cur \/ pc' = "writePower"
        BY <1>5 DEF ReadPower, RoomError, TypeInv, TypeOK
    <2> QED
        BY <1>0, <1>5, <2>1, StepReasons DEF ReadPower
<1>6. CASE \E outcome \in Outcomes : Invite(outcome)
    <2> PICK outcome \in Outcomes : Invite(outcome)
        BY <1>6
    <2>1. r = cur => pc' = "await"
        BY <1>1 DEF Invite, OrGiveUp
    <2> QED
        BY <2>1 DEF Invite, OrGiveUp
<1>7. CASE \E outcome \in Outcomes : Join(outcome)
    <2> PICK outcome \in Outcomes : Join(outcome)
        BY <1>7
    <2>1. r = cur => /\ pc' = FromPower(plan.rooms[r])
                     /\ server'[r].new = "join"
        BY <1>0, <1>1 DEF Join, OrGiveUp, UpdateRoom, Applied, RoomState
    <2> QED
        BY <1>0, <2>1, StepReasons DEF Join, OrGiveUp
<1>8. CASE \E outcome \in Outcomes : WritePower(outcome)
    <2> PICK outcome \in Outcomes : WritePower(outcome)
        BY <1>8
    <2>1. snapshot \in PowerLevels
        BY DEF WritePower, TypeInv, TypeOK
    <2>2. r = cur => server'[r].pl.new = plan.rooms[r].power
                     /\ ~server'[r].unset
        BY <1>0, <1>1, <2>1
           DEF WritePower, UpdateRoom, Applied, RoomState, PowerContent,
               PowerLevels
    <2> QED
        BY <1>0, <2>2, StepReasons DEF WritePower
<1>9. CASE \E outcome \in Outcomes : SetTags(outcome)
    <2> PICK outcome \in Outcomes : SetTags(outcome)
        BY <1>9
    <2>1. r = cur => account'.new.tags[r] = plan.rooms[r].tags
        BY <1>0, <1>1 DEF SetTags, Applied, TypeInv, TypeOK, Users,
                          AccountState
    <2> QED
        BY <1>0, <2>1 DEF SetTags
<1>10. CASE \E outcome \in Outcomes : \/ SetDirect(outcome)
                                      \/ SetIgnored(outcome)
                                      \/ LeaveRoom(outcome)
    BY <1>10 DEF SetDirect, SetIgnored, LeaveRoom
<1>11. CASE RoomsDone \/ SkipLeave \/ Finish
    BY <1>11 DEF RoomsDone, SkipLeave, Finish
<1> QED
    BY <1>2, <1>3, <1>4, <1>5, <1>6, <1>7, <1>8, <1>9, <1>10, <1>11
       DEF ExecuteStep

\* The same of the global account data and of the leaves.
LEMMA GlobalProgress ==
    ASSUME TypeInv, ExecuteStep
    PROVE  /\ pc' \in {"ignored", "leaving", "succeeded"}
              /\ pc \notin {"ignored", "leaving"} /\ ~ctx'.globalErrors
              /\ plan.direct # None => account'.new.direct = plan.direct
           /\ pc' \in {"leaving", "succeeded"}
              /\ pc # "leaving" /\ ~ctx'.globalErrors
              /\ plan.ignored # None => account'.new.ignored = plan.ignored
           /\ pc' \in {"leaving", "succeeded"} /\ pc # "leaving" =>
                 /\ pc' = "leaving"
                 /\ todo' = RoomsToLeave(plan, ctx')
           /\ pc = "leaving" =>
                 \A r \in todo \ todo' :
                    r \in ctx'.failedRooms \/ server'[r].old = "leave"
           /\ pc' = "succeeded" => ~ctx'.erred /\ todo' = {}
<1>0. /\ account \in [Users -> AccountState] /\ account.new \in AccountState
      /\ server \in [Rooms -> RoomState] /\ todo \subseteq Rooms
      /\ plan \in Plan
    BY DEF TypeInv, TypeOK, Users
<1>1. CASE NextRoom \/ StartSync \/ Await \/ ReadPower
           \/ \E outcome \in Outcomes : \/ Invite(outcome) \/ Join(outcome)
                                        \/ WritePower(outcome)
                                        \/ SetTags(outcome)
    <2>1. pc \in RoomSteps
        BY <1>1 DEF NextRoom, StartSync, Await, ReadPower, Invite, Join,
                    WritePower, SetTags
    <2>2. pc' \in RoomSteps
        <3>1. \A r \in Rooms : plan.rooms[r] \in RoomPlan
            BY <1>0 DEF Plan
        <3>2. pc \in RoomSteps \ {"nextRoom"} => cur \in Rooms
            BY DEF TypeInv, TypeOK
        <3>3. NextRoom => cur' \in Rooms
            BY <1>0, FirstIsMember DEF NextRoom
        <3> QED
            BY <1>1, <3>1, <3>2, <3>3, StepReasons
               DEF NextRoom, StartSync, Await, ReadPower, Invite, Join,
                   WritePower, SetTags, OrGiveUp, tool
    <2> QED
        BY <2>1, <2>2
<1>2. CASE \E outcome \in Outcomes : SetDirect(outcome)
    <2> PICK outcome \in Outcomes : SetDirect(outcome)
        BY <1>2
    <2>1. ~ctx'.globalErrors => account'.new.direct = plan.direct
        BY <1>0 DEF SetDirect, GlobalErrorUnless, GlobalError, Applied,
                    TypeInv, TypeOK, Users, AccountState
    <2> QED
        BY <2>1 DEF SetDirect, FromIgnored
<1>3. CASE \E outcome \in Outcomes : SetIgnored(outcome)
    <2> PICK outcome \in Outcomes : SetIgnored(outcome)
        BY <1>3
    <2>1. ~ctx'.globalErrors => account'.new.ignored = plan.ignored
        BY <1>0 DEF SetIgnored, GlobalErrorUnless, GlobalError, Applied,
                    TypeInv, TypeOK, Users, AccountState
    <2> QED
        BY <2>1 DEF SetIgnored
<1>4. CASE \E outcome \in Outcomes : LeaveRoom(outcome)
    <2> PICK outcome \in Outcomes, r \in First(todo) :
            /\ LeaveRoom(outcome)
            /\ server' = IF Applied(outcome)
                         THEN [server EXCEPT ![r].old = "leave"]
                         ELSE server
            /\ ctx' = RoomErrorUnless(outcome, r)
            /\ todo' = todo \ {r}
        BY <1>4 DEF LeaveRoom
    <2>1. r \in Rooms
        BY <1>0, FirstIsMember
    <2>2. r \in ctx'.failedRooms \/ server'[r].old = "leave"
        BY <1>0, <2>1 DEF RoomErrorUnless, RoomError, Applied, RoomState,
                          TypeInv, TypeOK
    <2> QED
        BY <2>2 DEF LeaveRoom
<1>5. CASE RoomsDone
    BY <1>5 DEF RoomsDone, FromDirect, FromIgnored
<1>6. CASE SkipLeave
    BY <1>6 DEF SkipLeave, SkipsLeave
<1>7. CASE Finish
    BY <1>7 DEF Finish
<1> QED
    BY <1>1, <1>2, <1>3, <1>4, <1>5, <1>6, <1>7 DEF ExecuteStep

LEMMA InitDone == Init => DoneInv
BY DEF Init, NoErrors, DoneInv, RoomsMigrated, DirectDone, IgnoredDone,
       RoomsLeft, ErrorsCounted

LEMMA PlanningDone ==
    ASSUME TypeInv, DoneInv, Start \/ Cancel \/ Confirm \/ PlanStep
    PROVE  DoneInv'
<1> USE DEF DoneInv, RoomsMigrated, DirectDone, IgnoredDone, RoomsLeft,
            ErrorsCounted
<1>1. CASE Start
    BY <1>1 DEF Start, NoErrors
<1>2. CASE Cancel
    BY <1>2 DEF Cancel
<1>3. CASE Confirm
    <2>1. /\ \A r \in Rooms : r \notin PlannedRooms(plan) =>
                /\ ~plan.rooms[r].join
                /\ plan.rooms[r].power = None /\ plan.rooms[r].tags = None
        BY DEF PlannedRooms, DefaultRoomPlan
    <2> QED
        BY <1>3, <2>1 DEF Confirm, JoinPending, PowerPending, TagsPending
<1>4. CASE PlanStep
    BY <1>4 DEF PlanStep, ReadOldRooms, ReadNewRooms, PlanNextRoom,
                PlanGlobalData, ReadAliases
<1> QED
    BY <1>1, <1>2, <1>3, <1>4

LEMMA EnvironmentDone ==
    ASSUME TypeInv, DoneInv, Restart \/ Sync \/ SyncFails \/ Others, TypeInv'
    PROVE  DoneInv'
<1> USE DEF DoneInv, RoomsMigrated, DirectDone, IgnoredDone, RoomsLeft,
            ErrorsCounted, JoinPending, PowerPending, TagsPending
<1>1. CASE Restart
    BY <1>1 DEF Restart
<1>2. CASE Sync
    BY <1>2 DEF Sync, SyncSees, tool
<1>3. CASE SyncFails
    BY <1>3 DEF SyncFails, tool
<1>4. CASE Others
    <2>0. touched \subseteq Rooms /\ touched' \subseteq Rooms
        BY DEF TypeInv, TypeOK
    <2>1. /\ UNCHANGED <<pc, plan, todo, cur, ctx>>
          /\ touched \subseteq touched'
          /\ \A r \in Rooms \ touched' :
                server'[r] = server[r]
                /\ account'.new.tags[r] = account.new.tags[r]
          /\ \A m \in Mapping : m[2] \notin touched' =>
                (m \in account'.new.direct <=> m \in account.new.direct)
          /\ touched' # Rooms => account'.new.ignored = account.new.ignored
        BY <1>4, OthersEffects DEF Users
    <2>2. RoomsMigrated' /\ RoomsLeft' /\ ErrorsCounted'
        BY <2>1
    <2>3. DirectDone'
        BY <2>1
    <2>4. IgnoredDone'
        BY <2>0, <2>1
    <2> QED
        BY <2>2, <2>3, <2>4
<1> QED
    BY <1>1, <1>2, <1>3, <1>4

\* What is done in a room is not undone.
LEMMA RoomsStayMigrated ==
    ASSUME TypeInv, ExecuteStep, NEW r \in Rooms
    PROVE  /\ server[r].new = "join" => server'[r].new = "join"
           /\ server[r].old = "leave" => server'[r].old = "leave"
           /\ plan.rooms[r].power # None
              /\ server[r].pl.new = plan.rooms[r].power /\ ~server[r].unset
                 => server'[r].pl.new = plan.rooms[r].power
                    /\ ~server'[r].unset
           /\ account.new.tags[r] = plan.rooms[r].tags
                 => account'.new.tags[r] = plan.rooms[r].tags
<1>0. RoomEffect(r) /\ AccountEffect /\ server[r] \in RoomState
    BY RoomEffects, AccountEffects DEF TypeInv, TypeOK
<1>1. pc = "writePower" => snapshot \in PowerLevels
    BY DEF TypeInv, TypeOK
<1>2. pc = "writePower" =>
         /\ PowerContent(snapshot, plan.rooms[r]).new = plan.rooms[r].power
    BY <1>1 DEF PowerContent, PowerLevels
<1>3. /\ server[r].new = "join" => server'[r].new = "join"
      /\ server[r].old = "leave" => server'[r].old = "leave"
      /\ plan.rooms[r].power # None
         /\ server[r].pl.new = plan.rooms[r].power /\ ~server[r].unset
            => server'[r].pl.new = plan.rooms[r].power /\ ~server'[r].unset
    BY ONLY <1>0, <1>2 DEF RoomEffect, RoomState
<1> QED
    BY <1>0, <1>3 DEF AccountEffect

LEMMA ExecutionDone ==
    ASSUME TypeInv, DoneInv, ExecuteStep
    PROVE  DoneInv'
<1>0. /\ UNCHANGED <<plan, touched>>
      /\ ctx.failedRooms \subseteq ctx'.failedRooms
      /\ ctx.globalErrors => ctx'.globalErrors
      /\ ctx' = ctx \/ ctx'.erred
      /\ pc \in Executing
    BY ExecutionFrame, ContextGrows, ExecutionControl
<1>1. RoomsMigrated'
    <2> SUFFICES ASSUME NEW r \in Rooms, r \notin ctx'.failedRooms,
                        r \notin touched
                 PROVE  LET p == plan.rooms[r] IN
                        /\ p.join /\ ~JoinPending(r)'
                              => server'[r].new = "join"
                        /\ p.power # None /\ ~PowerPending(r)'
                              => server'[r].pl.new = p.power
                                 /\ ~server'[r].unset
                        /\ p.tags # None /\ ~TagsPending(r)'
                              => account'.new.tags[r] = p.tags
        BY <1>0 DEF RoomsMigrated
    <2>1. LET p == plan.rooms[r] IN
          /\ p.join /\ ~JoinPending(r) => server[r].new = "join"
          /\ p.power # None /\ ~PowerPending(r)
                => server[r].pl.new = p.power /\ ~server[r].unset
          /\ p.tags # None /\ ~TagsPending(r) => account.new.tags[r] = p.tags
        BY <1>0 DEF DoneInv, RoomsMigrated
    <2> QED
        BY <2>1, RoomProgress, RoomsStayMigrated
<1>2. DirectDone'
    <2>1. AccountEffect
        BY AccountEffects
    <2> QED
        BY <1>0, <2>1, GlobalProgress DEF DoneInv, DirectDone, AccountEffect
<1>3. IgnoredDone'
    <2>1. AccountEffect
        BY AccountEffects
    <2> QED
        BY <1>0, <2>1, GlobalProgress DEF DoneInv, IgnoredDone, AccountEffect
<1>4. RoomsLeft'
    <2> SUFFICES ASSUME pc' \in {"leaving", "succeeded"}, ~ctx'.globalErrors,
                        NEW r \in Rooms, r \notin ctx'.failedRooms,
                        r \notin touched, plan.rooms[r].leave, r \notin todo'
                 PROVE  server'[r].old = "leave"
        BY <1>0 DEF RoomsLeft
    <2>1. pc = "leaving"
        BY <1>0, GlobalProgress DEF RoomsToLeave
    <2>2. r \notin todo => server[r].old = "leave"
        BY <1>0, <2>1 DEF DoneInv, RoomsLeft
    <2> QED
        BY <2>1, <2>2, GlobalProgress, RoomsStayMigrated
<1>5. ErrorsCounted'
    BY <1>0, GlobalProgress DEF DoneInv, ErrorsCounted
<1> QED
    BY <1>1, <1>2, <1>3, <1>4, <1>5 DEF DoneInv

LEMMA StutterDone == DoneInv /\ UNCHANGED vars => DoneInv'
BY DEF DoneInv, RoomsMigrated, DirectDone, IgnoredDone, RoomsLeft,
       ErrorsCounted, JoinPending, PowerPending, TagsPending, vars

LEMMA NextDone == TypeInv /\ DoneInv /\ [Next]_vars => DoneInv'
BY NextType, PlanningDone, ExecutionDone, EnvironmentDone, StutterDone
   DEF Next

\* The inductive invariant of the execution.
THEOREM ExecutionInvariant == Spec => [](TypeInv /\ ExecutionInv)
<1>1. Init => TypeInv /\ ExecutionInv
    BY InitType, InitPlan, InitDone DEF ExecutionInv
<1>2. TypeInv /\ ExecutionInv /\ [Next]_vars => (TypeInv /\ ExecutionInv)'
    BY NextType, NextPlan, NextDone DEF ExecutionInv
<1> QED
    BY <1>1, <1>2, PTL DEF Spec

\* Exit status 0 after an execution means that the whole plan took effect,
\* whatever failed or was interrupted, in the rooms nobody else changed.
THEOREM SuccessIsApplied == Spec => []SuccessMeansApplied
<1>1. TypeInv /\ ExecutionInv => SuccessMeansApplied
    <2> SUFFICES ASSUME TypeInv, ExecutionInv, pc = "succeeded"
                 PROVE  SuccessMeansApplied
        BY DEF SuccessMeansApplied
    <2> USE DEF ExecutionInv, DoneInv
    <2>1. ctx.failedRooms = {} /\ ~ctx.globalErrors /\ todo = {}
        BY DEF ErrorsCounted
    <2>2. \A r \in Rooms \ touched : TookEffect(plan.rooms[r], r)
        BY <2>1 DEF RoomsMigrated, RoomsLeft, TookEffect, JoinPending,
                    PowerPending, TagsPending
    <2> QED
        BY <2>1, <2>2 DEF SuccessMeansApplied, DirectDone, IgnoredDone
<1> QED
    BY <1>1, ExecutionInvariant, PTL
=============================================================================
