-------------------------- MODULE MigrationProofs --------------------------
(***************************************************************************)
(* Proofs about Migration, for any set of rooms, any initial state of them *)
(* and any amount of faults, interference and restarts: type correctness,  *)
(* and that the old user never leaves a room the new user is not in.       *)
(***************************************************************************)
EXTENDS Migration, PlannerProofs

\* A request is only made when the plan has something to say about it.
StepMatchesPlan ==
    /\ pc \in {"readPower", "writePower"} => plan.rooms[cur].power # None
    /\ pc = "tags" => plan.rooms[cur].tags # None
    /\ pc = "direct" => plan.direct # None
    /\ pc = "ignored" => plan.ignored # None

TypeInv == TypeOK /\ StepMatchesPlan

USE DEF Planning, Executing, RoomSteps, Ended, Faulty, Outcomes

-----------------------------------------------------------------------------
(* Facts about the helpers of Migration.                                   *)

LEMMA FirstIsMember == ASSUME NEW S PROVE First(S) \subseteq S
BY DEF First

\* The steps a room's plan leads to, and what taking each of them says.
LEMMA NextSteps ==
    ASSUME NEW p \in RoomPlan
    PROVE  /\ FromTags(p) \in {"tags", "nextRoom"}
           /\ FromTags(p) = "tags" => p.tags # None
           /\ FromPower(p) \in {"readPower", "tags", "nextRoom"}
           /\ FromPower(p) = "readPower" => p.power # None
           /\ FromPower(p) = "tags" => p.tags # None
           /\ FromJoin(p) \in {"join", "readPower", "tags", "nextRoom"}
           /\ FromJoin(p) = "readPower" => p.power # None
           /\ FromJoin(p) = "tags" => p.tags # None
           /\ FromJoin(p) # "join" => ~p.join
           /\ FromInvite(p) \in {"invite", "join", "readPower", "tags",
                                 "nextRoom"}
           /\ FromInvite(p) = "readPower" => p.power # None
           /\ FromInvite(p) = "tags" => p.tags # None
           /\ FromInvite(p) \notin {"invite", "join"} => ~p.join
BY DEF FromTags, FromPower, FromJoin, FromInvite

LEMMA SpentType ==
    ASSUME TypeOK, NEW n \in {0, 1}, SpendFaults(n)
    PROVE  spent' \in [faults : 0 .. MaxFaults, meddling : 0 .. MaxMeddling,
                       runs : 0 .. MaxRuns]
BY BoundsAssumption DEF TypeOK, SpendFaults

LEMMA RequestType ==
    ASSUME TypeOK, NEW outcome \in Outcomes, NEW accepted,
           Request(outcome, accepted)
    PROVE  spent' \in [faults : 0 .. MaxFaults, meddling : 0 .. MaxMeddling,
                       runs : 0 .. MaxRuns]
BY SpentType DEF Request

LEMMA ReadsType ==
    ASSUME TypeOK, NEW failed, Reads(failed)
    PROVE  spent' \in [faults : 0 .. MaxFaults, meddling : 0 .. MaxMeddling,
                       runs : 0 .. MaxRuns]
BY SpentType DEF Reads

LEMMA ContextType ==
    ASSUME TypeOK, NEW outcome, NEW r \in Rooms
    PROVE  /\ RoomError(ctx, r) \in [erred : BOOLEAN,
                                     failedRooms : SUBSET Rooms,
                                     globalErrors : BOOLEAN]
           /\ RoomErrorUnless(outcome, r) \in [erred : BOOLEAN,
                                               failedRooms : SUBSET Rooms,
                                               globalErrors : BOOLEAN]
BY DEF TypeOK, RoomErrorUnless, RoomError

\* ExecuteContext::error forgets no failed room.
LEMMA FailedRoomsGrow ==
    ASSUME TypeOK, NEW r
    PROVE  RoomError(ctx, r).failedRooms = ctx.failedRooms \cup {r}
BY DEF TypeOK, RoomError

LEMMA GlobalContextType ==
    ASSUME TypeOK, NEW outcome
    PROVE  GlobalErrorUnless(outcome) \in [erred : BOOLEAN,
                                           failedRooms : SUBSET Rooms,
                                           globalErrors : BOOLEAN]
BY DEF TypeOK, GlobalErrorUnless, GlobalError

LEMMA InterferenceType ==
    ASSUME NEW s \in RoomState
    PROVE  Interference(s) \subseteq RoomState
<1>1. \A l \in Levels : /\ [s.pl EXCEPT !.old = l] \in PowerLevels
                        /\ [s.pl EXCEPT !.new = l] \in PowerLevels
    BY DEF RoomState, PowerLevels
<1>2. \A l \in Levels :
         /\ [s EXCEPT !.pl.old = l, !.unset = FALSE] \in RoomState
         /\ [s EXCEPT !.pl.new = l, !.unset = FALSE] \in RoomState
    BY <1>1 DEF RoomState
<1>3. \A m \in {"join", "invite", "leave", "ban"} :
         [s EXCEPT !.new = m] \in RoomState
    BY DEF RoomState
<1>4. /\ [s EXCEPT !.old = "leave"] \in RoomState
      /\ [s EXCEPT !.acl = FALSE] \in RoomState
      /\ [s EXCEPT !.joinRule = "invite"] \in RoomState
      /\ [s EXCEPT !.history = "joined"] \in RoomState
    BY DEF RoomState
<1> QED
    BY <1>2, <1>3, <1>4 DEF Interference

LEMMA LevelsSetType ==
    ASSUME NEW s \in RoomState, NEW levels \in PowerLevels
    PROVE  [s EXCEPT !.pl = levels, !.unset = FALSE] \in RoomState
BY DEF RoomState

LEMMA RoomDataInterferenceType ==
    ASSUME NEW a \in AccountState, NEW r \in Rooms
    PROVE  RoomDataInterference(a, r) \subseteq AccountState
<1>1. \A tags \in JsonMaps : [a EXCEPT !.tags[r] = tags] \in AccountState
    BY DEF AccountState
<1>2. \A chats \in SUBSET Mapping :
         [a EXCEPT !.direct = {m \in @ : m[2] # r} \cup chats]
            \in AccountState
    BY DEF AccountState
<1> QED
    BY <1>1, <1>2 DEF RoomDataInterference

LEMMA EmptyPlanType == EmptyPlan \in Plan
<1>1. DefaultRoomPlan \in RoomPlan
    BY DEF DefaultRoomPlan, RoomPlan
<1> QED
    BY <1>1 DEF EmptyPlan, Plan

-----------------------------------------------------------------------------
(* Type correctness: first the steps of planning, then those of execution, *)
(* then those of the environment.                                          *)

LEMMA InitType == Init => TypeInv
<1> SUFFICES ASSUME Init PROVE TypeInv
    OBVIOUS
<1>1. server \in [Rooms -> RoomState]
    BY ProfilesAssumption DEF Init
<1>2. account \in [Users -> AccountState]
    BY ProfilesAssumption DEF Init, Users
<1>3. ctx \in [erred : BOOLEAN, failedRooms : SUBSET Rooms,
               globalErrors : BOOLEAN]
    BY DEF Init, NoErrors
<1>4. spent \in [faults : 0 .. MaxFaults, meddling : 0 .. MaxMeddling,
                 runs : 0 .. MaxRuns]
    BY BoundsAssumption DEF Init
<1> QED
    BY <1>1, <1>2, <1>3, <1>4, EmptyPlanType
       DEF Init, TypeInv, TypeOK, StepMatchesPlan

LEMMA PlanningType ==
    ASSUME TypeInv, Start \/ Cancel \/ Confirm \/ PlanStep
    PROVE  TypeInv'
<1> USE DEF TypeInv, TypeOK, StepMatchesPlan
<1>1. CASE Start
    BY <1>1, EmptyPlanType, BoundsAssumption DEF Start, NoErrors
<1>2. CASE Cancel
    BY <1>2 DEF Cancel
<1>3. CASE Confirm
    BY <1>3 DEF Confirm, PlannedRooms
<1>4. CASE ReadOldRooms
    BY <1>4, ReadsType DEF ReadOldRooms
<1>5. CASE ReadNewRooms
    BY <1>5, ReadsType DEF ReadNewRooms
<1>6. CASE PlanNextRoom
    <2> PICK failed \in Outages(RoomReads), r \in First(todo) :
            /\ Reads(failed)
            /\ plan' = [plan EXCEPT !.rooms[r] =
                 PlanRoom(server[r], account.old.tags[r],
                          account.new.tags[r], r \in newJoined, failed)]
            /\ todo' = todo \ {r}
        BY <1>6 DEF PlanNextRoom
    <2>1. r \in Rooms /\ server[r] \in RoomState
        BY FirstIsMember
    <2>2. /\ account.old.tags[r] \in JsonMaps
          /\ account.new.tags[r] \in JsonMaps
        BY <2>1 DEF Users, AccountState
    <2>3. PlanRoom(server[r], account.old.tags[r], account.new.tags[r],
                   r \in newJoined, failed) \in RoomPlan
        BY <2>1, <2>2, PlanRoomType
    <2>4. \A q \in RoomPlan : [plan EXCEPT !.rooms[r] = q] \in Plan
        <3> TAKE q \in RoomPlan
        <3>1. [plan.rooms EXCEPT ![r] = q] \in [Rooms -> RoomPlan]
            BY <2>1 DEF Plan
        <3> QED  BY <3>1 DEF Plan
    <2>5. plan' \in Plan
        BY <2>3, <2>4
    <2> QED
        BY <1>6, <2>5, ReadsType DEF PlanNextRoom
<1>7. CASE PlanGlobalData
    <2> PICK failed \in Outages(GlobalReads) :
            /\ Reads(failed)
            /\ plan' = PlanLeaves(
                  PlanIgnoredUsers(
                     PlanDirect(plan, newJoined, account.old.direct,
                                account.new.direct, failed),
                     account.old.ignored, account.new.ignored, failed),
                  leave, oldJoined)
        BY <1>7 DEF PlanGlobalData
    <2>1. /\ account.old.direct \in SUBSET Mapping
          /\ account.new.direct \in SUBSET Mapping
          /\ account.old.ignored \in IgnoredMaps
          /\ account.new.ignored \in IgnoredMaps
        BY DEF Users, AccountState
    <2>2. plan' \in Plan
        BY <2>1, PlanDirectType, PlanIgnoredUsersType, PlanLeavesMarks
    <2> QED
        BY <1>7, <2>2, ReadsType DEF PlanGlobalData
<1>8. CASE ReadAliases
    BY <1>8, ReadsType, GetAliasesType DEF ReadAliases
<1> QED
    BY <1>1, <1>2, <1>3, <1>4, <1>5, <1>6, <1>7, <1>8 DEF PlanStep

LEMMA DisturbType ==
    ASSUME TypeInv, NEW kind, NEW R \in SUBSET Rooms, Disturb(kind, R),
           server' \in [Rooms -> RoomState],
           account' \in [Users -> AccountState]
    PROVE  TypeInv'
<1>1. spent' \in [faults : 0 .. MaxFaults, meddling : 0 .. MaxMeddling,
                  runs : 0 .. MaxRuns]
    BY BoundsAssumption DEF Disturb, TypeInv, TypeOK
<1>2. /\ UNCHANGED <<pc, leave, oldJoined, newJoined, plan, todo, cur,
                    snapshot, ctx, seen, sync>>
      /\ touched' \in SUBSET Rooms
    BY DEF Disturb, tool, TypeInv, TypeOK
<1>3. settled' \in BOOLEAN
    BY DEF Disturb
<1>4. StepMatchesPlan'
    BY <1>2 DEF TypeInv, StepMatchesPlan
<1>5. TypeOK'
    BY <1>1, <1>2, <1>3 DEF TypeInv, TypeOK
<1> QED
    BY <1>4, <1>5 DEF TypeInv

\* The two ways in which a step of the execution changes a room's state.
LEMMA UpdateRoomType ==
    ASSUME TypeOK, cur \in Rooms, NEW outcome, NEW s \in RoomState,
           UpdateRoom(outcome, s)
    PROVE  server' \in [Rooms -> RoomState]
BY DEF TypeOK, UpdateRoom

LEMMA ExecutionType ==
    ASSUME TypeInv, ExecuteStep
    PROVE  TypeInv'
<1> USE DEF TypeInv, TypeOK, StepMatchesPlan
<1>0. \A r \in Rooms : plan.rooms[r] \in RoomPlan /\ server[r] \in RoomState
    BY DEF Plan
<1>1. CASE NextRoom
    <2>1. cur' \in Rooms
        BY <1>1, FirstIsMember DEF NextRoom
    <2> QED
        BY <1>0, <1>1, <2>1, NextSteps DEF NextRoom
<1>2. CASE StartSync
    BY <1>2 DEF StartSync, tool
<1>3. CASE Await
    BY <1>0, <1>3, NextSteps DEF Await
<1>4. CASE ReadPower
    <2>1. cur \in Rooms /\ plan.rooms[cur].power # None
        BY <1>4 DEF ReadPower
    <2> PICK failed \in Outages({"powerLevels", "create", "version"}) :
            /\ Reads(failed)
            /\ IF "powerLevels" \notin failed
               THEN /\ snapshot' = LevelsRead(server[cur], failed)
                    /\ pc' = "writePower"
                    /\ UNCHANGED ctx
               ELSE /\ ctx' = RoomError(ctx, cur)
                    /\ pc' = FromTags(plan.rooms[cur])
                    /\ UNCHANGED snapshot
        BY <1>4 DEF ReadPower
    <2>2. LevelsRead(server[cur], failed) \in PowerLevels
        BY <1>0, <2>1, LevelsReadType
    <2> QED
        BY <1>0, <1>4, <2>1, <2>2, NextSteps, ReadsType, ContextType
           DEF ReadPower
<1>5. CASE \E outcome \in Outcomes : Invite(outcome)
    <2> PICK outcome \in Outcomes : Invite(outcome)
        BY <1>5
    <2>1. cur \in Rooms /\ [server[cur] EXCEPT !.new = "invite"] \in RoomState
        BY <1>0 DEF Invite, RoomState
    <2> QED
        BY <2>1, UpdateRoomType, ContextType, RequestType
           DEF Invite, OrGiveUp
<1>6. CASE \E outcome \in Outcomes : Join(outcome)
    <2> PICK outcome \in Outcomes : Join(outcome)
        BY <1>6
    <2>1. cur \in Rooms /\ [server[cur] EXCEPT !.new = "join"] \in RoomState
        BY <1>0 DEF Join, RoomState
    <2> QED
        BY <1>0, <2>1, UpdateRoomType, ContextType, RequestType, NextSteps
           DEF Join, OrGiveUp
<1>7. CASE \E outcome \in Outcomes : WritePower(outcome)
    <2> PICK outcome \in Outcomes : WritePower(outcome)
        BY <1>7
    <2> DEFINE content == PowerContent(snapshot, plan.rooms[cur])
    <2>1. cur \in Rooms /\ snapshot \in PowerLevels
        BY DEF WritePower
    <2>2. plan.rooms[cur].power \in Levels
        BY <1>0, <2>1 DEF WritePower, RoomPlan
    <2>3. content \in PowerLevels
        BY <2>1, <2>2 DEF PowerContent, PowerLevels
    <2>4. [server[cur] EXCEPT !.pl = content, !.unset = FALSE] \in RoomState
        BY <1>0, <2>1, <2>3, LevelsSetType
    <2> QED
        BY <1>0, <2>1, <2>4, UpdateRoomType, ContextType, RequestType,
           NextSteps DEF WritePower
<1>8. CASE \E outcome \in Outcomes : SetTags(outcome)
    <2> PICK outcome \in Outcomes : SetTags(outcome)
        BY <1>8
    <2>1. cur \in Rooms /\ plan.rooms[cur].tags \in JsonMaps
        BY <1>0 DEF SetTags, RoomPlan
    <2>2. account' \in [Users -> AccountState]
        BY <2>1 DEF SetTags, Users, AccountState
    <2> QED
        BY <2>1, <2>2, ContextType, RequestType DEF SetTags
<1>9. CASE \E outcome \in Outcomes : SetDirect(outcome)
    <2> PICK outcome \in Outcomes : SetDirect(outcome)
        BY <1>9
    <2>1. account' \in [Users -> AccountState]
        BY DEF SetDirect, Users, AccountState, Plan
    <2> QED
        BY <2>1, GlobalContextType, RequestType
           DEF SetDirect, FromIgnored, RoomsToLeave
<1>10. CASE \E outcome \in Outcomes : SetIgnored(outcome)
    <2> PICK outcome \in Outcomes : SetIgnored(outcome)
        BY <1>10
    <2>0. plan.ignored \in IgnoredMaps
        BY DEF SetIgnored, Plan
    <2>1. account' \in [Users -> AccountState]
        BY <2>0 DEF SetIgnored, Users, AccountState
    <2>2. pc' = "leaving" /\ todo' \in SUBSET Rooms
        BY DEF SetIgnored, RoomsToLeave
    <2> QED
        BY <2>1, <2>2, GlobalContextType, RequestType DEF SetIgnored
<1>11. CASE \E outcome \in Outcomes : LeaveRoom(outcome)
    <2> PICK outcome \in Outcomes, r \in First(todo) :
            /\ LeaveRoom(outcome)
            /\ Request(outcome, LeaveAccepted(server[r]))
            /\ server' = IF Applied(outcome)
                         THEN [server EXCEPT ![r].old = "leave"]
                         ELSE server
            /\ ctx' = RoomErrorUnless(outcome, r)
            /\ todo' = todo \ {r}
        BY <1>11 DEF LeaveRoom
    <2>1. r \in Rooms
        BY FirstIsMember
    <2>2. [server[r] EXCEPT !.old = "leave"] \in RoomState
        BY <1>0, <2>1 DEF RoomState
    <2>3. server' \in [Rooms -> RoomState]
        BY <2>1, <2>2
    <2> QED
        BY <2>1, <2>3, ContextType, RequestType DEF LeaveRoom
<1>12. CASE RoomsDone
    BY <1>12 DEF RoomsDone, FromDirect, FromIgnored, RoomsToLeave
<1>13. CASE SkipLeave
    BY <1>13 DEF SkipLeave
<1>14. CASE Finish
    BY <1>14 DEF Finish
<1> QED
    BY <1>1, <1>2, <1>3, <1>4, <1>5, <1>6, <1>7, <1>8, <1>9, <1>10, <1>11,
       <1>12, <1>13, <1>14 DEF ExecuteStep

LEMMA EnvironmentType ==
    ASSUME TypeInv,
           Restart \/ Sync \/ SyncFails \/ Others
    PROVE  TypeInv'
<1> USE DEF TypeInv, TypeOK, StepMatchesPlan
<1>1. CASE Restart
    BY <1>1 DEF Restart
<1>2. CASE Sync
    BY <1>2 DEF Sync, SyncSees, tool
<1>3. CASE SyncFails
    BY <1>3, SpentType DEF SyncFails, tool
<1>4. CASE \E r \in Rooms : Meddle(r)
    <2> PICK r \in Rooms : Meddle(r)
        BY <1>4
    <2>1. server' \in [Rooms -> RoomState]
        BY InterferenceType DEF Meddle
    <2> QED
        BY <2>1, DisturbType DEF Meddle
<1>5. CASE \E u \in Users, r \in Rooms : MeddleRoomData(u, r)
    <2> PICK u \in Users, r \in Rooms : MeddleRoomData(u, r)
        BY <1>5
    <2>1. account' \in [Users -> AccountState]
        BY RoomDataInterferenceType DEF MeddleRoomData
    <2> QED
        BY <2>1, DisturbType DEF MeddleRoomData
<1>6. CASE \E u \in Users : MeddleIgnored(u)
    <2> PICK u \in Users : MeddleIgnored(u)
        BY <1>6
    <2>1. account' \in [Users -> AccountState]
        BY DEF MeddleIgnored, AccountState
    <2> QED
        BY <2>1, DisturbType DEF MeddleIgnored
<1> QED
    BY <1>1, <1>2, <1>3, <1>4, <1>5, <1>6 DEF Others

LEMMA StutterType == TypeInv /\ UNCHANGED vars => TypeInv'
BY DEF TypeInv, TypeOK, StepMatchesPlan, vars

LEMMA NextType == TypeInv /\ [Next]_vars => TypeInv'
BY PlanningType, ExecutionType, EnvironmentType, StutterType DEF Next

\* Every state of every run is well typed: in particular no request of the
\* execution carries a value that the plan does not have.
THEOREM TypeCorrect == Spec => []TypeOK
<1>1. TypeInv => TypeOK
    BY DEF TypeInv
<1> QED
    BY <1>1, InitType, NextType, PTL DEF Spec

-----------------------------------------------------------------------------
(* Why the old user never leaves a room the new user is not in.            *)

\* What the program does to a room never takes the new user out of it: an
\* invite is not accepted for a user who is joined.
LEMMA InviteKeepsJoined ==
    ASSUME TypeOK, NEW outcome \in Outcomes, Invite(outcome), cur \in Rooms
    PROVE  \A r \in Rooms : server[r].new = "join" => server'[r].new = "join"
BY DEF TypeOK, Invite, Request, InviteAccepted, UpdateRoom, Applied

LEMMA InitMembership == Init => MembershipInv
BY DEF Init, MembershipInv, KnownJoined, NothingMarked, PlannedWillJoin,
       MarkedWillJoin, DoneJoined, OnlyMarkedLeft, EmptyPlan, DefaultRoomPlan

LEMMA PlanningMembership ==
    ASSUME TypeInv, MembershipInv, Start \/ Cancel \/ Confirm \/ PlanStep
    PROVE  MembershipInv'
<1> USE DEF MembershipInv, KnownJoined, NothingMarked, PlannedWillJoin,
            MarkedWillJoin, DoneJoined, OnlyMarkedLeft, TypeInv, TypeOK,
            WillJoin
<1>1. CASE Start
    BY <1>1 DEF Start, EmptyPlan, DefaultRoomPlan
<1>2. CASE Cancel
    BY <1>2 DEF Cancel
<1>3. CASE Confirm
    <2>1. \A r \in Rooms : plan.rooms[r].join => r \in PlannedRooms(plan)
        BY DEF PlannedRooms, DefaultRoomPlan
    <2> QED
        BY <1>3, <2>1 DEF Confirm, JoinPending
<1>4. CASE ReadOldRooms
    BY <1>4 DEF ReadOldRooms
<1>5. CASE ReadNewRooms
    BY <1>5 DEF ReadNewRooms
<1>6. CASE PlanNextRoom
    <2> PICK failed \in Outages(RoomReads), r \in First(todo) :
            /\ plan' = [plan EXCEPT !.rooms[r] =
                 PlanRoom(server[r], account.old.tags[r],
                          account.new.tags[r], r \in newJoined, failed)]
            /\ todo' = todo \ {r}
        BY <1>6 DEF PlanNextRoom
    <2> DEFINE q == PlanRoom(server[r], account.old.tags[r],
                             account.new.tags[r], r \in newJoined, failed)
    <2>1. r \in Rooms
        BY FirstIsMember
    <2>2. ~q.leave /\ (q.errors = {} => r \in newJoined \/ q.join)
        BY PlanRoomJoins DEF PlanRoom
    <2>3. /\ plan'.rooms[r] = q
          /\ \A x \in Rooms \ {r} : plan'.rooms[x] = plan.rooms[x]
        BY <2>1 DEF Plan
    <2> QED
        BY <1>6, <2>1, <2>2, <2>3 DEF PlanNextRoom
<1>7. CASE PlanGlobalData
    <2> PICK failed \in Outages(GlobalReads) :
            plan' = PlanLeaves(
                  PlanIgnoredUsers(
                     PlanDirect(plan, newJoined, account.old.direct,
                                account.new.direct, failed),
                     account.old.ignored, account.new.ignored, failed),
                  leave, oldJoined)
        BY <1>7 DEF PlanGlobalData
    <2>1. /\ account.old.direct \in SUBSET Mapping
          /\ account.new.direct \in SUBSET Mapping
          /\ account.old.ignored \in IgnoredMaps
          /\ account.new.ignored \in IgnoredMaps
        BY DEF Users, AccountState
    <2>2. \A r \in Rooms :
             /\ plan'.rooms[r].join = plan.rooms[r].join
             /\ plan'.rooms[r].leave
                   => r \in oldJoined /\ plan.rooms[r].errors = {}
        BY <2>1, PlanDirectType, PlanIgnoredUsersType, PlanLeavesMarks
    <2>3. UNCHANGED <<server, newJoined, oldJoined, touched>>
          /\ pc = "planRooms" /\ todo = {} /\ pc' = "planGlobal"
        BY <1>7 DEF PlanGlobalData
    <2> QED
        BY <2>2, <2>3
<1>8. CASE ReadAliases
    <2>1. \A r \in Rooms : /\ plan'.rooms[r].join = plan.rooms[r].join
                           /\ plan'.rooms[r].leave = plan.rooms[r].leave
        BY <1>8, GetAliasesType DEF ReadAliases
    <2> QED
        BY <1>8, <2>1 DEF ReadAliases
<1> QED
    BY <1>1, <1>2, <1>3, <1>4, <1>5, <1>6, <1>7, <1>8 DEF PlanStep

LEMMA EnvironmentMembership ==
    ASSUME TypeInv, MembershipInv,
           Restart \/ Sync \/ SyncFails \/ Others
    PROVE  MembershipInv'
<1> USE DEF MembershipInv, KnownJoined, NothingMarked, PlannedWillJoin,
            MarkedWillJoin, DoneJoined, OnlyMarkedLeft, JoinPending, WillJoin
<1>1. CASE Restart
    BY <1>1 DEF Restart
<1>2. CASE Sync
    BY <1>2 DEF Sync, SyncSees, tool
<1>3. CASE SyncFails
    BY <1>3 DEF SyncFails, tool
<1>4. CASE Others
    <2>1. /\ UNCHANGED <<pc, oldJoined, newJoined, plan, todo, cur, ctx>>
          /\ touched \subseteq touched'
        BY <1>4 DEF Others, Meddle, MeddleRoomData, MeddleIgnored, Disturb,
                    tool
    <2>2. \A x \in Rooms \ touched' : server'[x] = server[x]
        BY <1>4 DEF Others, Meddle, MeddleRoomData, MeddleIgnored, Disturb,
                    TypeInv, TypeOK
    <2>3. newJoined \subseteq Rooms
        BY DEF TypeInv, TypeOK
    <2> QED
        BY <2>1, <2>2, <2>3
<1> QED
    BY <1>1, <1>2, <1>3, <1>4

\* The steps of the execution.  Planning being over, only three parts of the
\* invariant are at stake in most of them.
LEMMA ExecutionMembership ==
    ASSUME TypeInv, MembershipInv, ExecuteStep
    PROVE  MembershipInv'
<1> USE DEF MembershipInv, KnownJoined, NothingMarked, PlannedWillJoin,
            MarkedWillJoin, DoneJoined, OnlyMarkedLeft, TypeInv, TypeOK,
            JoinPending, WillJoin
<1>0. \A r \in Rooms : plan.rooms[r] \in RoomPlan
    BY DEF Plan
<1>1. CASE NextRoom
    <2>1. cur' \in todo /\ cur' \in Rooms
        BY <1>1, FirstIsMember DEF NextRoom
    <2> QED
        BY <1>0, <1>1, <2>1, NextSteps DEF NextRoom
<1>2. CASE StartSync
    BY <1>2 DEF StartSync, tool
<1>3. CASE Await
    BY <1>0, <1>3, NextSteps DEF Await
<1>4. CASE ReadPower
    <2>1. ctx.failedRooms \subseteq ctx'.failedRooms
        <3>1. ctx' = ctx \/ ctx' = RoomError(ctx, cur)
            BY <1>4 DEF ReadPower
        <3> QED  BY <3>1, FailedRoomsGrow
    <2>2. pc' \in {"writePower", "tags", "nextRoom"}
        BY <1>0, <1>4, NextSteps DEF ReadPower
    <2> QED
        BY <1>4, <2>1, <2>2 DEF ReadPower
<1>5. CASE \E outcome \in Outcomes : Invite(outcome)
    <2> PICK outcome \in Outcomes : Invite(outcome)
        BY <1>5
    <2>1. cur \in Rooms /\ newJoined \subseteq Rooms
        BY DEF Invite
    <2>2. \A r \in Rooms : server[r].new = "join" => server'[r].new = "join"
        BY <2>1, InviteKeepsJoined
    <2>3. outcome # "done" => cur \in ctx'.failedRooms
        BY DEF Invite, RoomErrorUnless, RoomError
    <2>4. ctx.failedRooms \subseteq ctx'.failedRooms
        BY DEF Invite, RoomErrorUnless, RoomError
    <2> QED
        BY <2>1, <2>2, <2>3, <2>4 DEF Invite, OrGiveUp
<1>6. CASE \E outcome \in Outcomes : Join(outcome)
    <2> PICK outcome \in Outcomes : Join(outcome)
        BY <1>6
    <2>1. cur \in Rooms /\ newJoined \subseteq Rooms
        BY DEF Join
    <2>2. /\ \A r \in Rooms :
                server[r].new = "join" => server'[r].new = "join"
          /\ outcome = "done" => server'[cur].new = "join"
        BY <2>1 DEF Join, UpdateRoom, Applied, RoomState
    <2>3. outcome # "done" => cur \in ctx'.failedRooms
        BY DEF Join, RoomErrorUnless, RoomError
    <2>4. ctx.failedRooms \subseteq ctx'.failedRooms
        BY DEF Join, RoomErrorUnless, RoomError
    <2> QED
        BY <1>0, <2>1, <2>2, <2>3, <2>4, NextSteps DEF Join, OrGiveUp
<1>7. CASE \E outcome \in Outcomes : WritePower(outcome)
    <2> PICK outcome \in Outcomes : WritePower(outcome)
        BY <1>7
    <2>1. cur \in Rooms /\ newJoined \subseteq Rooms
        BY DEF WritePower
    <2>2. \A r \in Rooms : server'[r].new = server[r].new
        BY <2>1 DEF WritePower, UpdateRoom, RoomState
    <2>3. ctx.failedRooms \subseteq ctx'.failedRooms
        BY DEF WritePower, RoomErrorUnless, RoomError
    <2> QED
        BY <1>0, <2>1, <2>2, <2>3, NextSteps DEF WritePower
<1>8. CASE \E outcome \in Outcomes : SetTags(outcome)
    <2> PICK outcome \in Outcomes : SetTags(outcome)
        BY <1>8
    <2>1. ctx.failedRooms \subseteq ctx'.failedRooms
        BY DEF SetTags, RoomErrorUnless, RoomError
    <2> QED
        BY <2>1 DEF SetTags
<1>9. CASE \E outcome \in Outcomes : SetDirect(outcome)
    BY <1>9 DEF SetDirect, GlobalErrorUnless, GlobalError, FromIgnored,
                RoomsToLeave
<1>10. CASE \E outcome \in Outcomes : SetIgnored(outcome)
    BY <1>10 DEF SetIgnored, GlobalErrorUnless, GlobalError, RoomsToLeave
<1>11. CASE \E outcome \in Outcomes : LeaveRoom(outcome)
    <2> PICK outcome \in Outcomes, r \in First(todo) :
            /\ LeaveRoom(outcome)
            /\ server' = IF Applied(outcome)
                         THEN [server EXCEPT ![r].old = "leave"]
                         ELSE server
            /\ ctx' = RoomErrorUnless(outcome, r)
            /\ todo' = todo \ {r}
        BY <1>11 DEF LeaveRoom
    <2>1. r \in Rooms /\ newJoined \subseteq Rooms
        BY FirstIsMember
    <2>2. \A x \in Rooms : server'[x].new = server[x].new
        BY <2>1 DEF RoomState
    <2>3. ctx.failedRooms \subseteq ctx'.failedRooms
        BY DEF RoomErrorUnless, RoomError
    <2> QED
        BY <2>1, <2>2, <2>3 DEF LeaveRoom
<1>12. CASE RoomsDone
    BY <1>12 DEF RoomsDone, FromDirect, FromIgnored, RoomsToLeave
<1>13. CASE SkipLeave
    BY <1>13 DEF SkipLeave
<1>14. CASE Finish
    BY <1>14 DEF Finish
<1> QED
    BY <1>1, <1>2, <1>3, <1>4, <1>5, <1>6, <1>7, <1>8, <1>9, <1>10, <1>11,
       <1>12, <1>13, <1>14 DEF ExecuteStep

LEMMA StutterMembership == MembershipInv /\ UNCHANGED vars => MembershipInv'
BY DEF MembershipInv, KnownJoined, NothingMarked, PlannedWillJoin,
       MarkedWillJoin, DoneJoined, OnlyMarkedLeft, JoinPending, WillJoin, vars

LEMMA NextMembership ==
    TypeInv /\ MembershipInv /\ [Next]_vars => MembershipInv'
BY PlanningMembership, ExecutionMembership, EnvironmentMembership,
   StutterMembership DEF Next

\* The invariant behind LeaveKeepsMembership holds in every state.
THEOREM MembershipInvariant == Spec => [](TypeInv /\ MembershipInv)
BY InitType, NextType, InitMembership, NextMembership, PTL DEF Spec

\* While rooms are being left, their state is changed only by the leaves and
\* by others.
LEMMA OnlyLeaveRoomLeaves ==
    ASSUME Next, pc = "leaving", server' # server
    PROVE  \/ \E outcome \in Outcomes : LeaveRoom(outcome)
           \/ \E r \in Rooms : Meddle(r)
<1>0. ~\E u \in Users, r \in Rooms : MeddleRoomData(u, r)
    BY DEF MeddleRoomData
<1>6. ~\E u \in Users : MeddleIgnored(u)
    BY DEF MeddleIgnored
<1>1. ~(Start \/ Cancel \/ Confirm \/ Restart)
    BY DEF Start, Cancel, Confirm, Restart
<1>2. ~PlanStep
    BY DEF PlanStep, ReadOldRooms, ReadNewRooms, PlanNextRoom, PlanGlobalData,
           ReadAliases
<1>3. ~(Sync \/ SyncFails)
    BY DEF Sync, SyncSees, SyncFails
<1>4. ~(NextRoom \/ StartSync \/ Await \/ ReadPower \/ RoomsDone
        \/ SkipLeave \/ Finish)
    BY DEF NextRoom, StartSync, Await, ReadPower, RoomsDone, SkipLeave, Finish
<1>5. ~\E outcome \in Outcomes :
          \/ Invite(outcome) \/ Join(outcome) \/ WritePower(outcome)
          \/ SetTags(outcome) \/ SetDirect(outcome) \/ SetIgnored(outcome)
    BY DEF Invite, Join, WritePower, SetTags, SetDirect, SetIgnored
<1> QED
    BY <1>0, <1>1, <1>2, <1>3, <1>4, <1>5, <1>6 DEF Next, ExecuteStep, Others

\* The program leaves an untouched room only when that room's turn has come,
\* and then changes nothing else.
LEMMA LeavingStep ==
    ASSUME TypeInv, Next, NEW r \in Rooms, Leaves(r)
    PROVE  /\ pc = "leaving" /\ r \in todo /\ r \notin touched
           /\ r \notin ctx.failedRooms
           /\ server' = [server EXCEPT ![r].old = "leave"]
           /\ UNCHANGED <<account, touched>>
<1>1. pc = "leaving" /\ server' # server /\ r \notin touched'
    BY DEF Leaves
<1>2. CASE \E x \in Rooms : Meddle(x)
    <2> PICK x \in Rooms : Meddle(x)
        BY <1>2
    <2>1. x # r
        BY <1>1 DEF Meddle, Disturb
    <2>2. server'[r] = server[r]
        BY <2>1 DEF Meddle, TypeInv, TypeOK
    <2> QED
        BY <2>2 DEF Leaves
<1>3. CASE \E outcome \in Outcomes : LeaveRoom(outcome)
    <2> PICK outcome \in Outcomes, x \in First(todo) :
            /\ LeaveRoom(outcome)
            /\ ~SkipsLeave(x)
            /\ server' = IF Applied(outcome)
                         THEN [server EXCEPT ![x].old = "leave"]
                         ELSE server
        BY <1>3 DEF LeaveRoom
    <2>1. x = r /\ r \in todo
        BY <1>1, FirstIsMember DEF Leaves, TypeInv, TypeOK
    <2> QED
        BY <1>1, <2>1 DEF LeaveRoom, SkipsLeave
<1> QED
    BY <1>1, <1>2, <1>3, OnlyLeaveRoomLeaves

\* With --leave, the old user never leaves a room the new user is not in,
\* whatever fails, whoever interferes elsewhere, and however often the
\* program is interrupted and run again.
THEOREM LeavingIsSafe == Spec => LeaveKeepsMembership
<1> DEFINE Safe == \A r \in Rooms : Leaves(r) => server[r].new = "join"
<1>1. TypeInv /\ MembershipInv /\ [Next]_vars => [Safe]_vars
    <2> SUFFICES ASSUME TypeInv, MembershipInv, Next, NEW r \in Rooms,
                        Leaves(r)
                 PROVE  server[r].new = "join"
        BY DEF vars
    <2>1. /\ pc = "leaving" /\ r \in todo /\ r \notin touched
          /\ r \notin ctx.failedRooms
        BY LeavingStep
    <2>2. WillJoin(plan, newJoined, r)
        BY <2>1 DEF MembershipInv, OnlyMarkedLeft, MarkedWillJoin
    <2>3. ~JoinPending(r)
        BY <2>1 DEF JoinPending
    <2> QED
        BY <2>1, <2>2, <2>3
           DEF WillJoin, MembershipInv, KnownJoined, DoneJoined
<1> QED
    BY <1>1, MembershipInvariant, PTL DEF Spec, LeaveKeepsMembership
=============================================================================
