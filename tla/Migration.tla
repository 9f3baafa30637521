----------------------------- MODULE Migration -----------------------------
(***************************************************************************)
(* One invocation after another of matrix-user-swap, from the reads of     *)
(* make_plan (src/plan.rs) to the last request of execute_plan             *)
(* (src/execute.rs), against a homeserver whose rooms other users change   *)
(* meanwhile, whose answers can be lost, and under a process that can be   *)
(* killed and run again at any moment.                                     *)
(*                                                                         *)
(* pc is the point the program has reached; between two awaits the code    *)
(* is one action.  touched, spent and settled are history variables: the   *)
(* rooms that somebody else changed since this invocation began, the       *)
(* amount of trouble so far, and whether the last invocation did all of    *)
(* its work and nothing changed since.                                     *)
(***************************************************************************)
EXTENDS Planner

CONSTANTS
    Profiles,       \* the states a room may initially be in
    OldAccounts, NewAccounts,   \* initial account data of the two users
    FallibleReads,  \* the planner's reads that may fail
    OthersChange,   \* what others change: "rooms", "accounts" or both
    MaxFaults,      \* failed reads, lost answers and dead sync loops
    MaxMeddling,    \* changes made by others
    MaxRuns         \* invocations of the program

ASSUME ProfilesAssumption ==
    /\ Profiles \subseteq {s \in RoomState : WellFormed(s)}
    /\ OldAccounts \subseteq AccountState
    /\ NewAccounts \subseteq AccountState
ASSUME BoundsAssumption ==
    MaxFaults \in Nat /\ MaxMeddling \in Nat /\ MaxRuns \in Nat

VARIABLES
    server,      \* room id -> RoomState
    account,     \* user -> AccountState
    pc,          \* where the program is
    leave,       \* PlanSettings::leave
    oldJoined,   \* MakePlanState::old_joined_rooms
    newJoined,   \* MakePlanState::new_joined_rooms
    plan,        \* the Plan
    todo,        \* rooms a loop has still to visit
    cur,         \* the room being visited
    snapshot,    \* power levels read by set_power_level
    ctx,         \* ExecuteContext: errors so far
    seen,        \* SyncLoop::invites: rooms whose invite the sync loop saw
    sync,        \* whether the sync loop runs
    touched, spent, settled

tool == <<pc, leave, oldJoined, newJoined, plan, todo, cur, snapshot, ctx>>
vars == <<server, account, pc, leave, oldJoined, newJoined, plan, todo, cur,
          snapshot, ctx, seen, sync, touched, spent, settled>>

Planning == {"readOld", "readNew", "planRooms", "planGlobal", "confirm"}
RoomSteps == {"nextRoom", "invite", "await", "join", "readPower",
              "writePower", "tags"}
Executing == RoomSteps \cup {"direct", "ignored", "leaving"}
Ended == {"succeeded", "failed", "cancelled"}

\* BTreeMaps and the sorted joined rooms are visited in order of the ids.
First(S) == {r \in S : \A q \in S : r <= q}

NoErrors == [erred |-> FALSE, failedRooms |-> {}, globalErrors |-> FALSE]

TypeOK ==
    /\ server \in [Rooms -> RoomState]
    /\ account \in [Users -> AccountState]
    /\ pc \in {"start"} \cup Planning \cup Executing \cup Ended
    /\ leave \in BOOLEAN
    /\ oldJoined \in SUBSET Rooms
    /\ newJoined \in SUBSET Rooms
    /\ plan \in Plan
    /\ todo \in SUBSET Rooms
    /\ cur \in Rooms \cup {None}
    /\ cur \in Rooms \/ pc \notin RoomSteps \ {"nextRoom"}
    /\ snapshot \in PowerLevels \cup {None}
    /\ snapshot \in PowerLevels \/ pc # "writePower"
    /\ ctx \in [erred : BOOLEAN, failedRooms : SUBSET Rooms,
                globalErrors : BOOLEAN]
    /\ seen \in SUBSET Rooms
    /\ sync \in {"off", "on", "dead"}
    /\ touched \in SUBSET Rooms
    /\ spent \in [faults : 0 .. MaxFaults, meddling : 0 .. MaxMeddling,
                  runs : 0 .. MaxRuns]
    /\ settled \in BOOLEAN

Init ==
    /\ server \in [Rooms -> Profiles]
    /\ account \in {[old |-> o, new |-> n] : o \in OldAccounts,
                                             n \in NewAccounts}
    /\ pc = "start" /\ leave = FALSE
    /\ oldJoined = {} /\ newJoined = {}
    /\ plan = EmptyPlan
    /\ todo = {} /\ cur = None /\ snapshot = None
    /\ ctx = NoErrors
    /\ seen = {} /\ sync = "off"
    /\ touched = {} /\ settled = FALSE
    /\ spent = [faults |-> 0, meddling |-> 0, runs |-> 0]

-----------------------------------------------------------------------------
(* Requests that change something.  They take effect and are acknowledged, *)
(* or are refused; or a fault makes them fail, before they reach the       *)
(* homeserver or with the answer lost.                                     *)

Faulty == {"unreached", "unanswered"}
Outcomes == {"done", "refused"} \cup Faulty
Applied(outcome) == outcome \in {"done", "unanswered"}

SpendFaults(n) ==
    /\ spent.faults + n <= MaxFaults
    /\ spent' = [spent EXCEPT !.faults = @ + n]

Request(outcome, accepted) ==
    /\ accepted <=> outcome # "refused"
    /\ SpendFaults(IF outcome \in Faulty THEN 1 ELSE 0)

\* Reads fail by outages: whatever fails in one planning step is one fault.
Outages(reads) == SUBSET (FallibleReads \cap reads)
Reads(failed) == SpendFaults(IF failed = {} THEN 0 ELSE 1)

-----------------------------------------------------------------------------
(* make_plan *)

Start ==
    /\ pc = "start"
    /\ spent.runs < MaxRuns
    /\ spent' = [spent EXCEPT !.runs = @ + 1]
    /\ pc' = "readOld"
    /\ leave' \in BOOLEAN
    /\ oldJoined' = {} /\ newJoined' = {}
    /\ plan' = EmptyPlan
    /\ todo' = {} /\ cur' = None /\ snapshot' = None
    /\ ctx' = NoErrors
    /\ seen' = {} /\ sync' = "off"
    /\ touched' = {}
    /\ UNCHANGED <<server, account, settled>>

\* get_joined_rooms of the old user; a failure is a FatalPlanError.
ReadOldRooms ==
    /\ pc = "readOld"
    /\ \E failed \in Outages({"joinedRooms"}) :
          /\ Reads(failed)
          /\ IF failed = {}
             THEN /\ oldJoined' = {r \in Rooms : server[r].old = "join"}
                  /\ pc' = "readNew"
             ELSE pc' = "failed" /\ UNCHANGED oldJoined
    /\ UNCHANGED <<server, account, leave, newJoined, plan, todo, cur,
                   snapshot, ctx, seen, sync, touched, settled>>

ReadNewRooms ==
    /\ pc = "readNew"
    /\ \E failed \in Outages({"joinedRooms"}) :
          /\ Reads(failed)
          /\ IF failed = {}
             THEN /\ newJoined' = {r \in Rooms : server[r].new = "join"}
                  /\ todo' = oldJoined
                  /\ pc' = "planRooms"
             ELSE pc' = "failed" /\ UNCHANGED <<newJoined, todo>>
    /\ UNCHANGED <<server, account, leave, oldJoined, plan, cur, snapshot,
                   ctx, seen, sync, touched, settled>>

PlanNextRoom ==
    /\ pc = "planRooms"
    /\ \E failed \in Outages(RoomReads), r \in First(todo) :
          /\ Reads(failed)
          /\ plan' = [plan EXCEPT !.rooms[r] =
                PlanRoom(server[r], account.old.tags[r], account.new.tags[r],
                         r \in newJoined, failed)]
          /\ todo' = todo \ {r}
    /\ UNCHANGED <<server, account, pc, leave, oldJoined, newJoined, cur,
                   snapshot, ctx, seen, sync, touched, settled>>

PlanGlobalData ==
    /\ pc = "planRooms" /\ todo = {}
    /\ \E failed \in Outages(GlobalReads) :
          LET direct == PlanDirect(plan, newJoined, account.old.direct,
                                   account.new.direct, failed)
              ignored == PlanIgnoredUsers(direct, account.old.ignored,
                                          account.new.ignored, failed)
          IN  /\ Reads(failed)
              /\ plan' = PlanLeaves(ignored, leave, oldJoined)
    /\ pc' = "planGlobal"
    /\ UNCHANGED <<server, account, leave, oldJoined, newJoined, todo, cur,
                   snapshot, ctx, seen, sync, touched, settled>>

\* get_aliases; then the plan is printed and the user is asked.
ReadAliases ==
    /\ pc = "planGlobal"
    /\ \E failed \in SUBSET Rooms :
          /\ "alias" \in FallibleReads \/ failed = {}
          /\ Reads(failed)
          /\ plan' = GetAliases(plan, failed)
    /\ pc' = "confirm"
    /\ UNCHANGED <<server, account, leave, oldJoined, newJoined, todo, cur,
                   snapshot, ctx, seen, sync, touched, settled>>

\* --dry-run, or the user does not confirm.
Cancel ==
    /\ pc = "confirm"
    /\ pc' = "cancelled"
    /\ UNCHANGED <<server, account, leave, oldJoined, newJoined, plan, todo,
                   cur, snapshot, ctx, seen, sync, touched, spent, settled>>

Confirm ==
    /\ pc = "confirm"
    /\ pc' = "nextRoom"
    /\ todo' = PlannedRooms(plan)
    /\ settled' = FALSE
    /\ UNCHANGED <<server, account, leave, oldJoined, newJoined, plan, cur,
                   snapshot, ctx, seen, sync, touched, spent>>

-----------------------------------------------------------------------------
(* execute_plan: the rooms, one at a time.                                 *)

RoomError_NotCounted(c, r) ==                            \* mutated form
    [c EXCEPT !.failedRooms = @ \cup {r}]

\* ExecuteContext::error
RoomError(c, r) == [c EXCEPT !.erred = TRUE,
                             !.failedRooms = @ \cup {r}]
GlobalError(c) == [c EXCEPT !.erred = TRUE, !.globalErrors = TRUE]

RoomErrorUnless(outcome, r) ==
    IF outcome = "done" THEN ctx ELSE RoomError(ctx, r)

\* The steps of migrate_room_inner that a room's plan does not ask for are
\* skipped.
FromTags(p) == IF p.tags # None THEN "tags" ELSE "nextRoom"
FromPower(p) == IF p.power # None THEN "readPower" ELSE FromTags(p)
FromJoin(p) == IF p.join THEN "join" ELSE FromPower(p)
FromInvite(p) == IF p.invite THEN "invite" ELSE FromJoin(p)

OrGiveUp_Never(outcome, next) == next                    \* mutated form

\* A failed invite or join ends the room's migration: the "?" operator.
OrGiveUp(outcome, next) == IF outcome = "done" THEN next ELSE "nextRoom"

NextRoom ==
    /\ pc = "nextRoom"
    /\ cur' \in First(todo)
    /\ todo' = todo \ {cur'}
    /\ pc' = FromInvite(plan.rooms[cur'])
    /\ UNCHANGED <<server, account, leave, oldJoined, newJoined, plan,
                   snapshot, ctx, seen, sync, touched, spent, settled>>

\* What a request does to the current room, if it takes effect.
UpdateRoom(outcome, s) ==
    server' = IF Applied(outcome) THEN [server EXCEPT ![cur] = s] ELSE server

Invite(outcome) ==
    /\ pc = "invite"
    /\ Request(outcome, InviteAccepted(server[cur]))
    /\ UpdateRoom(outcome, [server[cur] EXCEPT !.new = "invite"])
    /\ pc' = OrGiveUp(outcome, "await")
    /\ ctx' = RoomErrorUnless(outcome, cur)
    /\ UNCHANGED <<account, leave, oldJoined, newJoined, plan, todo, cur,
                   snapshot, seen, sync, touched, settled>>

\* wait_for_invite starts the sync loop the first time it is called ...
StartSync ==
    /\ pc = "await" /\ sync = "off"
    /\ sync' = "on"
    /\ UNCHANGED <<server, account, seen, touched, spent, settled>>
    /\ UNCHANGED tool

\* ... and waits until the loop sees the invite.
Await ==
    /\ pc = "await" /\ cur \in seen
    /\ pc' = FromJoin(plan.rooms[cur])
    /\ UNCHANGED <<server, account, leave, oldJoined, newJoined, plan, todo,
                   cur, snapshot, ctx, seen, sync, touched, spent, settled>>

Join(outcome) ==
    /\ pc = "join"
    /\ Request(outcome, JoinAccepted(server[cur]))
    /\ UpdateRoom(outcome, [server[cur] EXCEPT !.new = "join"])
    /\ pc' = OrGiveUp(outcome, FromPower(plan.rooms[cur]))
    /\ ctx' = RoomErrorUnless(outcome, cur)
    /\ UNCHANGED <<account, leave, oldJoined, newJoined, plan, todo, cur,
                   snapshot, seen, sync, touched, settled>>

\* set_power_level reads the levels again ...
ReadPower ==
    /\ pc = "readPower"
    /\ \E failed \in Outages({"powerLevels", "create", "version"}) :
          /\ Reads(failed)
          /\ IF "powerLevels" \notin failed
             THEN /\ snapshot' = LevelsRead(server[cur], failed)
                  /\ pc' = "writePower"
                  /\ UNCHANGED ctx
             ELSE /\ ctx' = RoomError(ctx, cur)
                  /\ pc' = FromTags(plan.rooms[cur])
                  /\ UNCHANGED snapshot
    /\ UNCHANGED <<server, account, leave, oldJoined, newJoined, plan, todo,
                   cur, seen, sync, touched, settled>>

PowerContent_Fresh(levels, p) ==                         \* mutated form
    [old |-> 0, new |-> p.power, invite |-> 0, change |-> 0,
     notifications |-> "default"]

\* ... and writes them all back with the planned level of the new user.
PowerContent(levels, p) == [levels EXCEPT !.new = p.power]

WritePower(outcome) ==
    /\ pc = "writePower"
    /\ LET content == PowerContent(snapshot, plan.rooms[cur]) IN
       /\ Request(outcome, PowerLevelsAccepted(server[cur], content))
       /\ UpdateRoom(outcome, [server[cur] EXCEPT !.pl = content,
                                                  !.unset = FALSE])
    /\ pc' = FromTags(plan.rooms[cur])
    /\ ctx' = RoomErrorUnless(outcome, cur)
    /\ snapshot' = None
    /\ UNCHANGED <<account, leave, oldJoined, newJoined, plan, todo, cur,
                   seen, sync, touched, settled>>

SetTags(outcome) ==
    /\ pc = "tags"
    /\ Request(outcome, TRUE)
    /\ account' = IF Applied(outcome)
                  THEN [account EXCEPT !.new.tags[cur] = plan.rooms[cur].tags]
                  ELSE account
    /\ pc' = "nextRoom"
    /\ ctx' = RoomErrorUnless(outcome, cur)
    /\ UNCHANGED <<server, leave, oldJoined, newJoined, plan, todo, cur,
                   snapshot, seen, sync, touched, settled>>

-----------------------------------------------------------------------------
(* execute_plan: the global account data, then the leaves.                 *)

FromIgnored(p) == IF p.ignored # None THEN "ignored" ELSE "leaving"
FromDirect(p) == IF p.direct # None THEN "direct" ELSE FromIgnored(p)

RoomsToLeave_Always(p, c) == {r \in Rooms : p.rooms[r].leave}   \* mutated

\* The rooms leave_room is called for.
RoomsToLeave(p, c) ==
    IF c.globalErrors THEN {} ELSE {r \in Rooms : p.rooms[r].leave}

RoomsDone ==
    /\ pc = "nextRoom" /\ todo = {}
    /\ pc' = FromDirect(plan)
    /\ todo' = IF pc' = "leaving" THEN RoomsToLeave(plan, ctx) ELSE {}
    /\ cur' = None
    /\ UNCHANGED <<server, account, leave, oldJoined, newJoined, plan,
                   snapshot, ctx, seen, sync, touched, spent, settled>>

GlobalErrorUnless_Lost(outcome) == ctx                   \* mutated form

GlobalErrorUnless(outcome) == IF outcome = "done" THEN ctx ELSE GlobalError(ctx)

SetDirect(outcome) ==
    /\ pc = "direct"
    /\ Request(outcome, TRUE)
    /\ account' = IF Applied(outcome)
                  THEN [account EXCEPT !.new.direct = plan.direct]
                  ELSE account
    /\ ctx' = GlobalErrorUnless(outcome)
    /\ pc' = FromIgnored(plan)
    /\ todo' = IF pc' = "leaving" THEN RoomsToLeave(plan, ctx') ELSE {}
    /\ UNCHANGED <<server, leave, oldJoined, newJoined, plan, cur, snapshot,
                   seen, sync, touched, settled>>

SetIgnored(outcome) ==
    /\ pc = "ignored"
    /\ Request(outcome, TRUE)
    /\ account' = IF Applied(outcome)
                  THEN [account EXCEPT !.new.ignored = plan.ignored]
                  ELSE account
    /\ ctx' = GlobalErrorUnless(outcome)
    /\ pc' = "leaving"
    /\ todo' = RoomsToLeave(plan, ctx')
    /\ UNCHANGED <<server, leave, oldJoined, newJoined, plan, cur, snapshot,
                   seen, sync, touched, settled>>

SkipsLeave_Never(r) == FALSE                             \* mutated form

SkipsLeave(r) == r \in ctx.failedRooms

\* Not leaving a room that was not fully migrated.
SkipLeave ==
    /\ pc = "leaving"
    /\ \E r \in First(todo) : SkipsLeave(r) /\ todo' = todo \ {r}
    /\ UNCHANGED <<server, account, pc, leave, oldJoined, newJoined, plan,
                   cur, snapshot, ctx, seen, sync, touched, spent, settled>>

LeaveRoom(outcome) ==
    /\ pc = "leaving"
    /\ \E r \in First(todo) :
          /\ ~SkipsLeave(r)
          /\ Request(outcome, LeaveAccepted(server[r]))
          /\ server' = IF Applied(outcome)
                       THEN [server EXCEPT ![r].old = "leave"]
                       ELSE server
          /\ ctx' = RoomErrorUnless(outcome, r)
          /\ todo' = todo \ {r}
    /\ UNCHANGED <<account, pc, leave, oldJoined, newJoined, plan, cur,
                   snapshot, seen, sync, touched, settled>>

CleanPlan(p) == p.errors = {} /\ \A r \in Rooms : p.rooms[r].errors = {}

Finish ==
    /\ pc = "leaving" /\ todo = {}
    /\ pc' = IF ctx.erred THEN "failed" ELSE "succeeded"
    /\ settled' = (~ctx.erred /\ CleanPlan(plan) /\ touched = {})
    /\ UNCHANGED <<server, account, leave, oldJoined, newJoined, plan, todo,
                   cur, snapshot, ctx, seen, sync, touched, spent>>

-----------------------------------------------------------------------------
(* The sync loop, the process and the rest of the world.                   *)

\* A response of the homeserver contains the invite of room r.
SyncSees(r) ==
    /\ sync = "on"
    /\ server[r].new = "invite" /\ r \notin seen
    /\ seen' = seen \cup {r}
    /\ UNCHANGED <<server, account, sync, touched, spent, settled>>
    /\ UNCHANGED tool

\* A sync request fails: the loop ends.
SyncFails ==
    /\ sync = "on" /\ pc \in Executing
    /\ SpendFaults(1)
    /\ sync' = "dead"
    /\ UNCHANGED <<server, account, seen, touched, settled>>
    /\ UNCHANGED tool

\* The process has ended, or is killed; it can be started again.
Restart ==
    /\ pc # "start"
    /\ spent.runs < MaxRuns
    /\ pc' = "start"
    /\ UNCHANGED <<server, account, leave, oldJoined, newJoined, plan, todo,
                   cur, snapshot, ctx, seen, sync, touched, spent, settled>>

\* Somebody else changes what concerns the rooms R.
Disturb(kind, R) ==
    /\ kind \in OthersChange
    /\ spent.meddling < MaxMeddling
    /\ spent' = [spent EXCEPT !.meddling = @ + 1]
    /\ touched' = touched \cup R
    /\ settled' = FALSE
    /\ UNCHANGED <<seen, sync>>
    /\ UNCHANGED tool

\* Others change room r.
Meddle(r) ==
    /\ Disturb("rooms", {r})
    /\ \E s \in Interference(server[r]) \ {server[r]} :
          server' = [server EXCEPT ![r] = s]
    /\ UNCHANGED account

\* Another client of user u changes its account data about room r ...
MeddleRoomData(u, r) ==
    /\ Disturb("accounts", {r})
    /\ \E a \in RoomDataInterference(account[u], r) \ {account[u]} :
          account' = [account EXCEPT ![u] = a]
    /\ UNCHANGED server

\* ... or whom it ignores, everywhere.
MeddleIgnored(u) ==
    /\ Disturb("accounts", Rooms)
    /\ \E m \in IgnoredMaps \ {account[u].ignored} :
          account' = [account EXCEPT ![u].ignored = m]
    /\ UNCHANGED server

-----------------------------------------------------------------------------
PlanStep ==
    \/ ReadOldRooms \/ ReadNewRooms
    \/ PlanNextRoom \/ PlanGlobalData \/ ReadAliases

ExecuteStep ==
    \/ NextRoom \/ StartSync \/ Await \/ ReadPower
    \/ \E outcome \in Outcomes :
          \/ Invite(outcome) \/ Join(outcome) \/ WritePower(outcome)
          \/ SetTags(outcome) \/ SetDirect(outcome) \/ SetIgnored(outcome)
          \/ LeaveRoom(outcome)
    \/ RoomsDone \/ SkipLeave \/ Finish

Sync == \E r \in Rooms : SyncSees(r)

Others ==
    \/ \E r \in Rooms : Meddle(r)
    \/ \E u \in Users, r \in Rooms : MeddleRoomData(u, r)
    \/ \E u \in Users : MeddleIgnored(u)

Next ==
    \/ Start \/ Cancel \/ Confirm \/ Restart
    \/ PlanStep \/ ExecuteStep
    \/ Sync \/ SyncFails
    \/ Others

\* The tokio runtime runs both tasks while the process lives.  Nothing makes
\* the user start the program or confirm, and no fault has to happen.
Fairness == WF_vars(PlanStep) /\ WF_vars(ExecuteStep) /\ WF_vars(Sync)

Spec == Init /\ [][Next]_vars /\ Fairness

-----------------------------------------------------------------------------
(* What the program promises.  All of it is said of the rooms that nobody  *)
(* else changed since the invocation began: in the others the plan can be  *)
(* out of date.                                                            *)

\* The step by which the program makes the old user leave room r.
Leaves(r) == pc = "leaving" /\ server[r].old = "join"
             /\ server'[r].old = "leave" /\ r \notin touched'

\* The old user never leaves a room the new user is not in ("leave rooms
\* that are fully migrated", plan.rs:40, execute.rs:292).
LeaveKeepsMembership ==
    [][\A r \in Rooms : Leaves(r) => server[r].new = "join"]_vars

\* ... nor one where it is more powerful than the new user.
LeaveKeepsPower ==
    [][\A r \in Rooms : Leaves(r) =>
          TrueLevel(server[r], "new") >= TrueLevel(server[r], "old")]_vars

\* ... nor one whose tags, direct-message mark or history the new user does
\* not have, nor any while a user it ignores is not ignored by the new user.
LeaveKeepsData ==
    [][\A r \in Rooms : Leaves(r) =>
          /\ server[r].history = "shared"
          /\ \A k \in Keys :
                account.old.tags[r][k] \in {None, account.new.tags[r][k]}
          /\ IgnoredUsers(account.old) \subseteq IgnoredUsers(account.new)
          /\ \A c \in Contacts :
                <<c, r>> \in account.old.direct
                   => <<c, r>> \in account.new.direct]_vars

\* No step of the program takes from the new user an entry of its account
\* data, whatever the old user has under that key ("left with it's `new`
\* value", utils.rs:31), nor one that others wrote, except in what others have
\* changed since the invocation began: there it writes what it read before.
KeepsNewData ==
    [][/\ \A r \in Rooms \ touched', k \in Keys :
             account.new.tags[r][k] # None =>
                account'.new.tags[r][k] = account.new.tags[r][k]
       /\ \A m \in account.new.direct :
             m[2] \notin touched' => m \in account'.new.direct
       /\ touched' # Rooms =>
             IgnoredUsers(account.new) \subseteq IgnoredUsers(account'.new)
      ]_vars

\* "The old user will promote the new user" (main.rs:244): it never makes it
\* less powerful, unless others changed the room meanwhile, and the old user
\* itself has since become more powerful than the level that was planned.
PromotesOnly ==
    [][pc = "writePower" /\ pc' # pc
          /\ server'[cur].pl.new < server[cur].pl.new
       => cur \in touched
          /\ TrueLevel(server[cur], "old") > plan.rooms[cur].power]_vars

\* The levels are written back as they were read "right before writing"
\* (plan.rs:64), so that no level but the new user's changes in a room that
\* others left alone.  What redaction drops is another matter
\* (KeepsPowerLevels), and where no levels were set, a creator that could not
\* be read loses its level.
KeepsOtherLevels ==
    [][\A r \in Rooms \ touched :
          pc = "writePower" /\ r = cur /\ pc' # pc /\ ~server[r].unset
             => [server'[r].pl EXCEPT !.new = 0, !.notifications = "default"]
                = [server[r].pl EXCEPT !.new = 0,
                                       !.notifications = "default"]]_vars

\* The effect of a room's plan, as seen on the homeserver.
TookEffect(p, r) ==
    /\ p.join => server[r].new = "join"
    /\ p.power # None => server[r].pl.new = p.power
    /\ p.tags # None => account.new.tags[r] = p.tags
    /\ p.leave => server[r].old = "leave"

\* Exit status 0 after an execution means that the whole plan took effect:
\* every failure was counted (execute.rs:91, 155).
SuccessMeansApplied ==
    pc = "succeeded" =>
       /\ \A r \in Rooms \ touched : TookEffect(plan.rooms[r], r)
       /\ plan.direct # None =>
             \A m \in Mapping : m[2] \notin touched =>
                (m \in account.new.direct <=> m \in plan.direct)
       /\ plan.ignored # None /\ touched # Rooms =>
             account.new.ignored = plan.ignored

\* Running the program again after a migration without errors plans nothing
\* but leaves (plan_room returns None, merge_json returns None).
RerunIsNoop ==
    settled /\ pc = "confirm" =>
       /\ plan.direct = None /\ plan.ignored = None
       /\ \A r \in Rooms :
             LET p == plan.rooms[r] IN
             ~p.invite /\ ~p.join /\ p.power = None /\ p.tags = None

\* An invocation that resumes an interrupted one does not invite again a
\* user who has the invite (plan.rs:536).
NoRedundantInvite ==
    pc = "invite" /\ cur \notin touched => server[cur].new = "leave"

\* The room is waited for although its invite can no longer be seen: others
\* changed the room, or the sync loop is dead.
WaitsInVain == pc = "await" /\ (cur \in touched \/ sync = "dead")

\* A confirmed execution comes to its end, unless it waits in vain.
ExecutionEnds ==
    pc \in Executing ~> (pc \in Ended \cup {"start"} \/ WaitsInVain)

\* Whether the execution has still to decide about joining room r.
JoinPending(r) ==
    \/ pc \in RoomSteps /\ r \in todo
    \/ pc \in {"invite", "await", "join"} /\ r = cur

-----------------------------------------------------------------------------
(* The migration implements Handover, as long as the planner reads the     *)
(* create events and room versions, and no room was made by the old user   *)
(* itself in version 12: the levels it acts on are wrong otherwise.        *)

Parts == {"membership", "power", "history", "tags", "direct", "ignored"}

\* What the new user lacks of room r.
Pending(r) ==
    PushIf(server[r].new # "join", "membership")
    \cup PushIf(TrueLevel(server[r], "new") < TrueLevel(server[r], "old"),
                "power")
    \cup PushIf(server[r].history # "shared", "history")
    \cup PushIf(\E k \in Keys : account.old.tags[r][k]
                                 \notin {None, account.new.tags[r][k]}, "tags")
    \cup PushIf(\E c \in Contacts :
                   <<c, r>> \in account.old.direct \ account.new.direct,
                "direct")
    \cup PushIf(~(IgnoredUsers(account.old)
                     \subseteq IgnoredUsers(account.new)), "ignored")

Promise == INSTANCE Handover WITH
    present <- {r \in Rooms : server[r].old = "join"},
    pending <- [r \in Rooms |-> Pending(r)],
    contested <- touched

\* Every step of the program hands something over, or leaves a room of which
\* nothing is pending, or changes nothing that matters; nothing that was
\* handed over is taken back, in this invocation or in a later one, and none
\* but others make a room lose anything (execute.rs:113-153).
HandoverSpec == Promise!Spec

-----------------------------------------------------------------------------
(***************************************************************************)
(* Why LeaveKeepsMembership holds, as an inductive invariant: the planner  *)
(* marks no room the new user will not be in (plan.rs:439, 816); the       *)
(* program never takes the new user out of a room; and at every moment of  *)
(* the execution a room that was to be joined is joined, or its turn has   *)
(* not come, or it is among the failed rooms, or others changed it.        *)
(***************************************************************************)
KnownJoined == \A r \in newJoined \ touched : server[r].new = "join"

NothingMarked ==
    pc \in {"readOld", "readNew"} => \A r \in Rooms : ~plan.rooms[r].leave

PlannedWillJoin ==
    pc = "planRooms" =>
       \A r \in oldJoined \ todo :
          plan.rooms[r].errors = {} => WillJoin(plan, newJoined, r)

MarkedWillJoin ==
    \A r \in Rooms : plan.rooms[r].leave => WillJoin(plan, newJoined, r)

DoneJoined ==
    pc \in Executing =>
       \A r \in Rooms \ (ctx.failedRooms \cup touched) :
          plan.rooms[r].join /\ ~JoinPending(r) => server[r].new = "join"

OnlyMarkedLeft == pc = "leaving" => \A r \in todo : plan.rooms[r].leave

MembershipInv ==
    /\ KnownJoined /\ NothingMarked /\ PlannedWillJoin
    /\ MarkedWillJoin /\ DoneJoined /\ OnlyMarkedLeft

-----------------------------------------------------------------------------
(* What the code and its texts say, and the program does not do.           *)

\* Only the new user's level is the plan's business, the rest of the event
\* is as it was read "right before writing" (plan.rs:64).
KeepsPowerLevels ==
    [][\A r \in Rooms :
          pc = "writePower" /\ r = cur /\ pc' # pc
             => [server'[r].pl EXCEPT !.new = 0]
                = [server[r].pl EXCEPT !.new = 0]]_vars

\* A conflict is reported of a user that both users have "entries in the
\* ignored users list for" (plan.rs:291).
ConflictNamesUser ==
    "IgnoredUserMerge" \in plan.errors =>
       IgnoredUsers(account.old) \cap IgnoredUsers(account.new) # {}
=============================================================================
