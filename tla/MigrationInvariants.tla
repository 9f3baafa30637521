------------------------ MODULE MigrationInvariants ------------------------
(***************************************************************************)
(* Why the promises of Migration hold, as inductive invariants.  All of it *)
(* is said of the rooms that nobody else changed since the invocation      *)
(* began (those outside touched): what the planner knew of them stays true *)
(* until the execution itself changes it.                                  *)
(***************************************************************************)
EXTENDS Migration

-----------------------------------------------------------------------------
(* What the plan takes from the new user: nothing.  These hold in every    *)
(* state, because an invocation begins with the empty plan.                *)

\* Others cannot change levels without setting them.
PlanRaises ==
    \A r \in Rooms :
       (r \notin touched \/ server[r].unset) /\ plan.rooms[r].power # None
          => server[r].pl.new <= plan.rooms[r].power

PlanKeepsTags ==
    \A r \in Rooms \ touched :
       plan.rooms[r].tags # None =>
          \A k \in Keys : account.new.tags[r][k] # None =>
             plan.rooms[r].tags[k] = account.new.tags[r][k]

PlanKeepsDirect ==
    plan.direct # None =>
       \A m \in account.new.direct : m[2] \notin touched => m \in plan.direct

PlanKeepsIgnored ==
    plan.ignored # None /\ touched # Rooms =>
       IgnoredUsers(account.new)
          \subseteq IgnoredUsers([account.new EXCEPT !.ignored = plan.ignored])

\* The levels about to be written back are what can be read in the room.
SnapshotFresh ==
    pc = "writePower" /\ cur \notin touched =>
       \E failed \in SUBSET {"create", "version"} :
          snapshot = LevelsRead(server[cur], failed)

\* Unset levels are the default ones.
LevelsMakeSense == \A r \in Rooms : WellFormed(server[r])

\* The new user is in none of the other rooms.
AbsentKnown ==
    pc = "planRooms" =>
       \A r \in Rooms \ (touched \cup newJoined) : server[r].new # "join"

VisitedOnce == pc \in RoomSteps \ {"nextRoom"} => cur \notin todo

\* A room is planned, and waits, to be invited to: it has still to be.
InvitesNeeded ==
    pc \in Planning \cup RoomSteps =>
       \A r \in Rooms \ touched :
          plan.rooms[r].invite /\ (pc \in RoomSteps => r \in todo)
             => server[r].new = "leave"

PlanInv ==
    /\ PlanRaises /\ PlanKeepsTags /\ PlanKeepsDirect /\ PlanKeepsIgnored
    /\ SnapshotFresh /\ LevelsMakeSense /\ AbsentKnown
    /\ VisitedOnce /\ InvitesNeeded /\ NoRedundantInvite

-----------------------------------------------------------------------------
(* What the execution has done so far: every part of the plan took effect, *)
(* or its turn has not come, or its failure was recorded.                  *)

PowerPending(r) ==
    \/ pc \in RoomSteps /\ r \in todo
    \/ pc \in RoomSteps \ {"nextRoom", "tags"} /\ r = cur

TagsPending(r) ==
    \/ pc \in RoomSteps /\ r \in todo
    \/ pc \in RoomSteps \ {"nextRoom"} /\ r = cur

RoomsMigrated ==
    pc \in Executing \cup {"succeeded"} =>
       \A r \in Rooms \ (ctx.failedRooms \cup touched) :
          LET p == plan.rooms[r] IN
          /\ p.join /\ ~JoinPending(r) => server[r].new = "join"
          /\ p.power # None /\ ~PowerPending(r)
                => server[r].pl.new = p.power /\ ~server[r].unset
          /\ p.tags # None /\ ~TagsPending(r) => account.new.tags[r] = p.tags

DirectDone ==
    /\ pc \in {"ignored", "leaving", "succeeded"} /\ ~ctx.globalErrors
    /\ plan.direct # None
    => \A m \in Mapping : m[2] \notin touched =>
          (m \in account.new.direct <=> m \in plan.direct)

IgnoredDone ==
    /\ pc \in {"leaving", "succeeded"} /\ ~ctx.globalErrors
    /\ plan.ignored # None /\ touched # Rooms
    => account.new.ignored = plan.ignored

RoomsLeft ==
    pc \in {"leaving", "succeeded"} /\ ~ctx.globalErrors =>
       \A r \in Rooms \ (ctx.failedRooms \cup touched) :
          plan.rooms[r].leave /\ r \notin todo => server[r].old = "leave"

ErrorsCounted ==
    /\ ~ctx.erred => ctx.failedRooms = {} /\ ~ctx.globalErrors
    /\ pc = "succeeded" => ~ctx.erred /\ todo = {}

DoneInv ==
    /\ RoomsMigrated /\ DirectDone /\ IgnoredDone /\ RoomsLeft
    /\ ErrorsCounted

ExecutionInv == PlanInv /\ DoneInv

-----------------------------------------------------------------------------
(* What the planner knew of the rooms, and still holds.                    *)

OldKnown ==
    pc \in (Planning \ {"readOld"}) \cup Executing =>
       \A r \in Rooms \ (touched \cup oldJoined) : server[r].old = "leave"

OldJoinedKnown ==
    pc \in Planning => \A r \in oldJoined \ touched : server[r].old = "join"

JoinedPlanned ==
    /\ pc = "join" => plan.rooms[cur].join
    /\ pc \in (Planning \ {"readOld", "readNew"}) \cup Executing =>
          \A r \in Rooms \ touched :
             server[r].new = "join" => WillJoin(plan, newJoined, r)

NothingGlobal ==
    pc \in {"readOld", "readNew", "planRooms"} =>
       plan.direct = None /\ plan.ignored = None /\ plan.errors = {}

\* An alias that cannot be read is an error too, found after the leaves were
\* decided.
MarkedClean ==
    \A r \in Rooms : plan.rooms[r].leave =>
       /\ r \in oldJoined /\ plan.errors = {}
       /\ plan.rooms[r].errors \subseteq {"GetAlias"}

PlansOldJoined == pc = "planRooms" => todo \subseteq oldJoined

\* No room is left after an error in the global account data.
StaysOnGlobalError == pc = "leaving" /\ ctx.globalErrors => todo = {}

KnownInv ==
    /\ OldKnown /\ OldJoinedKnown /\ JoinedPlanned /\ NothingGlobal
    /\ MarkedClean /\ PlansOldJoined /\ StaysOnGlobalError

-----------------------------------------------------------------------------
(* A plan without errors hands over everything.                            *)

\* The rooms whose plan is complete.
Decided ==
    IF pc = "planRooms" THEN oldJoined \ todo
    ELSE IF pc \in {"planGlobal", "confirm"} \cup Executing THEN oldJoined
    ELSE {}

\* What will be there once the plan is carried out.
Target(planned, present) == IF planned = None THEN present ELSE planned

\* Creators have power in room s because they are creators.
CreatorsCount(s) == s.v12 \/ s.unset

\* The reads of m.room.create and of the room version never fail, or make no
\* difference in room s.  Elsewhere the planner takes wrong levels for true
\* (MCCreators).
CreatorsAreRead(s) ==
    CreatorsCount(s) => {"create", "version"} \cap FallibleReads = {}

\* A promotion that is planned before version 12 is one of what was read.
LevelsAreKnown(p, s) == CreatorsAreRead(s) \/ (~s.v12 /\ p.power # None)

\* The old user has a level that can be given, and the new user has as much,
\* or is to be given it.
PowerFits(p, s) ==
    LET level == LevelSeen(s, "old", {}) IN
    /\ level # Infinite
    /\ p.power = None => LevelSeen(s, "new", {}) >= level
    /\ p.power # None => p.power >= level

Fits(r) ==
    LET p == plan.rooms[r]
        s == server[r] IN
    /\ WillJoin(plan, newJoined, r)
    /\ s.history = "shared"
    /\ LevelsAreKnown(p, s) => PowerFits(p, s)
    /\ \A k \in Keys :
          account.old.tags[r][k]
             \in {None, Target(p.tags, account.new.tags[r])[k]}

RoomsFit ==
    \A r \in Decided \ touched :
       plan.rooms[r].errors \subseteq {"GetAlias"} => Fits(r)

GloballyDecided ==
    pc \in {"planGlobal", "confirm"} \cup Executing /\ plan.errors = {}

DirectFits ==
    GloballyDecided =>
       \A m \in account.old.direct :
          m[1] # "new" /\ m[2] \notin touched
          /\ WillJoin(plan, newJoined, m[2])
             => m \in Target(plan.direct, account.new.direct)

IgnoredFits ==
    GloballyDecided /\ touched # Rooms =>
       \A k \in IgnoredKeys :
          account.old.ignored[k]
             \in {None, Target(plan.ignored, account.new.ignored)[k]}

FitInv == RoomsFit /\ DirectFits /\ IgnoredFits

-----------------------------------------------------------------------------
(* After a migration without errors, until something changes.              *)

Migrated ==
    /\ \A r \in Rooms : server[r].old = "join" =>
          /\ server[r].new = "join"
          /\ ~NeedsPromotion(server[r], {})
          /\ \A k \in Keys :
                account.old.tags[r][k] \in {None, account.new.tags[r][k]}
    /\ \A m \in account.old.direct :
          m[1] # "new" /\ server[m[2]].new = "join"
             => m \in account.new.direct
    /\ \A k \in IgnoredKeys :
          account.old.ignored[k] \in {None, account.new.ignored[k]}

NoopPlan ==
    /\ plan.direct = None /\ plan.ignored = None
    /\ \A r \in Rooms :
          LET p == plan.rooms[r] IN
          ~p.invite /\ ~p.join /\ p.power = None /\ p.tags = None

SettledInv ==
    settled =>
       /\ Migrated /\ touched = {} /\ pc \notin Executing
       /\ pc \in Planning => NoopPlan

HandoverInv == KnownInv /\ FitInv /\ SettledInv

-----------------------------------------------------------------------------
(* Of the creators of a room the planner knows all that matters if it      *)
(* reads them, and if the old user, where it sent m.room.create, is named  *)
(* in it.  Nothing changes who made a room, or its version, and levels     *)
(* once set stay so.                                                       *)

OldIsNamed(s) ==
    CreatorsCount(s) /\ s.sender = "old" => "old" \in s.creators

CreatorsOfAllAreRead == \A s \in Profiles : CreatorsAreRead(s)
NoOldSenders == \A s \in Profiles : OldIsNamed(s)

ReadInv == \A r \in Rooms : CreatorsAreRead(server[r])
SenderInv == \A r \in Rooms : OldIsNamed(server[r])
=============================================================================
