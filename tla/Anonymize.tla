----------------------------- MODULE Anonymize -----------------------------
(***************************************************************************)
(* The migration under --anonymize: anonymize_plan (src/main.rs) replaces  *)
(* the room ids of the plan between make_plan and the prompt, and the user *)
(* may confirm the result like any other plan.                             *)
(*                                                                         *)
(* An anonymous id names no room: the homeserver has nobody in it.         *)
(***************************************************************************)
EXTENDS Migration

CONSTANTS
    AnonymousId,  \* anonymize_room_id, from Rooms to Rooms: one id for all of
                  \* a server's rooms
    NoRoom        \* the state of a room that does not exist: invite-only,
                  \* with nobody in it

AnonymousIds == {AnonymousId[r] : r \in Rooms}

VARIABLE made   \* the plan as make_plan returned it

AnonymousInit ==
    /\ Init
    /\ \A r \in Rooms : r \in AnonymousIds <=> server[r] = NoRoom
    /\ made = EmptyPlan

\* The collect() keeps the last of the rooms that get the same id; the rest
\* of the plan is as it was.
AnonymizePlan(p) ==
    LET sources(id) == {r \in PlannedRooms(p) : AnonymousId[r] = id}
        last(S) == CHOOSE r \in S : \A q \in S : q <= r
    IN  [p EXCEPT !.rooms = [id \in Rooms |->
            IF sources(id) = {} THEN DefaultRoomPlan
                                ELSE p.rooms[last(sources(id))]]]

\* The prompt shows the anonymous plan; a "yes" executes it.
ConfirmAnonymous ==
    /\ pc = "confirm"
    /\ pc' = "nextRoom"
    /\ made' = plan
    /\ plan' = AnonymizePlan(plan)
    /\ todo' = PlannedRooms(plan')
    /\ settled' = FALSE
    /\ UNCHANGED <<server, account, leave, oldJoined, newJoined, cur,
                   snapshot, ctx, seen, sync, touched, spent>>

AnonymousNext ==
    \/ /\ \/ Start \/ Cancel \/ Restart \/ PlanStep \/ ExecuteStep
          \/ Sync \/ SyncFails
       /\ UNCHANGED made
    \/ ConfirmAnonymous

AnonymousSpec == AnonymousInit /\ [][AnonymousNext]_<<vars, made>>

-----------------------------------------------------------------------------
\* "Anonymize room IDs/aliases to make sharing example output easier"
\* (main.rs:92): the option is about the output, and exit status 0 still
\* means that the plan took effect in the rooms it was made for.
AnonymizesOutputOnly ==
    pc = "succeeded" => \A r \in Rooms : TookEffect(made.rooms[r], r)
=============================================================================
