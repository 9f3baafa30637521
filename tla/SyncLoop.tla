------------------------------ MODULE SyncLoop ------------------------------
(***************************************************************************)
(* SyncLoop of src/sync.rs: one task polls the homeserver with /sync and   *)
(* records the rooms the client is invited to; other tasks wait for the    *)
(* invite to a room.  The two share the map invites, under a mutex that is *)
(* never held across an await, so each critical section is one action.     *)
(*                                                                         *)
(* The homeserver numbers the changes of the client's membership; a        *)
(* response tells the invites that stand among the changes after "since",  *)
(* and the number to ask from next time.                                   *)
(***************************************************************************)
EXTENDS Integers

CONSTANTS Rooms,
          Waiters,      \* the tasks that call wait_for_invite
          None,
          MaxChanges    \* membership changes on the homeserver

ASSUME NoneAssumption == None \notin Rooms
ASSUME MaxChangesAssumption == MaxChanges \in Nat

VARIABLES
    invites,     \* room -> its entry: absent, or an InviteState
    waiter,      \* waiter -> where it is in wait_for_invite
    target,      \* waiter -> the room it asks for
    notified,    \* the waiters whose Notified future is ready
    loop,        \* the sync loop: not started, polling, answered, ended
    since,       \* request.since
    response,    \* [rooms, next_batch], while loop = "answered"
    member,      \* homeserver: whether the client has an invite to the room
    stream,      \* homeserver: number of membership changes
    changed      \* homeserver: room -> number of its last change

shared == <<invites, notified>>
tasks == <<waiter, target>>
poll == <<loop, since, response>>
homeserver == <<member, stream, changed>>
vars == <<shared, tasks, poll, homeserver>>

NoResponse == [rooms |-> {}, next_batch |-> 0]

TypeOK ==
    /\ invites \in [Rooms -> {"absent", "Pending", "Invited"}]
    /\ waiter \in [Waiters -> {"idle", "entering", "waiting"}]
    /\ target \in [Waiters -> Rooms \cup {None}]
    /\ \A w \in Waiters : waiter[w] = "idle" <=> target[w] = None
    /\ notified \in SUBSET Waiters
    /\ loop \in {"off", "polling", "answered", "ended"}
    /\ since \in 0 .. MaxChanges
    /\ response \in [rooms : SUBSET Rooms, next_batch : 0 .. MaxChanges]
    /\ member \in [Rooms -> {"invite", "other"}]
    /\ stream \in 0 .. MaxChanges
    /\ changed \in [Rooms -> 0 .. MaxChanges]

Init ==
    /\ invites = [r \in Rooms |-> "absent"]
    /\ waiter = [w \in Waiters |-> "idle"]
    /\ target = [w \in Waiters |-> None]
    /\ notified = {}
    /\ loop = "off" /\ since = 0 /\ response = NoResponse
    /\ member = [r \in Rooms |-> "other"]
    /\ stream = 0
    /\ changed = [r \in Rooms |-> 0]

-----------------------------------------------------------------------------
(* The waiting tasks.                                                      *)

\* The first call starts the loop: get_or_init.
Enter(w, r) ==
    /\ waiter[w] = "idle"
    /\ waiter' = [waiter EXCEPT ![w] = "entering"]
    /\ target' = [target EXCEPT ![w] = r]
    /\ loop' = IF loop = "off" THEN "polling" ELSE loop
    /\ UNCHANGED <<shared, since, response, homeserver>>

NewFuture_Shared(w) == notified                          \* mutated form

\* The waiters whose future is ready, once w has created a new one.
NewFuture(w) == notified \ {w}

\* The critical section of wait_for_invite finds no invite: the Notified
\* future is created before the mutex is released.
Register(w) ==
    /\ waiter[w] = "entering"
    /\ invites[target[w]] # "Invited"
    /\ invites' = [invites EXCEPT ![target[w]] = "Pending"]
    /\ waiter' = [waiter EXCEPT ![w] = "waiting"]
    /\ notified' = NewFuture(w)
    /\ UNCHANGED <<target, poll, homeserver>>

Return(w) ==
    /\ waiter' = [waiter EXCEPT ![w] = "idle"]
    /\ target' = [target EXCEPT ![w] = None]
    /\ UNCHANGED <<shared, poll, homeserver>>

\* ... or finds that the invite is there.
FindInvite(w) ==
    /\ waiter[w] = "entering"
    /\ invites[target[w]] = "Invited"
    /\ Return(w)

WakeUp(w) ==
    /\ waiter[w] = "waiting" /\ w \in notified
    /\ Return(w)

-----------------------------------------------------------------------------
(* The sync loop.                                                          *)

\* The homeserver answers the long poll: with what there is to say, or with
\* nothing when the 30 seconds are over.
News == {r \in Rooms : member[r] = "invite" /\ changed[r] > since}

Answer ==
    /\ loop = "polling"
    /\ loop' = "answered"
    /\ response' = [rooms |-> News, next_batch |-> stream]
    /\ UNCHANGED <<shared, tasks, since, homeserver>>

\* The tasks waiting for a room of the response.
ToNotify_First(rooms) ==                                 \* mutated form
    LET waiting == {w \in Waiters : waiter[w] = "waiting"
                                    /\ target[w] \in rooms}
    IN  IF waiting = {} THEN {} ELSE {CHOOSE w \in waiting : TRUE}

ToNotify(rooms) ==
    {w \in Waiters : waiter[w] = "waiting" /\ target[w] \in rooms
                     /\ invites[target[w]] = "Pending"}

NextBatch_Now == stream                                  \* mutated form

NextBatch_After == response.next_batch + 1               \* mutated form

NextBatch == response.next_batch

HandleResponse ==
    /\ loop = "answered"
    /\ invites' = [r \in Rooms |->
                      IF r \in response.rooms THEN "Invited" ELSE invites[r]]
    /\ notified' = notified \cup ToNotify(response.rooms)
    /\ since' = NextBatch
    /\ loop' = "polling"
    /\ response' = NoResponse
    /\ UNCHANGED <<tasks, homeserver>>

\* An error ends the loop; nobody is told.
SyncError ==
    /\ loop = "polling"
    /\ loop' = "ended"
    /\ UNCHANGED <<shared, tasks, since, response, homeserver>>

-----------------------------------------------------------------------------
\* On the homeserver the client is invited to a room, or is no longer (it
\* joined, it declined, the invite was revoked).
ChangeMembership(r) ==
    /\ stream < MaxChanges
    /\ stream' = stream + 1
    /\ changed' = [changed EXCEPT ![r] = stream']
    /\ member' = [member EXCEPT ![r] =
                     IF @ = "invite" THEN "other" ELSE "invite"]
    /\ UNCHANGED <<shared, tasks, poll>>

WaiterStep(w) == Register(w) \/ FindInvite(w) \/ WakeUp(w)
LoopStep == Answer \/ HandleResponse

Next ==
    \/ \E w \in Waiters : WaiterStep(w) \/ \E r \in Rooms : Enter(w, r)
    \/ LoopStep \/ SyncError
    \/ \E r \in Rooms : ChangeMembership(r)

\* The runtime runs every task that can run, and every poll is answered
\* within its timeout or fails.
Fairness == WF_vars(LoopStep) /\ \A w \in Waiters : WF_vars(WaiterStep(w))

Spec == Init /\ [][Next]_vars /\ Fairness

-----------------------------------------------------------------------------
\* A task that waits has been notified, or its room still has the Pending
\* entry that the loop will notify: the lost wakeup that the comment at
\* sync.rs:53 rules out.
NoLostWakeup ==
    \A w \in Waiters :
       waiter[w] = "waiting" =>
          (w \in notified <=> invites[target[w]] = "Invited")

\* The token of the next poll never passes by an invite that stands and that
\* the loop has not recorded (sync.rs:106, 128).
NoInviteSkipped ==
    \A r \in Rooms :
       member[r] = "invite" /\ changed[r] <= since => invites[r] = "Invited"

\* What makes the two inductive: a waiting task's room has an entry; and the
\* response on its way has what its token passes by.
WaitersHaveEntries ==
    \A w \in Waiters : waiter[w] = "waiting" => invites[target[w]] # "absent"

TokensInOrder ==
    /\ since <= stream
    /\ loop = "answered" => response.next_batch <= stream
    /\ \A r \in Rooms : changed[r] <= stream

NothingLostOnTheWay ==
    loop = "answered" =>
       \A r \in Rooms :
          member[r] = "invite" /\ changed[r] <= response.next_batch
             => invites[r] = "Invited" \/ r \in response.rooms

SyncInv ==
    /\ NoLostWakeup /\ NoInviteSkipped
    /\ WaitersHaveEntries /\ TokensInOrder /\ NothingLostOnTheWay

\* A task whose invite stands returns, unless the loop has ended.
InviteReachesWaiter ==
    \A w \in Waiters :
       waiter[w] = "waiting" /\ member[target[w]] = "invite"
          ~> \/ waiter[w] # "waiting" \/ loop = "ended"
             \/ member[target[w]] # "invite"

\* The map and the futures implement the gates.
Gate == INSTANCE InviteGate WITH
            open <- {r \in Rooms : invites[r] = "Invited"},
            waits <- target
GateSpec == Gate!Spec
=============================================================================
