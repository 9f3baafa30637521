--------------------------- MODULE SyncLoopProofs ---------------------------
(***************************************************************************)
(* Proofs about SyncLoop, for any rooms and any number of waiting tasks:   *)
(* no wakeup is lost, no invite is skipped between two polls, and the map  *)
(* of invites implements the gates of InviteGate.                          *)
(***************************************************************************)
EXTENDS SyncLoop, TLAPS

USE DEF vars, shared, tasks, poll, homeserver

LEMMA InitType == Init => TypeOK
BY MaxChangesAssumption, NoneAssumption DEF Init, TypeOK, NoResponse

LEMMA NextType == TypeOK /\ [Next]_vars => TypeOK'
<1> SUFFICES ASSUME TypeOK, [Next]_vars PROVE TypeOK'
    OBVIOUS
<1> USE NoneAssumption, MaxChangesAssumption DEF TypeOK
<1>1. ASSUME NEW w \in Waiters, NEW r \in Rooms, Enter(w, r) PROVE TypeOK'
    BY <1>1 DEF Enter
<1>2. ASSUME NEW w \in Waiters, WaiterStep(w) PROVE TypeOK'
    <2>1. CASE Register(w)
        <3>1. invites' \in [Rooms -> {"absent", "Pending", "Invited"}]
            BY <2>1 DEF Register
        <3> QED  BY <2>1, <3>1 DEF Register, NewFuture
    <2>2. CASE FindInvite(w) \/ WakeUp(w)
        BY <2>2 DEF FindInvite, WakeUp, Return
    <2> QED  BY <1>2, <2>1, <2>2 DEF WaiterStep
<1>3. CASE LoopStep
    BY <1>3 DEF LoopStep, Answer, HandleResponse, News, NextBatch, ToNotify,
                NoResponse
<1>4. CASE SyncError
    BY <1>4 DEF SyncError
<1>5. ASSUME NEW r \in Rooms, ChangeMembership(r) PROVE TypeOK'
    BY <1>5 DEF ChangeMembership
<1>6. CASE UNCHANGED vars
    BY <1>6
<1> QED
    BY <1>1, <1>2, <1>3, <1>4, <1>5, <1>6 DEF Next

\* Every state is well typed.
THEOREM TypeCorrect == Spec => []TypeOK
BY InitType, NextType, PTL DEF Spec

-----------------------------------------------------------------------------
USE DEF SyncInv, NoLostWakeup, NoInviteSkipped, WaitersHaveEntries,
        TokensInOrder, NothingLostOnTheWay

LEMMA InitSync == Init => SyncInv
BY DEF Init, NoResponse

LEMMA NextSync == TypeOK /\ SyncInv /\ [Next]_vars => SyncInv'
<1> SUFFICES ASSUME TypeOK, SyncInv, [Next]_vars PROVE SyncInv'
    OBVIOUS
<1> USE DEF TypeOK
<1>1. ASSUME NEW w \in Waiters, NEW r \in Rooms, Enter(w, r) PROVE SyncInv'
    BY <1>1 DEF Enter
<1>2. ASSUME NEW w \in Waiters, Register(w) PROVE SyncInv'
    <2>1. target[w] \in Rooms
        BY <1>2 DEF Register
    <2>2. \A v \in Waiters \ {w} : waiter'[v] = waiter[v]
                                   /\ (v \in notified' <=> v \in notified)
        BY <1>2 DEF Register, NewFuture
    <2>3. \A r \in Rooms :
             /\ invites'[r] = "Invited" <=> invites[r] = "Invited"
             /\ invites'[r] = "absent" => invites[r] = "absent"
        BY <1>2, <2>1 DEF Register
    <2>4. w \notin notified' /\ invites'[target[w]] = "Pending"
        BY <1>2, <2>1 DEF Register, NewFuture
    <2>5. /\ UNCHANGED <<target, poll, homeserver>>
          /\ \A v \in Waiters : waiter[v] = "waiting" => target[v] \in Rooms
        BY <1>2, NoneAssumption DEF Register
    <2>6. NoLostWakeup' /\ WaitersHaveEntries'
        BY <2>1, <2>2, <2>3, <2>4, <2>5
    <2> QED
        BY <2>3, <2>5, <2>6
<1>3. ASSUME NEW w \in Waiters, FindInvite(w) \/ WakeUp(w) PROVE SyncInv'
    BY <1>3 DEF FindInvite, WakeUp, Return
<1>4. CASE Answer
    BY <1>4 DEF Answer, News
<1>5. CASE HandleResponse
    <2>1. \A w \in Waiters : waiter[w] = "waiting" => target[w] \in Rooms
        BY NoneAssumption
    <2>2. NoLostWakeup' /\ WaitersHaveEntries'
        BY <1>5, <2>1 DEF HandleResponse, ToNotify
    <2>3. NoInviteSkipped' /\ TokensInOrder' /\ NothingLostOnTheWay'
        BY <1>5 DEF HandleResponse, NextBatch
    <2> QED
        BY <2>2, <2>3
<1>6. CASE SyncError
    BY <1>6 DEF SyncError
<1>7. ASSUME NEW r \in Rooms, ChangeMembership(r) PROVE SyncInv'
    BY <1>7 DEF ChangeMembership
<1>8. CASE UNCHANGED vars
    BY <1>8
<1> QED
    BY <1>1, <1>2, <1>3, <1>4, <1>5, <1>6, <1>7, <1>8
       DEF Next, WaiterStep, LoopStep

\* No wakeup is lost, for any number of tasks waiting for any rooms: the
\* reason the comment at sync.rs:53 gives for creating the future under the
\* mutex.
THEOREM NoWakeupIsLost == Spec => []NoLostWakeup
<1>1. SyncInv => NoLostWakeup
    OBVIOUS
<1> QED
    BY <1>1, InitType, NextType, InitSync, NextSync, PTL DEF Spec

\* No invite that stands is passed by between one poll and the next.
THEOREM NoInviteIsSkipped == Spec => []NoInviteSkipped
<1>1. SyncInv => NoInviteSkipped
    OBVIOUS
<1> QED
    BY <1>1, InitType, NextType, InitSync, NextSync, PTL DEF Spec

-----------------------------------------------------------------------------
LEMMA InitRefines == Init => Gate!Init
BY DEF Init, Gate!Init

LEMMA NextRefines ==
    TypeOK /\ SyncInv /\ [Next]_vars => [Gate!Next]_(Gate!gateVars)
<1> DEFINE open == {r \in Rooms : invites[r] = "Invited"}
<1> SUFFICES ASSUME TypeOK, SyncInv, [Next]_vars
             PROVE  Gate!Next \/ UNCHANGED <<open, target>>
    BY DEF Gate!gateVars
<1> USE DEF TypeOK
<1>1. ASSUME NEW w \in Waiters, NEW r \in Rooms, Enter(w, r)
      PROVE  Gate!Arrive(w, r)
    BY <1>1 DEF Enter, Gate!Arrive
<1>2. ASSUME NEW w \in Waiters, Register(w)
      PROVE  UNCHANGED <<open, target>>
    BY <1>2 DEF Register
<1>3. ASSUME NEW w \in Waiters, FindInvite(w) \/ WakeUp(w)
      PROVE  Gate!Pass(w)
    BY <1>3, NoneAssumption DEF FindInvite, WakeUp, Return, Gate!Pass
<1>4. CASE HandleResponse
    <2>1. open' = open \cup response.rooms
        BY <1>4 DEF HandleResponse
    <2> QED
        BY <1>4, <2>1 DEF HandleResponse, Gate!Open, Gate!Next
<1>5. CASE Answer \/ SyncError \/ UNCHANGED vars
    BY <1>5 DEF Answer, SyncError
<1>6. ASSUME NEW r \in Rooms, ChangeMembership(r)
      PROVE  UNCHANGED <<open, target>>
    BY <1>6 DEF ChangeMembership
<1> QED
    BY <1>1, <1>2, <1>3, <1>4, <1>5, <1>6
       DEF Next, WaiterStep, LoopStep, Gate!Next

\* The sync loop and the waiting tasks implement the gates: a task only
\* passes when the invite has been seen, and what was seen stays so.
THEOREM ImplementsGates ==
    Spec => Gate!Init /\ [][Gate!Next]_(Gate!gateVars)
BY InitType, NextType, InitSync, NextSync, InitRefines, NextRefines, PTL
   DEF Spec
=============================================================================
