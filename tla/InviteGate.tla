----------------------------- MODULE InviteGate -----------------------------
(***************************************************************************)
(* What wait_for_invite promises (src/sync.rs:44): every room has a gate,  *)
(* which opens when the client learns of an invite and never closes; a     *)
(* task that waits for the invite passes once the gate is open, and then   *)
(* certainly does.                                                         *)
(***************************************************************************)
CONSTANTS Rooms, Waiters, None

VARIABLES open,     \* the rooms whose gate is open
          waits     \* waiter -> the room it waits for, or None

gateVars == <<open, waits>>

Init == open = {} /\ waits = [w \in Waiters |-> None]

Open(rooms) ==
    /\ open' = open \cup rooms
    /\ UNCHANGED waits

Arrive(w, r) ==
    /\ waits[w] = None
    /\ waits' = [waits EXCEPT ![w] = r]
    /\ UNCHANGED open

Pass(w) ==
    /\ waits[w] \in open
    /\ waits' = [waits EXCEPT ![w] = None]
    /\ UNCHANGED open

Next ==
    \/ \E rooms \in SUBSET Rooms : Open(rooms)
    \/ \E w \in Waiters : Pass(w) \/ \E r \in Rooms : Arrive(w, r)

Fairness == \A w \in Waiters : WF_gateVars(Pass(w))

Spec == Init /\ [][Next]_gateVars /\ Fairness
=============================================================================
