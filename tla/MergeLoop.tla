----------------------------- MODULE MergeLoop -----------------------------
(***************************************************************************)
(* merge_json of src/utils.rs as it runs: a loop that consumes the old map *)
(* in the order of its keys, fills the gaps of the new one, and collects   *)
(* what it could not merge.  Planner says what it computes, as a function; *)
(* here the loop is shown to compute that.                                 *)
(*                                                                         *)
(* A value stands for what Raw deserializes to: two texts of one value are *)
(* not told apart, as they are not by the comparison in the loop.          *)
(***************************************************************************)
EXTENDS Planner, Sequences

ASSUME KeysAssumption == Keys \subseteq Nat /\ IsFiniteSet(Keys)

VARIABLES
    oldGiven, newGiven,   \* the arguments
    old,                  \* what the loop has still to take from the old map
    new, errors, changed,
    returned,
    result                \* the Option<JsonMap> returned, once it is

vars == <<oldGiven, newGiven, old, new, errors, changed, returned,
          result>>

JsonMergeError == [key : Keys, old_value : Values, new_value : Values]

TypeOK ==
    /\ oldGiven \in JsonMaps /\ newGiven \in JsonMaps
    /\ old \in JsonMaps /\ new \in JsonMaps
    /\ errors \in Seq(JsonMergeError)
    /\ changed \in BOOLEAN
    /\ returned \in BOOLEAN
    /\ result \in JsonMaps \cup {None}

Init ==
    /\ oldGiven \in JsonMaps /\ newGiven \in JsonMaps
    /\ old = oldGiven /\ new = newGiven
    /\ errors = << >> /\ changed = FALSE
    /\ returned = FALSE /\ result = None

\* The keys the loop has still to come to, and the next of them.
Remaining == {k \in Keys : old[k] # None}
IsNext(k) == k \in Remaining /\ \A q \in Remaining : k <= q

\* for (key, value) in old
Take(k) ==
    /\ ~returned
    /\ IsNext(k)
    /\ old' = [old EXCEPT ![k] = None]
    /\ UNCHANGED <<oldGiven, newGiven, returned, result>>

Conflict_Taken(k) ==                                     \* mutated form
    [key |-> k, old_value |-> old'[k], new_value |-> new[k]]

Conflict(k) == [key |-> k, old_value |-> old[k], new_value |-> new[k]]

Vacant(k) ==
    /\ Take(k)
    /\ new[k] = None
    /\ new' = [new EXCEPT ![k] = old[k]]
    /\ changed' = TRUE
    /\ UNCHANGED errors

ErrorsAfter_Always(k) == Append(errors, Conflict(k))     \* mutated form

ErrorsAfter_Prepended(k) ==                              \* mutated form
    IF old[k] # new[k] THEN <<Conflict(k)>> \o errors ELSE errors

ErrorsAfter(k) == IF old[k] # new[k] THEN Append(errors, Conflict(k)) ELSE errors

Occupied(k) ==
    /\ Take(k)
    /\ new[k] # None
    /\ errors' = ErrorsAfter(k)
    /\ UNCHANGED <<new, changed>>

Return ==
    /\ ~returned
    /\ Remaining = {}
    /\ returned' = TRUE
    /\ result' = IF changed THEN new ELSE None
    /\ UNCHANGED <<oldGiven, newGiven, old, new, errors, changed>>

Next == (\E k \in Keys : Vacant(k) \/ Occupied(k)) \/ Return

Spec == Init /\ [][Next]_vars

-----------------------------------------------------------------------------
\* The loop returns the map that Planner's MergeResult says, and reports just
\* the keys of MergeConflicts, each with the two values it had, whatever the
\* loop had changed before it came to the key.
MergesAsPlanned ==
    returned =>
       /\ result = MergeResult(oldGiven, newGiven)
       /\ {errors[i] : i \in DOMAIN errors}
          = {[key |-> k, old_value |-> oldGiven[k], new_value |-> newGiven[k]] :
                k \in MergeConflicts(oldGiven, newGiven)}

\* Every conflict is reported once, and in the order of the keys: the
\* tests compare the vector (utils.rs:107).
ErrorsInOrder ==
    \A i, j \in DOMAIN errors : i < j => errors[i].key < errors[j].key
=============================================================================
