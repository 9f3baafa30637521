-------------------------- MODULE MergeLoopProofs --------------------------
(***************************************************************************)
(* Proofs about MergeLoop: for all maps, over any keys and values, the     *)
(* loop computes what Planner says, and reports the conflicts in order.    *)
(* The invariant says what is true of every key: it is still to come and   *)
(* as it was given, or it is merged and its conflict, if any, reported.    *)
(***************************************************************************)
EXTENDS MergeLoop, TLAPS

\* Key k has been dealt with.
Taken(k) == old[k] = None

Report(k) ==
    [key |-> k, old_value |-> oldGiven[k], new_value |-> newGiven[k]]

Merged ==
    \A k \in Keys :
       new[k] = IF Taken(k) THEN MergeJson(oldGiven, newGiven)[k]
                            ELSE newGiven[k]

Untouched == \A k \in Keys : ~Taken(k) => old[k] = oldGiven[k]

ChangedMeans == changed <=> new # newGiven

Reported ==
    {errors[i] : i \in DOMAIN errors}
    = {Report(k) : k \in {q \in MergeConflicts(oldGiven, newGiven) : Taken(q)}}

\* What is reported comes before all that is to come.
Ordered ==
    /\ ErrorsInOrder
    /\ \A i \in DOMAIN errors, k \in Remaining : errors[i].key < k

ReturnsMerged ==
    returned => /\ Remaining = {}
                /\ result = IF changed THEN new ELSE None

LoopInv ==
    /\ TypeOK
    /\ Merged /\ Untouched /\ ChangedMeans /\ Reported /\ Ordered
    /\ ReturnsMerged

\* Maps that agree on every key are equal.
LEMMA EqualMaps ==
    ASSUME NEW a \in JsonMaps, NEW b \in JsonMaps,
           \A k \in Keys : a[k] = b[k]
    PROVE  a = b
BY DEF JsonMaps

USE NoneAssumption, KeysAssumption

\* What the two references are, for well-typed maps.
LEMMA MergeJsonType ==
    ASSUME NEW a \in JsonMaps, NEW b \in JsonMaps
    PROVE  /\ MergeJson(a, b) \in JsonMaps
           /\ \A k \in Keys :
                 MergeJson(a, b)[k] = IF b[k] = None THEN a[k] ELSE b[k]
           /\ MergeConflicts(a, b) =
                 {k \in Keys : a[k] # None /\ b[k] # None /\ a[k] # b[k]}
BY DEF MergeJson, MergeConflicts, JsonMaps

LEMMA InitInv == Init => LoopInv
<1> SUFFICES ASSUME Init PROVE LoopInv
    OBVIOUS
<1>1. TypeOK
    <2>1. changed \in BOOLEAN /\ returned \in BOOLEAN
        BY DEF Init
    <2>2. errors \in Seq(JsonMergeError)
        BY DEF Init
    <2> QED
        BY <2>1, <2>2 DEF Init, TypeOK
<1>2. Merged /\ Untouched /\ ChangedMeans
    BY MergeJsonType DEF Init, Merged, Untouched, ChangedMeans, Taken
<1>3. Reported
    BY MergeJsonType DEF Init, Reported, Taken
<1>4. Ordered /\ ReturnsMerged
    BY DEF Init, Ordered, ErrorsInOrder, ReturnsMerged
<1> QED
    BY <1>1, <1>2, <1>3, <1>4 DEF LoopInv

LEMMA TakeKeeps ==
    ASSUME LoopInv, NEW k \in Keys, Take(k)
    PROVE  /\ old' \in JsonMaps /\ UNCHANGED <<oldGiven, newGiven>>
           /\ old[k] = oldGiven[k] /\ new[k] = newGiven[k]
           /\ oldGiven[k] \in Values
           /\ Taken(k)' /\ \A q \in Keys \ {k} : Taken(q)' <=> Taken(q)
           /\ Untouched' /\ Remaining' = Remaining \ {k}
           /\ \A q \in Remaining' : k < q
           /\ ~returned' /\ ReturnsMerged'
<1>1. /\ k \in Remaining /\ \A q \in Remaining : k <= q
      /\ old' = [old EXCEPT ![k] = None]
      /\ UNCHANGED <<oldGiven, newGiven, returned, result>> /\ ~returned
    BY DEF Take, IsNext
<1>2. old \in [Keys -> Values \cup {None}] /\ old[k] # None
    BY <1>1 DEF LoopInv, TypeOK, JsonMaps, Remaining
<1>3. /\ old' \in JsonMaps /\ old'[k] = None
      /\ \A q \in Keys \ {k} : old'[q] = old[q]
    BY <1>1, <1>2 DEF JsonMaps
<1>4. old[k] = oldGiven[k] /\ new[k] = newGiven[k]
    BY <1>2 DEF LoopInv, Untouched, Merged, Taken
<1>5. Remaining' = Remaining \ {k}
    BY <1>3 DEF Remaining
<1>6. \A q \in Remaining' : k < q
    BY <1>1, <1>5 DEF Remaining
<1>7. Untouched'
    BY <1>1, <1>3 DEF LoopInv, Untouched, Taken
<1> QED
    BY <1>1, <1>2, <1>3, <1>4, <1>5, <1>6, <1>7 DEF Taken, ReturnsMerged

LEMMA VacantInv ==
    ASSUME LoopInv, NEW k \in Keys, Vacant(k)
    PROVE  LoopInv'
<1>1. Take(k) /\ new[k] = None /\ errors' = errors /\ changed' = TRUE
      /\ new' = [new EXCEPT ![k] = old[k]]
    BY DEF Vacant
<1>2. /\ old' \in JsonMaps /\ UNCHANGED <<oldGiven, newGiven>>
      /\ old[k] = oldGiven[k] /\ new[k] = newGiven[k]
      /\ oldGiven[k] \in Values
      /\ Taken(k)' /\ \A q \in Keys \ {k} : Taken(q)' <=> Taken(q)
      /\ Untouched' /\ Remaining' = Remaining \ {k}
      /\ ReturnsMerged'
    BY <1>1, TakeKeeps
<1>3. /\ oldGiven \in JsonMaps /\ newGiven \in JsonMaps
      /\ new \in [Keys -> Values \cup {None}]
    BY DEF LoopInv, TypeOK, JsonMaps
<1>4. new' \in JsonMaps /\ new'[k] = oldGiven[k]
      /\ \A q \in Keys \ {k} : new'[q] = new[q]
    BY <1>1, <1>2, <1>3 DEF JsonMaps
<1>5. TypeOK'
    <2>1. changed' \in BOOLEAN
        BY <1>1
    <2>2. UNCHANGED <<returned, result>>
        BY <1>1 DEF Take
    <2> QED
        BY <1>1, <1>2, <1>4, <2>1, <2>2 DEF LoopInv, TypeOK
<1>6. Merged'
    <2> SUFFICES ASSUME NEW q \in Keys
                 PROVE  new'[q] = IF Taken(q)'
                                  THEN MergeJson(oldGiven, newGiven)[q]
                                  ELSE newGiven[q]
        BY <1>2 DEF Merged
    <2>1. CASE q = k
        BY <2>1, <1>1, <1>2, <1>3, <1>4, MergeJsonType
    <2>2. CASE q # k
        BY <2>2, <1>2, <1>4 DEF LoopInv, Merged
    <2> QED
        BY <2>1, <2>2
<1>7. ChangedMeans'
    <2>1. new'[k] # newGiven'[k]
        BY <1>1, <1>2, <1>4
    <2> QED
        BY <1>1, <2>1 DEF ChangedMeans
<1>8. Reported'
    <2>1. k \notin MergeConflicts(oldGiven, newGiven)
        BY <1>1, <1>2, <1>3, MergeJsonType
    <2>2. \A q \in MergeConflicts(oldGiven, newGiven) : q \in Keys \ {k}
        BY <2>1, <1>3, MergeJsonType
    <2> QED
        BY <1>1, <1>2, <2>2 DEF LoopInv, Reported, Report
<1>9. Ordered'
    BY <1>1, <1>2 DEF LoopInv, Ordered, ErrorsInOrder
<1> QED
    BY <1>2, <1>5, <1>6, <1>7, <1>8, <1>9 DEF LoopInv

\* The errors after a conflict at key k, as a set and in their order.
LEMMA AppendedError ==
    ASSUME errors \in Seq(JsonMergeError), Ordered, NEW k \in Remaining,
           NEW e \in JsonMergeError, e.key = k
    PROVE  LET after == Append(errors, e) IN
           /\ after \in Seq(JsonMergeError)
           /\ {after[i] : i \in DOMAIN after}
              = {errors[i] : i \in DOMAIN errors} \cup {e}
           /\ \A i, j \in DOMAIN after : i < j => after[i].key < after[j].key
           /\ \A i \in DOMAIN after : after[i].key <= k
<1> DEFINE after == Append(errors, e)
<1>1. /\ after \in Seq(JsonMergeError) /\ Len(errors) \in Nat
      /\ DOMAIN errors = 1 .. Len(errors)
      /\ DOMAIN after = 1 .. Len(errors) + 1
      /\ \A i \in 1 .. Len(errors) : after[i] = errors[i]
      /\ after[Len(errors) + 1] = e
    OBVIOUS
<1>2. \A i \in 1 .. Len(errors) :
         errors[i] \in JsonMergeError /\ errors[i].key < k
    BY <1>1 DEF Ordered
<1>3. k \in Nat
    BY DEF Remaining
<1>4. \A i \in 1 .. Len(errors) : errors[i].key \in Nat
    BY <1>2 DEF JsonMergeError
<1>5. \A i, j \in 1 .. Len(errors) : i < j => errors[i].key < errors[j].key
    BY <1>1 DEF Ordered, ErrorsInOrder
<1> HIDE DEF after
<1>6. {after[i] : i \in DOMAIN after}
      = {errors[i] : i \in DOMAIN errors} \cup {e}
    BY <1>1
<1>7. \A i, j \in DOMAIN after : i < j => after[i].key < after[j].key
    <2> SUFFICES ASSUME NEW i \in DOMAIN after, NEW j \in DOMAIN after, i < j
                 PROVE  after[i].key < after[j].key
        OBVIOUS
    <2>1. i \in 1 .. Len(errors)
        BY <1>1
    <2>2. CASE j = Len(errors) + 1
        BY <1>1, <1>2, <2>1, <2>2
    <2>3. CASE j \in 1 .. Len(errors)
        BY <1>1, <1>5, <2>1, <2>3
    <2> QED
        BY <1>1, <2>2, <2>3
<1>8. \A i \in DOMAIN after : after[i].key <= k
    <2> SUFFICES ASSUME NEW i \in DOMAIN after PROVE after[i].key <= k
        OBVIOUS
    <2>1. CASE i = Len(errors) + 1
        BY <1>1, <1>3, <2>1
    <2>2. CASE i \in 1 .. Len(errors)
        BY <1>1, <1>2, <1>3, <1>4, <2>2
    <2> QED
        BY <1>1, <2>1, <2>2
<1> QED
    BY <1>1, <1>6, <1>7, <1>8 DEF after

LEMMA OccupiedInv ==
    ASSUME LoopInv, NEW k \in Keys, Occupied(k)
    PROVE  LoopInv'
<1>1. Take(k) /\ new[k] # None /\ UNCHANGED <<new, changed, returned, result>>
      /\ errors' = IF old[k] # new[k] THEN Append(errors, Conflict(k))
                                      ELSE errors
    BY DEF Occupied, ErrorsAfter, Take
<1>2. /\ old' \in JsonMaps /\ UNCHANGED <<oldGiven, newGiven>>
      /\ old[k] = oldGiven[k] /\ new[k] = newGiven[k]
      /\ oldGiven[k] \in Values
      /\ Taken(k)' /\ \A q \in Keys \ {k} : Taken(q)' <=> Taken(q)
      /\ Untouched' /\ Remaining' = Remaining \ {k}
      /\ \A q \in Remaining' : k < q
      /\ ReturnsMerged'
    BY <1>1, TakeKeeps
<1>3. /\ oldGiven \in JsonMaps /\ newGiven \in JsonMaps
      /\ newGiven \in [Keys -> Values \cup {None}]
      /\ errors \in Seq(JsonMergeError)
      /\ k \in Remaining
    BY <1>1 DEF LoopInv, TypeOK, JsonMaps, Take, IsNext
<1>4. Conflict(k) = Report(k) /\ Report(k) \in JsonMergeError
      /\ Report(k).key = k
    BY <1>1, <1>2, <1>3 DEF Conflict, Report, JsonMergeError
<1>9. MergeConflicts(oldGiven, newGiven)
      = {q \in Keys : /\ oldGiven[q] # None /\ newGiven[q] # None
                      /\ oldGiven[q] # newGiven[q]}
    BY <1>3, MergeJsonType
<1>5. Merged'
    <2> SUFFICES ASSUME NEW q \in Keys
                 PROVE  new[q] = IF Taken(q)'
                                 THEN MergeJson(oldGiven, newGiven)[q]
                                 ELSE newGiven[q]
        BY <1>1, <1>2 DEF Merged
    <2>1. CASE q = k
        BY <2>1, <1>1, <1>2, <1>3, MergeJsonType
    <2>2. CASE q # k
        BY <2>2, <1>2 DEF LoopInv, Merged
    <2> QED
        BY <2>1, <2>2
<1>6. ChangedMeans'
    BY <1>1, <1>2 DEF LoopInv, ChangedMeans
<1>7. CASE old[k] = new[k]
    <2>1. errors' = errors
        BY <1>1, <1>7
    <2>2. TypeOK'
        BY <1>1, <1>2, <2>1 DEF LoopInv, TypeOK
    <2>3. k \notin MergeConflicts(oldGiven, newGiven)
        BY <1>2, <1>7, <1>9
    <2>4. \A q \in MergeConflicts(oldGiven, newGiven) : q \in Keys \ {k}
        BY <2>3, <1>9
    <2>5. Reported'
        BY <2>1, <2>4, <1>2 DEF LoopInv, Reported, Report
    <2>6. Ordered'
        BY <2>1, <1>2 DEF LoopInv, Ordered, ErrorsInOrder
    <2> QED
        BY <1>2, <1>5, <1>6, <2>2, <2>5, <2>6 DEF LoopInv
<1>8. CASE old[k] # new[k]
    <2>1. errors' = Append(errors, Report(k))
        BY <1>1, <1>4, <1>8
    <2>2. /\ errors' \in Seq(JsonMergeError)
          /\ {errors'[i] : i \in DOMAIN errors'}
             = {errors[i] : i \in DOMAIN errors} \cup {Report(k)}
          /\ \A i, j \in DOMAIN errors' :
                i < j => errors'[i].key < errors'[j].key
          /\ \A i \in DOMAIN errors' : errors'[i].key <= k
        <3> DEFINE after == Append(errors, Report(k))
        <3>1. Ordered
            BY DEF LoopInv
        <3>2. /\ after \in Seq(JsonMergeError)
              /\ {after[i] : i \in DOMAIN after}
                 = {errors[i] : i \in DOMAIN errors} \cup {Report(k)}
              /\ \A i, j \in DOMAIN after :
                    i < j => after[i].key < after[j].key
              /\ \A i \in DOMAIN after : after[i].key <= k
            BY <3>1, <1>3, <1>4, AppendedError
        <3>3. errors' = after
            BY <2>1
        <3> HIDE DEF after
        <3> QED
            BY <3>2, <3>3
    <2>3. TypeOK'
        BY <1>1, <1>2, <2>2 DEF LoopInv, TypeOK
    <2>4. {q \in MergeConflicts(oldGiven, newGiven) : Taken(q)'}
          = {q \in MergeConflicts(oldGiven, newGiven) : Taken(q)} \cup {k}
        BY <1>1, <1>2, <1>8, <1>9, NoneAssumption DEF Taken
    <2>5. Reported'
        BY <2>2, <2>4, <1>2 DEF LoopInv, Reported, Report
    <2>6. Ordered'
        <3>1. \A i \in DOMAIN errors' : errors'[i].key \in Nat
            <4>1. \A i \in DOMAIN errors' : errors'[i] \in JsonMergeError
                BY <2>2
            <4>2. \A e \in JsonMergeError : e.key \in Nat
                BY DEF JsonMergeError
            <4> QED
                BY <4>1, <4>2
        <3>2. \A q \in Remaining' : q \in Nat /\ k < q /\ k \in Nat
            BY <1>2 DEF Remaining
        <3>3. \A i \in DOMAIN errors', q \in Remaining' : errors'[i].key < q
            BY <2>2, <3>1, <3>2
        <3> QED
            BY <2>2, <3>3 DEF Ordered, ErrorsInOrder
    <2> QED
        BY <1>2, <1>5, <1>6, <2>3, <2>5, <2>6 DEF LoopInv
<1> QED
    BY <1>7, <1>8

LEMMA ReturnInv ==
    ASSUME LoopInv, Return
    PROVE  LoopInv'
<1>1. /\ UNCHANGED <<oldGiven, newGiven, old, new, errors, changed>>
      /\ Remaining = {} /\ returned' = TRUE
      /\ result' = IF changed THEN new ELSE None
    BY DEF Return
<1>2. TypeOK'
    <2>1. returned' \in BOOLEAN
        BY <1>1
    <2>2. result' \in JsonMaps \cup {None}
        BY <1>1 DEF LoopInv, TypeOK
    <2> QED
        BY <1>1, <2>1, <2>2 DEF LoopInv, TypeOK
<1>3. Merged' /\ Untouched' /\ ChangedMeans' /\ Reported' /\ Ordered'
    BY <1>1 DEF LoopInv, Merged, Untouched, ChangedMeans, Reported, Report,
                Ordered, ErrorsInOrder, Remaining, Taken
<1>4. ReturnsMerged'
    BY <1>1 DEF ReturnsMerged, Remaining
<1> QED
    BY <1>2, <1>3, <1>4 DEF LoopInv

\* The loop invariant: at every moment each key is as it was given or is
\* merged, and the errors are the conflicts among the keys taken so far.
THEOREM LoopInvariant == Spec => []LoopInv
<1>1. LoopInv /\ [Next]_vars => LoopInv'
    <2> SUFFICES ASSUME LoopInv, [Next]_vars PROVE LoopInv'
        OBVIOUS
    <2>1. CASE UNCHANGED vars
        BY <2>1 DEF vars, LoopInv, TypeOK, Merged, Untouched, ChangedMeans,
                    Reported, Report, Ordered, ErrorsInOrder, ReturnsMerged,
                    Remaining, Taken
    <2> QED
        BY <2>1, VacantInv, OccupiedInv, ReturnInv DEF Next
<1> QED
    BY <1>1, InitInv, PTL DEF Spec

\* Every state of the loop is well typed.
THEOREM TypeCorrect == Spec => []TypeOK
<1>1. LoopInv => TypeOK
    BY DEF LoopInv
<1> QED
    BY <1>1, LoopInvariant, PTL

\* For all maps, merge_json returns MergeResult, and reports the conflicts of
\* MergeConflicts with the values they had.
THEOREM MergeIsCorrect == Spec => []MergesAsPlanned
<1>1. LoopInv => MergesAsPlanned
    <2> SUFFICES ASSUME LoopInv, returned PROVE MergesAsPlanned
        BY DEF MergesAsPlanned
    <2>1. \A k \in Keys : Taken(k)
        BY DEF LoopInv, ReturnsMerged, Remaining, Taken
    <2>2. /\ new \in JsonMaps
          /\ MergeJson(oldGiven, newGiven) \in JsonMaps
          /\ \A k \in MergeConflicts(oldGiven, newGiven) : k \in Keys
        BY MergeJsonType DEF LoopInv, TypeOK
    <2>3. new = MergeJson(oldGiven, newGiven)
        <3>1. \A k \in Keys : new[k] = MergeJson(oldGiven, newGiven)[k]
            BY <2>1 DEF LoopInv, Merged
        <3> QED
            BY <3>1, <2>2, EqualMaps
    <2>4. result = MergeResult(oldGiven, newGiven)
        BY <2>3 DEF LoopInv, ReturnsMerged, ChangedMeans, MergeResult
    <2>5. {errors[i] : i \in DOMAIN errors}
          = {Report(k) : k \in MergeConflicts(oldGiven, newGiven)}
        BY <2>1, <2>2 DEF LoopInv, Reported
    <2> QED
        BY <2>4, <2>5 DEF MergesAsPlanned, Report
<1> QED
    BY <1>1, LoopInvariant, PTL

\* For all maps, the conflicts are reported once each, in key order.
THEOREM ErrorsAreOrdered == Spec => []ErrorsInOrder
<1>1. LoopInv => ErrorsInOrder
    BY DEF LoopInv, Ordered
<1> QED
    BY <1>1, LoopInvariant, PTL
=============================================================================
