-------------------------- MODULE RateLimitProofs --------------------------
(***************************************************************************)
(* Proofs about RateLimit, for any number of tasks and endpoints: one      *)
(* request of each type at a time, although the state of an endpoint is    *)
(* looked up and created in two steps; and no request before it is due,    *)
(* except after a limit that was told as a date.                           *)
(***************************************************************************)
EXTENDS RateLimit, TLAPS

USE DEF Steps, LimitStates, GoTo

LEMMA InitType == Init => TypeOK
BY TimesAssumption DEF Init, TypeOK

LEMMA TaskType ==
    ASSUME TypeOK, NEW t \in Tasks, TaskStep(t)
    PROVE  TypeOK'
<1> USE TimesAssumption, NoneAssumption DEF TypeOK
<1>1. CASE LookUp(t)
    BY <1>1 DEF LookUp
<1>2. CASE Insert(t)
    <2>1. endpoint[t] \in Endpoints
        BY <1>2 DEF Insert
    <2>2. OrInsert(t) \in LimitStates
        BY <2>1 DEF OrInsert
    <2> QED
        BY <1>2, <2>1, <2>2 DEF Insert
<1>3. CASE Lock(t)
    BY <1>3 DEF Lock
<1>4. CASE Send(t)
    BY <1>4 DEF Send
<1>5. CASE Answered(t)
    <2>1. /\ next' \in [LimitStates -> Int]
          /\ holder' \in [LimitStates -> Tasks \cup {None}]
          /\ due' \in [Endpoints -> Nat]
        BY <1>5 DEF Answered, AfterAnswer
    <2> QED
        BY <1>5, <2>1 DEF Answered
<1>6. ASSUME NEW kind \in Answers, NEW told \in -MaxSkew .. MaxDelay,
             Limited(t, kind, told)
      PROVE  TypeOK'
    <2>1. told \in Int /\ kind \in AnswerKinds
        BY AnswersAssumption
    <2>2. RetryAt(kind, told) \in Int /\ AskedFor(kind, told) \in Nat
        BY <2>1 DEF RetryAt, AskedFor, NotPast, AnswerKinds
    <2> QED
        BY <1>6, <2>1, <2>2 DEF Limited
<1>7. ASSUME NEW kind \in Answers, NEW told \in -MaxSkew .. MaxDelay,
             Panic(t, kind, told)
      PROVE  TypeOK'
    <2>1. endpoint[t] \in Endpoints /\ handle[t] \in LimitStates
        BY <1>7 DEF Panic
    <2>2. /\ holder' \in [LimitStates -> Tasks \cup {None}]
          /\ due' \in [Endpoints -> Nat]
        BY <1>7, <2>1 DEF Panic, HolderAfterPanic, AskedFor, NotPast
    <2> QED
        BY <1>7, <2>1, <2>2 DEF Panic
<1> QED
    BY <1>1, <1>2, <1>3, <1>4, <1>5, <1>6, <1>7 DEF TaskStep

LEMMA NextType == TypeOK /\ [Next]_vars => TypeOK'
<1> SUFFICES ASSUME TypeOK, [Next]_vars PROVE TypeOK'
    OBVIOUS
<1> USE TimesAssumption DEF TypeOK
<1>1. ASSUME NEW t \in Tasks, NEW e \in Endpoints, Call(t, e) PROVE TypeOK'
    BY <1>1 DEF Call
<1>2. ASSUME NEW e \in Endpoints, NEW delay \in 1 .. MaxDelay,
             StartLimit(e, delay)
      PROVE  TypeOK'
    BY <1>2 DEF StartLimit
<1>3. CASE Tick
    BY <1>3 DEF Tick, Nearer
<1>4. CASE UNCHANGED vars
    BY <1>4 DEF vars
<1> QED
    BY <1>1, <1>2, <1>3, <1>4, TaskType DEF Next

\* Every state is well typed; in particular a task only ever locks and waits
\* for a LimitState that it has.
THEOREM TypeCorrect == Spec => []TypeOK
BY InitType, NextType, PTL DEF Spec

-----------------------------------------------------------------------------
(* Mutual exclusion: every task past request_state has the one LimitState  *)
(* of its endpoint, and a task past the lock is the one that holds it.     *)

OneState ==
    \A t \in Tasks : step[t] \in {"lock", "sleep", "sending"}
                        => handle[t] = states[endpoint[t]]

Holds ==
    \A t \in Tasks : step[t] \in {"sleep", "sending"}
                        => holder[handle[t]] = t

LEMMA InitExclusion == Init => OneState /\ Holds
BY DEF Init, OneState, Holds

LEMMA NextExclusion ==
    TypeOK /\ OneState /\ Holds /\ [Next]_vars => (OneState /\ Holds)'
<1> SUFFICES ASSUME TypeOK, OneState, Holds, [Next]_vars
             PROVE  (OneState /\ Holds)'
    OBVIOUS
<1> USE NoneAssumption DEF TypeOK, OneState, Holds
<1>1. ASSUME NEW t \in Tasks, NEW e \in Endpoints, Call(t, e)
      PROVE  (OneState /\ Holds)'
    BY <1>1 DEF Call
<1>2. ASSUME NEW t \in Tasks, LookUp(t) PROVE (OneState /\ Holds)'
    <2>1. /\ step'[t] \in {"lock", "insert"}
          /\ step'[t] = "lock" => handle'[t] = states[endpoint[t]]
          /\ \A u \in Tasks \ {t} : step'[u] = step[u] /\ handle'[u] = handle[u]
          /\ UNCHANGED <<endpoint, states, holder>>
        BY <1>2 DEF LookUp
    <2>2. OneState'
        BY <2>1
    <2>3. Holds'
        BY <2>1
    <2> QED
        BY <2>2, <2>3
<1>3. ASSUME NEW t \in Tasks, Insert(t) PROVE (OneState /\ Holds)'
    <2>1. endpoint[t] \in Endpoints
        BY <1>3 DEF Insert
    <2>2. \A e \in Endpoints : states[e] # None => states'[e] = states[e]
        BY <1>3, <2>1 DEF Insert, OrInsert
    <2>3. states'[endpoint[t]] = OrInsert(t) /\ handle'[t] = OrInsert(t)
        BY <1>3, <2>1 DEF Insert
    <2>4. /\ step'[t] = "lock"
          /\ \A u \in Tasks \ {t} : step'[u] = step[u] /\ handle'[u] = handle[u]
          /\ UNCHANGED <<endpoint, holder>>
        BY <1>3 DEF Insert
    <2>5. OneState'
        BY <2>1, <2>2, <2>3, <2>4
    <2>6. Holds'
        BY <2>4
    <2> QED
        BY <2>5, <2>6
<1>4. ASSUME NEW t \in Tasks, Lock(t) PROVE (OneState /\ Holds)'
    BY <1>4 DEF Lock
<1>5. ASSUME NEW t \in Tasks, Send(t) PROVE (OneState /\ Holds)'
    BY <1>5 DEF Send
<1>6. ASSUME NEW t \in Tasks, Answered(t) PROVE (OneState /\ Holds)'
    BY <1>6 DEF Answered
<1>7. ASSUME NEW t \in Tasks, NEW kind \in Answers,
             NEW told \in -MaxSkew .. MaxDelay, Limited(t, kind, told)
      PROVE  (OneState /\ Holds)'
    BY <1>7 DEF Limited
<1>8. ASSUME NEW e \in Endpoints, NEW delay \in 1 .. MaxDelay,
             StartLimit(e, delay)
      PROVE  (OneState /\ Holds)'
    BY <1>8 DEF StartLimit
<1>9. CASE Tick \/ UNCHANGED vars
    BY <1>9 DEF Tick, vars
<1>10. ASSUME NEW t \in Tasks, NEW kind \in Answers,
             NEW told \in -MaxSkew .. MaxDelay, Panic(t, kind, told)
      PROVE  (OneState /\ Holds)'
    BY <1>10 DEF Panic, HolderAfterPanic
<1> QED
    BY <1>1, <1>2, <1>3, <1>4, <1>5, <1>6, <1>7, <1>8, <1>9, <1>10
    DEF Next, TaskStep

\* At most one request to an endpoint is under way, for any number of tasks:
\* the promise of the comment at rate_limit.rs:32.
THEOREM MutualExclusion == Spec => []OneAtATime
<1>1. TypeOK /\ OneState /\ Holds => OneAtATime
    BY DEF TypeOK, OneState, Holds, OneAtATime
<1> QED
    BY <1>1, InitType, NextType, InitExclusion, NextExclusion, PTL DEF Spec

-----------------------------------------------------------------------------
(* Timing: next_request is never earlier than what the last answer of the  *)
(* endpoint asked for, unless that was told as a date.                     *)

NotEarly ==
    \A e \in Endpoints :
       \/ e \in dated
       \/ due[e] = 0
       \/ (states[e] \in LimitStates /\ due[e] <= next[states[e]])

\* No two endpoints share a LimitState.
OwnState == \A e \in Endpoints : states[e] # None => states[e][2] = e

LEMMA InitTiming == Init => NotEarly /\ OwnState
BY DEF Init, NotEarly, OwnState

LEMMA NextOwnState == TypeOK /\ OwnState /\ [Next]_vars => OwnState'
<1> SUFFICES ASSUME TypeOK, OwnState, [Next]_vars PROVE OwnState'
    OBVIOUS
<1> USE DEF TypeOK, OwnState
<1>1. ASSUME NEW t \in Tasks, Insert(t) PROVE OwnState'
    <2>1. endpoint[t] \in Endpoints
        BY <1>1 DEF Insert
    <2>2. \A e \in Endpoints \ {endpoint[t]} : states'[e] = states[e]
        BY <1>1, <2>1 DEF Insert
    <2>3. states'[endpoint[t]][2] = endpoint[t]
        BY <1>1, <2>1 DEF Insert, OrInsert
    <2> QED
        BY <2>1, <2>2, <2>3
<1>2. ASSUME NEW t \in Tasks, TaskStep(t), ~Insert(t) PROVE UNCHANGED states
    BY <1>2 DEF TaskStep, LookUp, Lock, Send, Answered, Limited,
              Panic
<1>3. CASE UNCHANGED states
    BY <1>3
<1> QED
    BY <1>1, <1>2, <1>3 DEF Next, Call, StartLimit, Tick, vars

LEMMA NextTiming ==
    TypeOK /\ OneState /\ OwnState /\ NotEarly /\ [Next]_vars => NotEarly'
<1> SUFFICES ASSUME TypeOK, OneState, OwnState, NotEarly, [Next]_vars
             PROVE  NotEarly'
    OBVIOUS
<1> USE NoneAssumption, TimesAssumption DEF TypeOK, OneState, NotEarly
<1>1. ASSUME NEW t \in Tasks, NEW e \in Endpoints, Call(t, e) PROVE NotEarly'
    BY <1>1 DEF Call
<1>2. ASSUME NEW t \in Tasks, LookUp(t) \/ Lock(t) \/ Send(t) PROVE NotEarly'
    BY <1>2 DEF LookUp, Lock, Send
<1>3. ASSUME NEW t \in Tasks, Insert(t) PROVE NotEarly'
    <2>1. endpoint[t] \in Endpoints /\ UNCHANGED <<next, due>>
        BY <1>3 DEF Insert
    <2>2. \A e \in Endpoints : states[e] # None => states'[e] = states[e]
        BY <1>3, <2>1 DEF Insert, OrInsert
    <2>3. UNCHANGED dated
        BY <1>3 DEF Insert
    <2>4. ASSUME NEW e \in Endpoints, e \notin dated, due[e] # 0
          PROVE  states'[e] = states[e] /\ states[e] \in LimitStates
                 /\ due[e] <= next[states[e]]
        BY <2>2, <2>4
    <2> QED
        BY <2>1, <2>3, <2>4
<1>4. ASSUME NEW t \in Tasks, Answered(t) PROVE NotEarly'
    <2>1. endpoint[t] \in Endpoints /\ handle[t] = states[endpoint[t]]
          /\ handle[t] \in LimitStates
        BY <1>4 DEF Answered
    <2>2. \A e \in Endpoints \ {endpoint[t]} :
             /\ due'[e] = due[e] /\ states'[e] = states[e]
             /\ e \in dated' <=> e \in dated
             /\ states[e] \in LimitStates => next'[states[e]] = next[states[e]]
        BY <1>4, <2>1 DEF Answered, OwnState
    <2>3. due'[endpoint[t]] = Period /\ next'[handle[t]] = Period
          /\ states'[endpoint[t]] = handle[t]
        BY <1>4, <2>1 DEF Answered, AfterAnswer
    <2> QED
        BY <2>1, <2>2, <2>3
<1>5. ASSUME NEW t \in Tasks, NEW kind \in Answers,
             NEW told \in -MaxSkew .. MaxDelay, Limited(t, kind, told)
      PROVE  NotEarly'
    <2>1. endpoint[t] \in Endpoints /\ handle[t] = states[endpoint[t]]
          /\ handle[t] \in LimitStates
        BY <1>5 DEF Limited
    <2>2. \A e \in Endpoints \ {endpoint[t]} :
             /\ due'[e] = due[e] /\ states'[e] = states[e]
             /\ e \in dated' <=> e \in dated
             /\ states[e] \in LimitStates => next'[states[e]] = next[states[e]]
        BY <1>5, <2>1 DEF Limited, OwnState
    <2>3. CASE kind = "date"
        <3>1. endpoint[t] \in dated'
            BY <1>5, <2>3 DEF Limited
        <3> QED
            BY <2>1, <2>2, <3>1
    <2>4. CASE kind # "date"
        <3>1. kind \in {"delay", "unsaid"}
            BY <2>4, AnswersAssumption DEF AnswerKinds
        <3>2. RetryAt(kind, told) = AskedFor(kind, told)
            BY <1>5, <2>1, <3>1 DEF Limited, Told, RetryAt, AskedFor, NotPast
        <3>3. due'[endpoint[t]] = next'[handle[t]]
              /\ states'[endpoint[t]] = handle[t]
            BY <1>5, <2>1, <3>2 DEF Limited
        <3>4. due'[endpoint[t]] \in Nat
            BY <1>5, <2>1 DEF Limited, AskedFor, NotPast
        <3> QED
            BY <2>1, <2>2, <3>3, <3>4
    <2> QED
        BY <2>3, <2>4
<1>6. ASSUME NEW e \in Endpoints, NEW delay \in 1 .. MaxDelay,
             StartLimit(e, delay)
      PROVE  NotEarly'
    BY <1>6 DEF StartLimit
<1>7. CASE Tick
    BY <1>7 DEF Tick, Nearer
<1>8. CASE UNCHANGED vars
    BY <1>8 DEF vars
<1>9. ASSUME NEW t \in Tasks, NEW kind \in Answers,
             NEW told \in -MaxSkew .. MaxDelay, Panic(t, kind, told)
      PROVE  NotEarly'
    BY <1>9 DEF Panic
<1> QED
    BY <1>1, <1>2, <1>3, <1>4, <1>5, <1>6, <1>7, <1>8, <1>9
    DEF Next, TaskStep

\* No request is sent to an endpoint before the time the endpoint's last
\* answer asked for, whichever task got it, unless it was told as a date.
THEOREM RequestsAreNotEarly == Spec => RespectsDue
<1> DEFINE Inv == TypeOK /\ OneState /\ Holds /\ OwnState /\ NotEarly
           OnTime == \A t \in Tasks :
                        step[t] # "sending" /\ step'[t] = "sending"
                           => due[endpoint[t]] = 0 \/ endpoint[t] \in dated
<1>1. Init => Inv
    BY InitType, InitExclusion, InitTiming
<1>2. Inv /\ [Next]_vars => Inv'
    BY NextType, NextExclusion, NextOwnState, NextTiming
<1>3. Inv /\ [Next]_vars => [OnTime]_vars
    <2> SUFFICES ASSUME Inv, Next, NEW t \in Tasks,
                        step[t] # "sending", step'[t] = "sending"
                 PROVE  due[endpoint[t]] = 0 \/ endpoint[t] \in dated
        BY DEF vars
    <2>1. ASSUME NEW u \in Tasks, TaskStep(u) PROVE Send(t)
        <3>1. step'[u] = "sending" => Send(u)
            BY <2>1 DEF TypeOK, TaskStep, LookUp, Insert, Lock, Send,
                        Answered, Limited, Panic
        <3>2. u # t => step'[t] = step[t]
            BY <2>1 DEF TypeOK, TaskStep, LookUp, Insert, Lock, Send,
                        Answered, Limited, Panic
        <3>3. u = t
            BY <3>2
        <3>4. step'[u] = "sending"
            BY <3>3
        <3>5. Send(u)
            BY <3>1, <3>4
        <3> QED
            BY <3>3, <3>5 DEF Send
    <2>2. ~Tick /\ \A e \in Endpoints :
                       /\ \A u \in Tasks : ~Call(u, e)
                       /\ \A delay \in 1 .. MaxDelay : ~StartLimit(e, delay)
        BY DEF TypeOK, Tick, Call, StartLimit
    <2>3. Send(t)
        BY <2>1, <2>2 DEF Next
    <2>4. /\ endpoint[t] \in Endpoints /\ handle[t] = states[endpoint[t]]
          /\ next[handle[t]] <= 0
        BY <2>3 DEF Send, TypeOK, OneState
    <2>5. due[endpoint[t]] \in Nat
        BY <2>4 DEF TypeOK
    <2>6. \/ endpoint[t] \in dated
          \/ due[endpoint[t]] = 0
          \/ /\ handle[t] \in LimitStates
             /\ due[endpoint[t]] <= next[handle[t]]
        BY <2>4 DEF NotEarly
    <2>7. handle[t] \in LimitStates => next[handle[t]] \in Int
        BY DEF TypeOK
    <2> QED
        BY <2>4, <2>5, <2>6, <2>7
<1> HIDE DEF Inv, OnTime
<1>4. Spec => [][OnTime]_vars
    BY <1>1, <1>2, <1>3, PTL DEF Spec
<1> QED
    BY <1>4 DEF OnTime, RespectsDue
=============================================================================
