----------------------------- MODULE RateLimit -----------------------------
(***************************************************************************)
(* RateLimitedClient of src/rate_limit.rs.  Tasks send requests to         *)
(* endpoints; the state of an endpoint is created on first use, under a    *)
(* read-write lock that is never held across an await, and its mutex lets  *)
(* one task at a time through, which sleeps until next_request, sends, and *)
(* tries again as long as the homeserver answers M_LIMIT_EXCEEDED.         *)
(*                                                                         *)
(* An instant is represented by its distance from now, so that the clock   *)
(* needs no bound: a tick brings every instant one unit nearer, and those  *)
(* that have passed are all alike.  The homeserver limits an endpoint for  *)
(* some time, and may tell it as a delay, as a date, or not at all.  Its   *)
(* clock may be slow, so that a date can be past when it is read.          *)
(* A date may be further ahead than an instant can lie back, and the clock *)
(* runs on, so that Reach says when a panic can happen, not when it must.  *)
(***************************************************************************)
EXTENDS Integers

CONSTANTS Tasks, Endpoints,
          Answers,      \* how a limit is told: subset of AnswerKinds
          Period,       \* DEFAULT_REQUEST_PERIOD
          RetryAfter,   \* DEFAULT_RETRY_AFTER
          MaxDelay,     \* longest limit
          MaxLimited,   \* how often the homeserver limits
          MaxSkew,      \* by how much the homeserver's clock may be slow
          Reach,        \* how far before now an instant surely exists: on
                        \* some platforms no instant precedes the boot
          None

AnswerKinds == {"delay", "date", "unsaid"}

ASSUME AnswersAssumption == Answers \subseteq AnswerKinds
ASSUME TimesAssumption ==
    /\ Period \in Nat /\ RetryAfter \in Nat /\ MaxDelay \in Nat
    /\ MaxLimited \in Nat /\ MaxSkew \in Nat /\ Reach \in Nat
ASSUME NoneAssumption ==
    None \notin Endpoints /\ None \notin Tasks /\ None \notin Tasks \X Endpoints

VARIABLES
    step,      \* task -> where it is in send_request
    endpoint,  \* task -> the type of its request
    states,    \* RateLimitedClient::state: endpoint -> its LimitState
    handle,    \* task -> the LimitState it got from request_state
    holder,    \* LimitState -> the task that holds next_request
    next,      \* LimitState -> next_request; no instant and one that has
               \* passed are the same
    limit,     \* homeserver: endpoint -> the instant its limit ends
    due,       \* endpoint -> the first instant the next request may be sent
    dated,     \* the endpoints whose last answer told a limit as a date
    limited    \* how often the homeserver has limited

vars == <<step, endpoint, states, handle, holder, next, limit, due, dated,
          limited>>

\* A LimitState is named after the task that created it and the endpoint
\* it created it for: no task creates two for one endpoint.
LimitStates == Tasks \X Endpoints

Steps == {"idle", "lookUp", "insert", "lock", "sleep", "sending", "panicked"}

TypeOK ==
    /\ step \in [Tasks -> Steps]
    /\ endpoint \in [Tasks -> Endpoints \cup {None}]
    /\ \A t \in Tasks : step[t] # "idle" => endpoint[t] \in Endpoints
    /\ states \in [Endpoints -> LimitStates \cup {None}]
    /\ handle \in [Tasks -> LimitStates \cup {None}]
    /\ \A t \in Tasks : step[t] \in {"lock", "sleep", "sending"}
                           => handle[t] \in LimitStates
    /\ holder \in [LimitStates -> Tasks \cup {None}]
    /\ next \in [LimitStates -> Int]
    /\ limit \in [Endpoints -> Nat]
    /\ due \in [Endpoints -> Nat]
    /\ dated \in SUBSET Endpoints
    /\ limited \in 0 .. MaxLimited

Init ==
    /\ step = [t \in Tasks |-> "idle"]
    /\ endpoint = [t \in Tasks |-> None]
    /\ states = [e \in Endpoints |-> None]
    /\ handle = [t \in Tasks |-> None]
    /\ holder = [s \in LimitStates |-> None]
    /\ next = [s \in LimitStates |-> 0]
    /\ limit = [e \in Endpoints |-> 0]
    /\ due = [e \in Endpoints |-> 0]
    /\ dated = {} /\ limited = 0

GoTo(t, there) == step' = [step EXCEPT ![t] = there]

-----------------------------------------------------------------------------
(* request_state: a look-up under the read lock, then, without it, an      *)
(* insertion under the write lock that keeps what is there by then.        *)

Call(t, e) ==
    /\ step[t] = "idle"
    /\ endpoint' = [endpoint EXCEPT ![t] = e]
    /\ GoTo(t, "lookUp")
    /\ UNCHANGED <<states, handle, holder, next, limit, due, dated, limited>>

LookUp(t) ==
    /\ step[t] = "lookUp"
    /\ LET found == states[endpoint[t]] IN
       IF found # None
       THEN handle' = [handle EXCEPT ![t] = found] /\ GoTo(t, "lock")
       ELSE GoTo(t, "insert") /\ UNCHANGED handle
    /\ UNCHANGED <<endpoint, states, holder, next, limit, due, dated, limited>>

OrInsert_Overwrite(t) == <<t, endpoint[t]>>              \* mutated form

OrInsert_NotInserted(t) == states[endpoint[t]]           \* mutated form

\* entry(id).or_insert(state)
OrInsert(t) ==
    IF states[endpoint[t]] = None THEN <<t, endpoint[t]>>
                                  ELSE states[endpoint[t]]

Insert(t) ==
    /\ step[t] = "insert"
    /\ states' = [states EXCEPT ![endpoint[t]] = OrInsert(t)]
    /\ handle' = [handle EXCEPT ![t] = OrInsert(t)]
    /\ GoTo(t, "lock")
    /\ UNCHANGED <<endpoint, holder, next, limit, due, dated, limited>>

-----------------------------------------------------------------------------
(* send_request                                                            *)

Lock(t) ==
    /\ step[t] = "lock"
    /\ holder[handle[t]] = None
    /\ holder' = [holder EXCEPT ![handle[t]] = t]
    /\ GoTo(t, "sleep")
    /\ UNCHANGED <<endpoint, states, handle, next, limit, due, dated, limited>>

\* sleep_until returns at once when the instant has passed.
Send(t) ==
    /\ step[t] = "sleep"
    /\ next[handle[t]] <= 0
    /\ GoTo(t, "sending")
    /\ UNCHANGED <<endpoint, states, handle, holder, next, limit, due, dated,
                   limited>>

\* An answer other than a limit: next_request is set and the guard dropped.
AfterAnswer_Now == 0                                     \* mutated form

AfterAnswer == Period

Answered(t) ==
    /\ step[t] = "sending"
    /\ limit[endpoint[t]] = 0
    /\ next' = [next EXCEPT ![handle[t]] = AfterAnswer]
    /\ holder' = [holder EXCEPT ![handle[t]] = None]
    /\ due' = [due EXCEPT ![endpoint[t]] = Period]
    /\ dated' = dated \ {endpoint[t]}
    /\ GoTo(t, "idle")
    /\ endpoint' = [endpoint EXCEPT ![t] = None]
    /\ handle' = [handle EXCEPT ![t] = None]
    /\ UNCHANGED <<states, limit, limited>>

\* The end of the limit as the answer tells it, and as this clock has it.
Told(kind, until) ==
    IF kind = "date" THEN (until - MaxSkew) .. until ELSE {until}

\* The next attempt, by the way the limit was told.  A date is converted by
\* its distance from now, which is added if it lies in the past, and
\* subtracted if it lies in the future.
RetryAt(kind, told) ==
    CASE kind = "delay"  -> told
      [] kind = "date"   -> -told
      [] kind = "unsaid" -> RetryAfter

NotPast(instant) == IF instant > 0 THEN instant ELSE 0

\* The instant the answer asked to wait for.
AskedFor(kind, told) == IF kind = "unsaid" THEN RetryAfter ELSE NotPast(told)

\* The homeserver limits the endpoint, or has limited it before.  The task
\* keeps the mutex while it waits for the next attempt.
Limited(t, kind, told) ==
    /\ step[t] = "sending"
    /\ limit[endpoint[t]] > 0
    /\ told \in Told(kind, limit[endpoint[t]])
    /\ next' = [next EXCEPT ![handle[t]] = RetryAt(kind, told)]
    /\ due' = [due EXCEPT ![endpoint[t]] = AskedFor(kind, told)]
    /\ dated' = IF kind = "date" THEN dated \cup {endpoint[t]}
                                 ELSE dated \ {endpoint[t]}
    /\ GoTo(t, "sleep")
    /\ UNCHANGED <<endpoint, states, handle, holder, limit, limited>>

\* The subtraction of a date that lies further ahead than the clock has been
\* running panics.  Unwinding drops the guard, which poisons nothing: the
\* mutex is free again, and next_request is as it was.
HolderAfterPanic_Kept(t) == holder[handle[t]]            \* mutated form

HolderAfterPanic(t) == None

Panic(t, kind, told) ==
    /\ step[t] = "sending"
    /\ kind = "date"
    /\ told \in Told(kind, limit[endpoint[t]])
    /\ told > Reach
    /\ holder' = [holder EXCEPT ![handle[t]] = HolderAfterPanic(t)]
    /\ due' = [due EXCEPT ![endpoint[t]] = AskedFor(kind, told)]
    /\ dated' = dated \cup {endpoint[t]}
    /\ GoTo(t, "panicked")
    /\ UNCHANGED <<endpoint, states, handle, next, limit, limited>>

-----------------------------------------------------------------------------
\* The homeserver starts limiting an endpoint.
StartLimit(e, delay) ==
    /\ limited < MaxLimited
    /\ limited' = limited + 1
    /\ limit' = [limit EXCEPT ![e] = delay]
    /\ UNCHANGED <<step, endpoint, states, handle, holder, next, due, dated>>

\* Time passes.
Nearer(instant) == IF instant > 0 THEN instant - 1 ELSE instant

Tick ==
    /\ next' = [s \in LimitStates |-> Nearer(next[s])]
    /\ limit' = [e \in Endpoints |-> Nearer(limit[e])]
    /\ due' = [e \in Endpoints |-> Nearer(due[e])]
    /\ UNCHANGED <<step, endpoint, states, handle, holder, dated, limited>>

TaskStep(t) ==
    \/ LookUp(t) \/ Insert(t) \/ Lock(t) \/ Send(t) \/ Answered(t)
    \/ \E kind \in Answers, told \in -MaxSkew .. MaxDelay :
          Limited(t, kind, told) \/ Panic(t, kind, told)

Next ==
    \/ \E t \in Tasks : TaskStep(t) \/ \E e \in Endpoints : Call(t, e)
    \/ \E e \in Endpoints, delay \in 1 .. MaxDelay : StartLimit(e, delay)
    \/ Tick

\* Time passes, every task that can run does, and tokio's mutex is fair.
Fairness == /\ WF_vars(Tick)
            /\ \A t \in Tasks : WF_vars(TaskStep(t)) /\ SF_vars(Lock(t))

Spec == Init /\ [][Next]_vars /\ Fairness

-----------------------------------------------------------------------------
\* "We only allow one concurrent request of each type" (rate_limit.rs:32).
OneAtATime ==
    \A t, u \in Tasks :
       step[t] = "sending" /\ step[u] = "sending" /\ t # u
          => endpoint[t] # endpoint[u]

\* No request is sent to an endpoint before the time that the last answer of
\* this endpoint, to whichever task, asked to wait for; unless it told that
\* time as a date.
RespectsDue ==
    [][\A t \in Tasks :
          step[t] # "sending" /\ step'[t] = "sending"
             => due[endpoint[t]] = 0 \/ endpoint[t] \in dated]_vars

\* The same of the limits told as dates: "a task needs to lock the mutex then
\* wait until the specified time" (rate_limit.rs:34).
RespectsDates ==
    [][\A t \in Tasks :
          step[t] # "sending" /\ step'[t] = "sending"
             => due[endpoint[t]] = 0 \/ endpoint[t] \notin dated]_vars

\* Once the homeserver stops limiting, every call comes back, unless its own
\* task panics (rate_limit.rs:113): no task keeps an endpoint's mutex, not
\* even one that panicked while it had it, and none is passed over for ever.
CallReturns ==
    \A t \in Tasks :
       step[t] \notin {"idle", "panicked"} ~> step[t] \in {"idle", "panicked"}
=============================================================================
