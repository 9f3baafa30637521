--------------------------- MODULE SessionProofs ---------------------------
(***************************************************************************)
(* Proofs about Session: its types, that no session of the program's own   *)
(* stays open without a failed request, that no request is made in a       *)
(* session that is not open, and that the first error is the one returned. *)
(***************************************************************************)
EXTENDS Session, TLAPS

\* The lists of users to be logged out name nobody twice.
LEMMA LogOutListFacts ==
    ASSUME NEW l \in LogOutLists, l # <<>>
    PROVE  /\ Head(l) \in Users
           /\ Tail(l) \in LogOutLists
           /\ \A u \in Users :
                 Listed(Tail(l), u) <=> Listed(l, u) /\ u # Head(l)
           /\ Listed(l, Head(l))
<1>1. CASE l = <<"old">>
  <2>1. Tail(l) = <<>> /\ Head(l) = "old"  BY <1>1
  <2> QED  BY <1>1, <2>1 DEF LogOutLists, Listed, Users
<1>2. CASE l = <<"new">>
  <2>1. Tail(l) = <<>> /\ Head(l) = "new"  BY <1>2
  <2> QED  BY <1>2, <2>1 DEF LogOutLists, Listed, Users
<1>3. CASE l = <<"old", "new">>
  <2>1. Tail(l) = <<"new">> /\ Head(l) = "old"  BY <1>3
  <2> QED  BY <1>3, <2>1 DEF LogOutLists, Listed, Users
<1>4. CASE l = <<"new", "old">>
  <2>1. Tail(l) = <<"old">> /\ Head(l) = "new"  BY <1>4
  <2> QED  BY <1>4, <2>1 DEF LogOutLists, Listed, Users
<1> QED  BY <1>1, <1>2, <1>3, <1>4 DEF LogOutLists

\* Who is logged out when a user's client could not be initialised.
LEMMA AfterInitFacts ==
    ASSUME NEW u \in Users, NEW mine \in BOOLEAN
    PROVE  /\ AfterInit(u, mine) \in LogOutLists
           /\ \A v \in Users : Listed(AfterInit(u, mine), v)
                 <=> (v = u /\ mine) \/ (v = "old" /\ u = "new")
BY DEF AfterInit, LogOutLists, Listed, Users

-----------------------------------------------------------------------------
LEMMA InitType == Init => TypeOK
BY DEF Init, TypeOK, Cli, Points, LogOutLists, Users

LEMMA NextType == TypeOK /\ [Next]_vars => TypeOK'
<1> SUFFICES ASSUME TypeOK, [Next]_vars PROVE TypeOK'
  OBVIOUS
<1> USE DEF TypeOK, Points, Working
<1>1. ASSUME NEW ok \in BOOLEAN, InitLogging(ok) PROVE TypeOK'
  BY <1>1 DEF InitLogging, Occurs, Errors
<1>2. ASSUME NEW ok \in BOOLEAN, BuildClient(ok) PROVE TypeOK'
  <2>1. AfterBuild[cli.auth[user]] \in {"whoami", "login", "password"}
    BY DEF AfterBuild, Cli
  <2>2. AfterInit(user, FALSE) \in LogOutLists  BY AfterInitFacts
  <2> QED  BY <1>2, <2>1, <2>2
           DEF BuildClient, InitFails, Occurs, Errors
<1>3. ASSUME NEW ok \in BOOLEAN, Whoami(ok) PROVE TypeOK'
  <2>1. OwnSession(cli, user) \in BOOLEAN  BY DEF OwnSession
  <2> QED  BY <1>3, <2>1, AfterInitFacts
           DEF Whoami, InitFails, Occurs, Errors, Users
<1>4. ASSUME NEW ok \in BOOLEAN, MakePlan(ok) PROVE TypeOK'
  BY <1>4 DEF MakePlan, WorkEnds, Occurs, Errors, LogOutLists
<1>5. ASSUME NEW outcome \in Outcomes, LogIn(outcome) PROVE TypeOK'
  <2>1. session' \in [Users -> {"given", "none", "own", "closed"}]
    BY <1>5 DEF LogIn
  <2>2. AfterInit(user, FALSE) \in LogOutLists  BY AfterInitFacts
  <2> QED  BY <1>5, <2>1, <2>2
           DEF LogIn, InitFails, Occurs, Errors
<1>6. ASSUME NEW outcome \in Outcomes, LogOut(outcome) PROVE TypeOK'
  <2>1. Head(logOuts) \in Users /\ Tail(logOuts) \in LogOutLists
    BY <1>6, LogOutListFacts DEF LogOut
  <2>2. session' \in [Users -> {"given", "none", "own", "closed"}]
    BY <1>6, <2>1 DEF LogOut
  <2> QED  BY <1>6, <2>1, <2>2 DEF LogOut, AfterLogOut, Occurs, Errors
<1>7. CASE KeepSession
  BY <1>7, LogOutListFacts DEF KeepSession
<1>8. CASE Return
  BY <1>8 DEF Return, Reported, Errors
<1>9. CASE EnterPassword
  BY <1>9 DEF EnterPassword
<1>10. ASSUME NEW answer \in BOOLEAN, Confirm(answer) PROVE TypeOK'
  BY <1>10 DEF Confirm, WorkEnds, Occurs, Errors, LogOutLists
<1>11. ASSUME NEW answer \in BOOLEAN, ExecutePlan(answer) PROVE TypeOK'
  BY <1>11 DEF ExecutePlan, WorkEnds, Occurs, Errors, LogOutLists
<1>12. CASE Die
  BY <1>12 DEF Die
<1>13. CASE UNCHANGED vars
  BY <1>13 DEF vars
<1> QED
  BY <1>1, <1>2, <1>3, <1>4, <1>5, <1>6, <1>7, <1>8, <1>9, <1>10, <1>11,
     <1>12, <1>13 DEF Next, Proceed

\* The program keeps its types (main.rs:331-473).
THEOREM TypeCorrect == Spec => []TypeOK
BY InitType, NextType, PTL DEF Spec

-----------------------------------------------------------------------------
USE DEF SessionInv, TokensGiven, OpenedInOrder, ClosedInOrder, ErrorsInOrder,
        NoSessionLeaks, FirstErrorReported, IsOpen, Initialising, Working

LEMMA InitSession == Init => SessionInv
BY DEF Init, Users, OwnSession, Cli

\* The steps of init_client.
LEMMA InitClientSession ==
    ASSUME TypeOK, SessionInv,
           \/ \E ok \in BOOLEAN :
                 InitLogging(ok) \/ BuildClient(ok) \/ Whoami(ok)
           \/ \E outcome \in Outcomes : LogIn(outcome)
           \/ EnterPassword
    PROVE  SessionInv'
<1> USE DEF TypeOK
<1>1. ASSUME NEW ok \in BOOLEAN, InitLogging(ok) PROVE SessionInv'
  BY <1>1, NoneIsNoError DEF InitLogging, Occurs, Errors, Users, Listed
<1>2. ASSUME NEW ok \in BOOLEAN, BuildClient(ok) PROVE SessionInv'
  <2>1. CASE ok
    <3>1. IF OwnSession(cli, user) THEN pc' \in {"login", "password"}
                                   ELSE pc' = "whoami"
      BY <1>2, <2>1 DEF BuildClient, AfterBuild, OwnSession, Cli
    <3> QED  BY <1>2, <2>1, <3>1 DEF BuildClient, Users
  <2>2. CASE ~ok
    BY <1>2, <2>2, AfterInitFacts, NoneIsNoError
    DEF BuildClient, InitFails, Occurs, Errors, Users
  <2> QED  BY <2>1, <2>2
<1>3. ASSUME NEW ok \in BOOLEAN, Whoami(ok) PROVE SessionInv'
  <2>1. CASE ok  BY <1>3, <2>1 DEF Whoami, Users
  <2>2. CASE ~ok
    <3>1. OwnSession(cli, user) \in BOOLEAN  BY DEF OwnSession
    <3> QED  BY <1>3, <2>2, <3>1, AfterInitFacts, NoneIsNoError
             DEF Whoami, InitFails, Occurs, Errors, Users
  <2> QED  BY <2>1, <2>2
<1>4. ASSUME NEW outcome \in Outcomes, LogIn(outcome) PROVE SessionInv'
  <2>1. CASE outcome = "done"
    BY <1>4, <2>1 DEF LogIn, Applied, Users
  <2>2. CASE outcome # "done"
    BY <1>4, <2>2, AfterInitFacts, NoneIsNoError
    DEF LogIn, InitFails, Occurs, Errors, Users, Applied
  <2> QED  BY <2>1, <2>2
<1>5. CASE EnterPassword
  BY <1>5 DEF EnterPassword
<1> QED  BY <1>1, <1>2, <1>3, <1>4, <1>5

\* The steps of plan_and_execute, of logging out and of dying.
LEMMA RestOfSession ==
    ASSUME TypeOK, SessionInv,
           \/ \E ok \in BOOLEAN :
                 MakePlan(ok) \/ Confirm(ok) \/ ExecutePlan(ok)
           \/ \E outcome \in Outcomes : LogOut(outcome)
           \/ KeepSession \/ Return \/ Die
    PROVE  SessionInv'
<1> USE DEF TypeOK
<1>1. ASSUME NEW e \in Errors \cup {None}, pc \in Working, WorkEnds(e),
             UNCHANGED <<cli, user, session, logOutError, exit, excused>>
      PROVE  SessionInv'
  <2>1. \A u \in Users : Listed(logOuts', u)
    BY <1>1 DEF WorkEnds, Listed, Users
  <2> QED  BY <1>1, <2>1, NoneIsNoError DEF WorkEnds, Occurs
<1>2. ASSUME NEW ok \in BOOLEAN, MakePlan(ok) PROVE SessionInv'
  <2>1. CASE ok /\ ~cli.dryRun  BY <1>2, <2>1 DEF MakePlan
  <2>2. CASE ~(ok /\ ~cli.dryRun)
    BY <1>1, <1>2, <2>2 DEF MakePlan, Errors
  <2> QED  BY <2>1, <2>2
<1>3. ASSUME NEW yes \in BOOLEAN, Confirm(yes) PROVE SessionInv'
  <2>1. CASE yes  BY <1>3, <2>1 DEF Confirm
  <2>2. CASE ~yes  BY <1>1, <1>3, <2>2 DEF Confirm
  <2> QED  BY <2>1, <2>2
<1>4. ASSUME NEW ok \in BOOLEAN, ExecutePlan(ok) PROVE SessionInv'
  BY <1>1, <1>4 DEF ExecutePlan, Errors
<1>5. ASSUME NEW outcome \in Outcomes, LogOut(outcome) PROVE SessionInv'
  <2>1. /\ Head(logOuts) \in Users
        /\ \A u \in Users : Listed(Tail(logOuts), u)
              <=> Listed(logOuts, u) /\ u # Head(logOuts)
    BY <1>5, LogOutListFacts DEF LogOut
  <2>2. TokensGiven'
    BY <1>5, <2>1 DEF LogOut
  <2>3. ClosedInOrder'
    BY <1>5, <2>1 DEF LogOut, AfterLogOut, Applied
  <2>4. ErrorsInOrder'
    BY <1>5, NoneIsNoError DEF LogOut, Occurs, Errors
  <2> QED  BY <1>5, <2>2, <2>3, <2>4 DEF LogOut
<1>6. CASE KeepSession
  <2>1. /\ Head(logOuts) \in Users
        /\ \A u \in Users : Listed(Tail(logOuts), u)
              <=> Listed(logOuts, u) /\ u # Head(logOuts)
    BY <1>6, LogOutListFacts DEF KeepSession
  <2>2. session[Head(logOuts)] # "own" 
    BY <1>6, <2>1, LogOutListFacts DEF KeepSession
  <2> QED  BY <1>6, <2>1, <2>2 DEF KeepSession
<1>7. CASE Return
  <2>1. \A u \in Users : ~Listed(logOuts, u)
    BY <1>7 DEF Return, Listed
  <2> QED  BY <1>7, <2>1, NoneIsNoError DEF Return, Reported, Errors
<1>8. CASE Die
  BY <1>8 DEF Die
<1> QED  BY <1>2, <1>3, <1>4, <1>5, <1>6, <1>7, <1>8

HIDE DEF SessionInv, TokensGiven, OpenedInOrder, ClosedInOrder,
         ErrorsInOrder, NoSessionLeaks, FirstErrorReported, IsOpen,
         Initialising, Working

THEOREM SessionInvariant == Spec => []SessionInv
<1>1. TypeOK /\ SessionInv /\ [Next]_vars => SessionInv'
  <2> SUFFICES ASSUME TypeOK, SessionInv, [Next]_vars PROVE SessionInv'
    OBVIOUS
  <2>1. CASE UNCHANGED vars
    BY <2>1 DEF vars, SessionInv, TokensGiven, OpenedInOrder,
                ClosedInOrder, ErrorsInOrder, NoSessionLeaks,
                FirstErrorReported, Listed
  <2> QED
    BY <2>1, InitClientSession, RestOfSession DEF Next, Proceed
<1> QED  BY <1>1, InitSession, TypeCorrect, PTL DEF Spec

\* No session of the program's own is left open without a failed request
\* (main.rs:371, 448, 458-464).
THEOREM SessionsAreClosed == Spec => []NoSessionLeaks
<1>1. SessionInv => NoSessionLeaks
  BY DEF SessionInv
<1> QED  BY <1>1, SessionInvariant, PTL

\* No request is made in a session that is not open (main.rs:371-376).
THEOREM SessionsAreOpen == Spec => []OpenSessionsUsed
<1>1. TypeOK /\ SessionInv => OpenSessionsUsed
  <2> SUFFICES ASSUME TypeOK, SessionInv PROVE OpenSessionsUsed
    OBVIOUS
  <2>1. ASSUME pc = "logout", logOuts # <<>>
        PROVE  IsOpen(session[Head(logOuts)])
    BY <2>1, LogOutListFacts DEF TypeOK, SessionInv, ClosedInOrder
  <2> QED  BY <2>1 DEF OpenSessionsUsed, TypeOK, SessionInv, OpenedInOrder
<1> QED  BY <1>1, TypeCorrect, SessionInvariant, PTL

\* The first error is the one returned (main.rs:117-121, 466-472).
THEOREM FirstErrorReturned == Spec => []FirstErrorReported
<1>1. SessionInv => FirstErrorReported
  BY DEF SessionInv
<1> QED  BY <1>1, SessionInvariant, PTL

\* A session given by its token is never logged out (main.rs:339, 448-464).
THEOREM TokensAreKept == Spec => GivenSessionsKept
<1>1. TypeOK /\ SessionInv /\ [Next]_vars =>
         \A u \in Users : session[u] = "given" => session'[u] = "given"
  <2> SUFFICES ASSUME TypeOK, SessionInv, [Next]_vars,
                      NEW u \in Users, session[u] = "given"
               PROVE  session'[u] = "given"
    OBVIOUS
  <2>1. ASSUME NEW outcome \in Outcomes, LogIn(outcome)
        PROVE  session'[u] = "given"
    BY <2>1 DEF LogIn, TypeOK, SessionInv, TokensGiven, OpenedInOrder
  <2>2. ASSUME NEW outcome \in Outcomes, LogOut(outcome)
        PROVE  session'[u] = "given"
    BY <2>2 DEF LogOut, TypeOK, SessionInv, TokensGiven
  <2>3. CASE UNCHANGED session
    BY <2>3
  <2> QED
    BY <2>1, <2>2, <2>3
    DEF Next, Proceed, vars, InitLogging, BuildClient, Whoami, MakePlan,
        KeepSession, Return, EnterPassword, Confirm, ExecutePlan, Die
<1> QED  BY <1>1, TypeCorrect, SessionInvariant, PTL DEF Spec, GivenSessionsKept
=============================================================================
