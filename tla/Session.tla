------------------------------ MODULE Session ------------------------------
(***************************************************************************)
(* The frame around a migration, src/main.rs: the sessions of the two      *)
(* users are opened (init_client), the plan is made, shown, confirmed and  *)
(* executed (plan_and_execute), and the sessions the program itself        *)
(* created are closed again (try_main), whatever failed on the way.        *)
(*                                                                         *)
(* Making and executing a plan are one step each here: Migration has their *)
(* detail.  first and excused are history variables: the first error that  *)
(* occurred, and the users whose log-in or log-out request failed.         *)
(***************************************************************************)
EXTENDS Sequences

CONSTANT None

Users == {"old", "new"}

\* The command line: each user is given by an access token, by a user id
\* with the password, or by a user id whose password is prompted for.
Cli == [auth : [Users -> {"token", "password", "prompt"}], dryRun : BOOLEAN]

Errors == {"InitLogging", "InitClient", "LogIn", "InitClientState",
           "MakePlan", "ExecutePlan", "LogOut"}

ASSUME NoneIsNoError == None \notin Errors

VARIABLES
    cli,         \* Cli
    pc,          \* where the program is
    user,        \* whose client is being initialised
    session,     \* per user: the session on the homeserver
    logOuts,     \* the users still to be logged out, in this order
    error,       \* the Error to be returned
    logOutError, \* log_out_error
    exit,        \* how the process ended
    first, excused

vars == <<cli, pc, user, session, logOuts, error, logOutError, exit, first,
          excused>>

\* Points where the user is waited for.
Prompts == {"password", "confirm"}
Working == {"plan", "confirm", "execute"}
Points == {"logging", "client", "password", "login", "whoami", "logout",
           "ended"} \cup Working
LogOutLists == {<<>>, <<"old">>, <<"new">>, <<"old", "new">>,
                <<"new", "old">>}

TypeOK ==
    /\ cli \in Cli
    /\ pc \in Points
    /\ user \in Users
    /\ session \in [Users -> {"given", "none", "own", "closed"}]
    /\ logOuts \in LogOutLists
    /\ error \in Errors \cup {None}
    /\ logOutError \in BOOLEAN
    /\ exit \in {None, "success", "failure", "died"}
    /\ first \in Errors \cup {None}
    /\ excused \in SUBSET Users

OwnSession_Always(c, u) == TRUE                          \* mutated form

\* new_session: the program logs in, and has to log out.
OwnSession(c, u) == c.auth[u] # "token"

Init ==
    /\ cli \in Cli
    /\ pc = "logging" /\ user = "old"
    /\ session = [u \in Users |->
                    IF cli.auth[u] = "token" THEN "given" ELSE "none"]
    /\ logOuts = <<>>
    /\ error = None /\ logOutError = FALSE /\ exit = None
    /\ first = None /\ excused = {}

-----------------------------------------------------------------------------
(* Steps that fail.                                                        *)

Occurs(e) == first' = IF first = None THEN e ELSE first

AfterInit_OldKept(u, mine) == IF mine THEN <<u>> ELSE <<>>  \* mutated forms
AfterInit_Always(u, mine) == IF mine THEN <<u, "old">> ELSE <<"old">>

\* Who is logged out after init_client of user u failed: u itself if the
\* session was just opened, and the old user if it was there already.
AfterInit(u, mine) ==
    IF u = "old" THEN (IF mine THEN <<"old">> ELSE <<>>)
                 ELSE (IF mine THEN <<"new", "old">> ELSE <<"old">>)

\* init_client returns Err; mine says whether it has logged in before.
InitFails(e, mine) ==
    /\ error' = e /\ Occurs(e)
    /\ pc' = "logout"
    /\ logOuts' = AfterInit(user, mine)

\* plan_and_execute returns; None stands for Ok(()).
WorkEnds(e) ==
    /\ error' = e
    /\ IF e = None THEN UNCHANGED first ELSE Occurs(e)
    /\ pc' = "logout"
    /\ logOuts' = <<"old", "new">>

-----------------------------------------------------------------------------
(* init_client                                                             *)

InitLogging(ok) ==
    /\ pc = "logging"
    /\ IF ok THEN pc' = "client" /\ UNCHANGED <<error, first>>
             ELSE pc' = "logout" /\ error' = "InitLogging"
                                 /\ Occurs("InitLogging")
    /\ UNCHANGED <<cli, user, session, logOuts, logOutError, exit, excused>>

AfterBuild == [token |-> "whoami", password |-> "login", prompt |-> "password"]

\* Building the client asks the homeserver for its versions.
BuildClient(ok) ==
    /\ pc = "client"
    /\ IF ok THEN /\ pc' = AfterBuild[cli.auth[user]]
                  /\ UNCHANGED <<logOuts, error, first>>
             ELSE InitFails("InitClient", FALSE)
    /\ UNCHANGED <<cli, user, session, logOutError, exit, excused>>

EnterPassword ==
    /\ pc = "password"
    /\ pc' = "login"
    /\ UNCHANGED <<cli, user, session, logOuts, error, logOutError, exit,
                   first, excused>>

\* The outcomes of a request: an answer that is lost leaves its effect.
Outcomes == {"done", "refused", "unreached", "unanswered"}
Applied(outcome) == outcome \in {"done", "unanswered"}

\* The homeserver refuses the requests made in a session that is not open.
IsOpen(s) == s \in {"given", "own"}

LogIn(outcome) ==
    /\ pc = "login"
    /\ session' = IF Applied(outcome)
                  THEN [session EXCEPT ![user] = "own"] ELSE session
    /\ IF outcome = "done"
       THEN pc' = "whoami" /\ UNCHANGED <<logOuts, error, first, excused>>
       ELSE /\ InitFails("LogIn", FALSE)
            /\ excused' = excused \cup {user}
    /\ UNCHANGED <<cli, user, logOutError, exit>>

\* ClientStateAccessor::new
Whoami(ok) ==
    /\ pc = "whoami"
    /\ ok => IsOpen(session[user])
    /\ IF ok THEN /\ pc' = IF user = "old" THEN "client" ELSE "plan"
                  /\ user' = "new"
                  /\ UNCHANGED <<logOuts, error, first>>
             ELSE /\ InitFails("InitClientState", OwnSession(cli, user))
                  /\ UNCHANGED user
    /\ UNCHANGED <<cli, session, logOutError, exit, excused>>

-----------------------------------------------------------------------------
(* plan_and_execute                                                        *)

MakePlan(ok) ==
    /\ pc = "plan"
    /\ IF ok /\ ~cli.dryRun
       THEN pc' = "confirm" /\ UNCHANGED <<logOuts, error, first>>
       ELSE WorkEnds(IF ok THEN None ELSE "MakePlan")
    /\ UNCHANGED <<cli, user, session, logOutError, exit, excused>>

Confirm(yes) ==
    /\ pc = "confirm"
    /\ IF yes THEN pc' = "execute" /\ UNCHANGED <<logOuts, error, first>>
              ELSE WorkEnds(None)
    /\ UNCHANGED <<cli, user, session, logOutError, exit, excused>>

ExecutePlan(ok) ==
    /\ pc = "execute"
    /\ WorkEnds(IF ok THEN None ELSE "ExecutePlan")
    /\ UNCHANGED <<cli, user, session, logOutError, exit, excused>>

-----------------------------------------------------------------------------
(* Logging out                                                             *)

AfterLogOut_Retry(outcome) ==                            \* mutated form
    IF outcome = "done" THEN Tail(logOuts) ELSE logOuts

\* A log-out that fails is not tried again.
AfterLogOut(outcome) == Tail(logOuts)

\* Sessions the program did not create are left alone.
KeepSession ==
    /\ pc = "logout" /\ logOuts # <<>> /\ ~OwnSession(cli, Head(logOuts))
    /\ logOuts' = Tail(logOuts)
    /\ UNCHANGED <<cli, pc, user, session, error, logOutError, exit, first,
                   excused>>

LogOut(outcome) ==
    /\ pc = "logout" /\ logOuts # <<>> /\ OwnSession(cli, Head(logOuts))
    /\ Applied(outcome) => IsOpen(session[Head(logOuts)])
    /\ session' = IF Applied(outcome)
                  THEN [session EXCEPT ![Head(logOuts)] = "closed"]
                  ELSE session
    /\ logOuts' = AfterLogOut(outcome)
    /\ IF outcome = "done"
       THEN UNCHANGED <<logOutError, first, excused>>
       ELSE /\ logOutError' = TRUE
            /\ Occurs("LogOut")
            /\ excused' = excused \cup {Head(logOuts)}
    /\ UNCHANGED <<cli, pc, user, error, exit>>

Reported_LogOut(e, failed) == IF failed THEN "LogOut" ELSE e  \* mutated form

\* An error of logging out is returned only if there is no other.
Reported(e, failed) == IF failed /\ e = None THEN "LogOut" ELSE e

Return ==
    /\ pc = "logout" /\ logOuts = <<>>
    /\ pc' = "ended"
    /\ error' = Reported(error, logOutError)
    /\ exit' = IF error' = None THEN "success" ELSE "failure"
    /\ UNCHANGED <<cli, user, session, logOuts, logOutError, first, excused>>

-----------------------------------------------------------------------------
\* The process is killed, or a prompt or a request of it panics.
Die ==
    /\ pc # "ended"
    /\ pc' = "ended" /\ exit' = "died"
    /\ UNCHANGED <<cli, user, session, logOuts, error, logOutError, first,
                   excused>>

\* What the program does without the user, execution excepted.
Proceed ==
    \/ \E ok \in BOOLEAN :
          InitLogging(ok) \/ BuildClient(ok) \/ Whoami(ok) \/ MakePlan(ok)
    \/ \E outcome \in Outcomes : LogIn(outcome) \/ LogOut(outcome)
    \/ KeepSession \/ Return

Next ==
    \/ Proceed
    \/ EnterPassword
    \/ \E answer \in BOOLEAN : Confirm(answer) \/ ExecutePlan(answer)
    \/ Die

\* Every request is answered or fails.  Nobody has to answer a prompt, and an
\* execution may wait for ever for an invite.
Spec == Init /\ [][Next]_vars /\ WF_vars(Proceed)

-----------------------------------------------------------------------------
\* Sessions the caller gave a token of are never logged out: the flag says
\* "whether or not we created a new session" (main.rs:329).
GivenSessionsKept ==
    [][\A u \in Users : session[u] = "given" => session'[u] = "given"]_vars

\* When the process ends other than by dying, every session the program
\* created is closed, except where the request that opened or closed it
\* failed.
NoSessionLeaks ==
    pc = "ended" /\ exit # "died" =>
       \A u \in Users : session[u] = "own" => u \in excused

\* Nothing is asked of the homeserver in a session that is not open: not yet,
\* or not any more.
OpenSessionsUsed ==
    /\ pc = "whoami" => IsOpen(session[user])
    /\ pc \in Working => \A u \in Users : IsOpen(session[u])
    /\ pc = "logout" /\ logOuts # <<>> => IsOpen(session[Head(logOuts)])

\* The error returned is the first that occurred; a failing log-out changes
\* the exit status and hides no other error (main.rs:117, 466).
FirstErrorReported ==
    pc = "ended" /\ exit # "died" =>
       error = first /\ (exit = "success" <=> first = None)

\* The program ends, unless its user does not answer or the execution hangs.
EndsOrWaits == <>[](pc \in {"ended", "execute"} \cup Prompts)

(***************************************************************************)
(* Why these hold, as an inductive invariant: a session is given exactly   *)
(* if the user has a token; it is open from its log-in to its log-out; a   *)
(* session of the program's own that is open while logging out is in the   *)
(* list, or its request failed; and the error is the first, unless it is   *)
(* still to become one.                                                    *)
(***************************************************************************)
Listed(l, u) == \E i \in DOMAIN l : l[i] = u

TokensGiven ==
    \A u \in Users : session[u] = "given" <=> ~OwnSession(cli, u)

Initialising == {"client", "password", "login", "whoami"}

OpenedInOrder ==
    /\ pc \in Initialising /\ user = "old" => session["new"] # "own"
    /\ pc \in Initialising /\ user = "new" => IsOpen(session["old"])
    /\ pc \in Initialising \ {"whoami"} => session[user] # "own"
    /\ pc \in {"password", "login"} => OwnSession(cli, user)
    /\ pc = "logging" => /\ user = "old" /\ logOuts = <<>>
                         /\ \A u \in Users : session[u] # "own"
    /\ pc = "whoami" => IsOpen(session[user])
    /\ pc \in Working => \A u \in Users : IsOpen(session[u])

ClosedInOrder ==
    pc = "logout" => \A u \in Users :
       /\ Listed(logOuts, u) => IsOpen(session[u])
       /\ session[u] = "own" => Listed(logOuts, u) \/ u \in excused

ErrorsInOrder ==
    /\ pc \notin {"logout", "ended"} =>
          error = None /\ first = None /\ ~logOutError
    /\ pc = "logout" =>
          first = IF error = None /\ logOutError THEN "LogOut" ELSE error

SessionInv ==
    /\ TokensGiven /\ OpenedInOrder /\ ClosedInOrder /\ ErrorsInOrder
    /\ NoSessionLeaks /\ FirstErrorReported
=============================================================================
