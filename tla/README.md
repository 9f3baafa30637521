# A verification of matrix-user-swap

matrix-user-swap moves a Matrix user to another account: the new user joins the
rooms of the old one, gets its power levels, room tags, `m.direct` and
`m.ignored_user_list`, and (with `--leave`) the old user leaves the rooms that
were migrated completely. Nothing can be rolled back: after the old user has
left an invite-only room, what was not copied is lost. The question behind this
directory is therefore *what does the program guarantee when requests fail,
answers get lost, others change the rooms meanwhile, and it is killed and run
again?*

All line numbers are those of `src/*.rs` of the repository.

## 1. Inventory

| part | state it keeps | operations | talks to |
|---|---|---|---|
| Planner, `plan.rs`, `merge_json` of `utils.rs` | `MakePlanState`: joined rooms of both users, the `Plan` so far | `make_plan`, `plan_room`, `plan_power_level`, `plan_join`, `plan_*account_data*`, `plan_leaves`, `get_aliases` | `ReadState` of both users, one await at a time |
| Executor, `execute.rs` | `ExecuteContext`: error count, failed rooms, global errors | `migrate_room`, `set_power_level`, `migrate_global_account_data`, `leave_room` | the plan; `WriteState` and `get_power_levels` |
| State access, `state.rs` | user id, client, lazily created `SyncLoop` | the getters of `ReadState`, the requests of `WriteState`, `wait_for_invite` | `RateLimitedClient` |
| Sync loop, `sync.rs` | map room -> `Pending(Notify)` / `Invited`, the `since` token | spawned task `sync_loop`; `wait_for_invite` by any task | the homeserver; the map, under a mutex |
| Rate limiting, `rate_limit.rs` | endpoint -> `LimitState`, whose mutex guards `next_request` | `request_state`, `send_request` | the homeserver |
| Program, `main.rs` | sessions it logged in | `init_client`, `plan_and_execute`, `try_log_out`, `anonymize_plan`, printing | everything |

What is hard in each, and what makes it correct:

* **Planner and executor.** The plan is computed by some ten reads a room, each
  of which may fail, then a human reads it, then it is executed by requests each
  of which may be refused, may not arrive, or may take effect without an answer.
  The homeserver changes all along. Correct means: a room is left only when all
  there was to migrate has been migrated; success is reported only when
  everything was done; a second invocation completes the first and repeats
  nothing; the execution ends.
* **Sync loop.** Two tasks share a map; a wakeup could be lost between the look
  at the map and the wait, an invite could fall between two polls, the loop
  could die. Correct means: a task waiting for a standing invite gets it.
* **Rate limiting.** Tasks race to create an endpoint's state, and one of them
  sleeps and retries while it holds the mutex. Correct means: one request per
  endpoint at a time, none before the time the homeserver asked for, and every
  call returns.
* **Program.** Sessions are opened one after the other, and each step between
  can fail. Correct means: a session the program opened is closed on every path
  it returns by, one it was given by its token is not; the first error is the
  one reported; and `--anonymize` changes what is printed, not what is executed.
* **`merge_json`.** A loop that edits one map while it consumes another, with a
  flag for "something changed" and a list of conflicts. Correct means: the flag,
  the map and the list agree, for every pair of maps.

`PROJECT.json` lists all components, and every hazard at its line with the
properties that would show it going wrong.

## 2. Modules

| module | models |
|---|---|
| `Homeserver` | room state, account data, and when the homeserver accepts a request (external: the Matrix specification) |
| `Planner` | the decisions of `plan.rs` as operators of what was read and which reads failed |
| `Migration` | whole invocations: planning, confirmation, execution, the sync loop as seen from there, faults, kills, other users |
| `MigrationInvariants` | why the promises of `Migration` hold: the inductive invariants of its proofs, which TLC checks, too |
| `MCMigration` | instances of `Migration`: kinds of room and account |
| `Handover` | abstract: parts of rooms are handed over, never taken back, and a room is left when nothing of it is pending; implemented by `Migration` |
| `Anonymize`, `MCAnonymize` | the migration under `--anonymize` |
| `MergeLoop` | `merge_json` of `utils.rs`, iteration by iteration; computes `Planner`'s `MergeResult` and `MergeConflicts` |
| `InviteGate` | abstract: what `wait_for_invite` promises |
| `SyncLoop` | `sync.rs` in detail; implements `InviteGate` |
| `RateLimit` | `rate_limit.rs` |
| `Session` | `try_main`, `init_client`, `try_log_out` of `main.rs` |
| `PlannerProofs` | lemmas about the operators of `Planner` |
| `MigrationProofs`, `ExecutionProofs`, `HandoverProofs` | theorems about `Migration`: types and memberships; what the execution does with the plan; what has been handed over |
| `MergeLoopProofs`, `SyncLoopProofs`, `RateLimitProofs`, `SessionProofs` | theorems about the other components |

`Migration` extends `Planner`, which extends `Homeserver`. In `Migration` the
sync loop is reduced to what `InviteGate` promises (`seen` is its `open`), plus
the failure that ends it; `SyncLoop` shows that the code keeps that promise.
`RateLimit` is below every request: to `Migration` a limited request is a slow
one. `Session` is around it: to `Session`, making a plan and executing it are
one step each, that succeeds or fails, and an execution may take for ever.

### Migration, in terms of the code

`pc` is the point the program has reached. Code between two awaits is one
action; each request is one action with an outcome: `done`, `refused` (exactly
when the homeserver does not accept it), `unreached` or `unanswered` (faults,
the latter with the effect). `plan_room` with all its reads is one action, with
the set of its failed reads as input; so are the global account data and the
aliases. The reads of one room are thus taken at one moment. Nothing is lost by
that: whoever changes the room between two of its reads has changed it since the
invocation began, and all that is promised excepts such rooms (`touched`); that
others change it between planning and execution, or between the read and the
write of its power levels, is modelled.

| code | actions |
|---|---|
| `make_plan` 834-896 | `ReadOldRooms`, `ReadNewRooms`, `PlanNextRoom`, `PlanGlobalData`, `ReadAliases` |
| `plan_and_execute` 399-417 | `Cancel` (also `--dry-run`), `Confirm` |
| `migrate_room_inner` 171-231 | `NextRoom`, `Invite`, `StartSync`, `Await`, `Join`, `ReadPower`, `WritePower`, `SetTags` |
| `migrate_global_account_data` 258-282 | `SetDirect`, `SetIgnored` |
| `leave_room` 285-304 | `SkipLeave`, `LeaveRoom` |
| `execute` 105-162 | `RoomsDone`, `Finish` |
| `sync_loop` | `SyncSees`, `SyncFails` |
| the world | `Restart` (the end of the process or its death); `Meddle` (others change a room), `MeddleRoomData` and `MeddleIgnored` (other clients of the two users write account data) |

Abstractions: the vector of errors is the set of its kinds, since only its
emptiness is consulted; the error count is whether it is positive; a JSON map
with no entries and a missing event are the same (that the new user's event is
read only if the old user has one shows in which reads can have failed);
`m.direct` is a set of pairs; the power levels are three fields of the event,
one level for "may change the levels", and one field standing for all that
redaction drops. In a room without `m.room.power_levels` (`unset`) they are the
default ones, with level 100 for a creator before version 12: by the
homeserver's rule whom it knows as creator, by the program's (`UserLevelRead`)
whom the `m.room.create` it could read names. `ReadPower` reads the event again
at execution time, with the same two swallowed reads as the planner
(`LevelsRead`). The `expect` of `execute.rs:247` has no outcome in the model:
the conversion fails only if a level is set for a creator of version 12, and
such an event the homeserver does not accept. A room absent from `plan.rooms` is
one with the default plan. Join rules other than public are "invite", which is
how the code treats them (`plan.rs:543`). In `JoinAccepted` a user with an
invite may join, and anyone may join a public room, subject to the ACL.

History variables: `touched` (rooms others changed since the invocation began),
`settled` (the last invocation ended without any error, planned or met, and
nobody changed anything since) and `spent` (the faults, meddling and
invocations used up). Only bounds depend on `spent`.

### SyncLoop and RateLimit

In `SyncLoop` each critical section of the mutex is one action (it is never held
across an await), so is the handling of a response. The `since` token is the
number of the client's last membership change. The `Notified` future of a
waiter is its membership in `notified`: created not ready in `Register`, inside
the critical section, made ready by `notify_waiters`.

In `RateLimit` an instant is its distance from now, floored at 0 except for what
the code computes itself, so the clock needs no bound; `due` and `dated` are
history variables, the instant the last answer of an endpoint asked to wait for,
and the endpoints where it did so by a date. The homeserver's clock may be slow
by up to `MaxSkew`, so that a date can be past when it is read, which is the
other branch of `rate_limit.rs:109-114`. The two steps of `request_state`
(read lock, write lock) are two actions. `Panic` is the subtraction
`now - error.duration()` (`rate_limit.rs:113`) of a date further ahead than
`Reach`, which stands for how long the clock has been running: unwinding drops
the guard, and tokio's mutex is not poisoned.

### Session, Anonymize, MergeLoop, Handover

`Session` follows one run of the process from `init_logging` to the exit
status. `logOuts` is the list of users that `try_main` has still to log out on
the path it took; `session` is what the homeserver has. A request to log in or
out can take effect without an answer. `Die` is a kill, or a panic of a prompt.

`Anonymize` extends `Migration`: in place of `Confirm` it has
`ConfirmAnonymous`, which executes the renamed plan, and remembers the true plan
in `made`. The anonymous ids are rooms nobody is in.

`MergeLoop` has one action per branch of the loop body. Keys are numbers for
their order in the BTreeMap; a value is what its JSON text deserializes to.

`Handover` says of every room what parts are `pending`: membership, power,
history, tags, direct-message mark, ignored users. `Migration` implements it
under the mapping `Pending`, computed from the homeserver's state alone, with
the contested rooms being those others changed since the invocation began. It
holds as long as the planner can read the create events and versions of the
rooms in which creators have power as such, those of version 12 and those
without `m.room.power_levels`, and the old user, where it made one of these, is
named as its creator (finding 1).

## 3. Runs

`tlc -config <cfg> <module>`. All bounds are CONSTANTs in the cfg.

| run | module, cfg | shows |
|---|---|---|
| rerun | MCMigration, MCRerun | `TypeOK`, `SuccessMeansApplied`, `RerunIsNoop`, `NoRedundantInvite` |
| leave | MCMigration, MCLeave | `HandoverInv`, `LeaveKeepsMembership`, `LeaveKeepsPower`, `LeaveKeepsData`, and the refinement `HandoverSpec` |
| progress | MCMigration, MCProgress | `ExecutionInv`, `ExecutionEnds`, `KeepsNewData`, `PromotesOnly`, `KeepsOtherLevels` |
| sync_loop | SyncLoop, MCSyncLoop | `TypeOK`, `NoLostWakeup`, `NoInviteSkipped`, `InviteReachesWaiter`, `GateSpec` |
| rate_limit | RateLimit, MCRateLimit | `TypeOK`, `OneAtATime`, `RespectsDue`, `CallReturns` |
| session | Session, MCSession | `TypeOK`, `NoSessionLeaks`, `OpenSessionsUsed`, `FirstErrorReported`, `GivenSessionsKept`, `EndsOrWaits` |
| merge_loop | MergeLoop, MCMergeLoop | `TypeOK`, `MergesAsPlanned`, `ErrorsInOrder` |
| creators, redacted, ignored | MCMigration | violated: see the findings |
| anonymize | MCAnonymize | violated |
| retry_date | RateLimit, MCRetryDate | violated |

Bounds, and why they are enough:

* Two rooms: rooms interact only through the failed rooms, the global errors and
  the order of the loop; two make "one fails, the other does not" and "one is
  still to come" possible. One contact, one tag key, two tag values: absent,
  equal, different. Levels 0, 1, 2 are default, admin and `Int::MAX`.
* *rerun* has all thirteen kinds of room (public, invite-only, joined, weaker,
  invited, no right to invite, no right to promote, creator, both creators, no
  levels set, banned, ACL-banned, hidden history) in every pair, three states of
  the new account, two invocations and one fault; nobody meddles, since meddling
  voids the promises of a rerun anyway. Two invocations are what `main.rs:85-88`
  recommends.
* *leave* has two kinds of room, in one of which the new user is promoted after
  joining it, in the other after being invited to it and where no levels are set
  (`CreatorLevel` is 1); a room to promote in alone is what a first invocation
  leaves when its promotion fails. It has one fault, one change by others, two
  invocations, and reads that may fail for a room's join, power, tags and for
  the global data, except those of the create event (that is finding 1 below).
* *progress* has rooms that need an invite, a promotion, a promotion by a
  creator, or the first levels to be set, one fault, and one change of a room or
  of account data by others. In `DefaultedRoom` a failed read of the room
  version and one change by others suffice for a case in which the program does
  lower a level: the planned level is stale, and the old user outranks what the
  new user got meanwhile.
* Deadlock is not checked for `Migration` and `SyncLoop`, because the program
  ends, and hangs when its sync loop is dead; that it hangs for no other reason
  is `ExecutionEnds` and `InviteReachesWaiter`.
* *sync_loop*: two waiters may wait for one room or for two; three changes allow
  an invite, its end, and another invite.
* *rate_limit*: two tasks race for one endpoint or use two; limits last 1 to 3,
  default periods are 1 and 2, so that a default is too short, exact or too
  long; two limits allow a second one while the first is being waited for;
  `Reach` is 1, so that some dates are too far ahead and some are not; `MaxSkew`
  is 2, so that some dates are past and some are not (0 in *retry_date*, where
  the date is right and the request early all the same).
* *session* has no bound: all combinations of credentials, all outcomes.
* *merge_loop*: all pairs of maps over three keys, so that conflicts can precede
  and follow copies and each other; two values, equal or different.

All the promises about leaving are about rooms that nobody else has changed
since the invocation began: the executor does not look again before it leaves
(`execute.rs:300`), so in a touched room it can be wrong. The hazards of a stale
plan (`execute.rs:113`, `211`, `245`, `269`) are therefore covered only in part:
that a change in one place does no harm elsewhere is checked, that it does none
where it was made is not, since the program does not promise it; only
`PromotesOnly` says something of touched rooms.

### Fairness

* `Migration`: weak fairness of the planner, the executor and the sync loop: one
  tokio runtime runs both tasks while the process lives. For a step that makes a
  request this assumes that the request returns or fails: the client sets no
  timeout for a whole request, so a homeserver that accepts one and never
  answers holds the execution up for ever, which is outside the model. None for
  `Start`, `Confirm`, `Restart` or the faults. `ExecutionEnds` leaves out, as
  `WaitsInVain`, a wait for an invite that others have changed or that nobody
  polls for any more.
* `SyncLoop`: weak fairness of each waiter and of the loop (every poll is
  answered within its 30 seconds, or fails, which no fairness forces).
* `RateLimit`: time passes, tasks run, and strong fairness of `Lock`: tokio's
  mutex is a FIFO queue. The homeserver limits finitely often
  (`MaxLimited`): one that limits for ever is obeyed for ever.
* `Session`: weak fairness of what the program does by itself. None for the
  prompts, which nobody has to answer, nor for the execution, which may hang;
  `EndsOrWaits` names just these as the places where the program may stay.

### Findings

Each is a run that TLC must find violated.

1. *creators*: `get_room_creators` does not look at the sender of
   `m.room.create`, which is the creator in version 12 (`state.rs:145`); and
   `get_power_levels` swallows errors of the create event and of the room
   version (`state.rs:184`, `187`). Either way a creator looks powerless, and
   its room is left without its power having been copied or an error recorded.
   The same goes for a room without `m.room.power_levels`, where a creator that
   is not named (from version 11 on) or not read looks like level 0 instead of
   100. The run has a version 12 room of each kind; with `CreatorRoom` alone in
   `Creators` it shows the second.
2. *redacted*: `set_power_level` writes back the redacted content
   (`execute.rs:246`): `notifications` and the like are reset. Nothing else
   is, in a room with levels set that others leave alone: `KeepsOtherLevels`,
   proved. (Where none were set, the first ones are written, and a creator that
   could not be read gets none.)
3. *ignored*: `merge_json` is applied one level too high to
   `m.ignored_user_list` (`plan.rs:787`): two lists that differ are a conflict,
   whatever is in them, and stop every room from being left. The fixtures of the
   snapshot tests have the users without the `ignored_users` key around them, so
   the tests do not meet it.
4. *retry_date*: the branches for past and future dates are swapped
   (`rate_limit.rs:109-114`).
5. *anonymize*: `anonymize_plan` renames the rooms of the plan that is then
   executed (`main.rs:393`): requests go to a room that does not exist, the
   rooms of one server collapse into one, and the exit status can still be 0.

Two limits that the code's own TODOs state are part of the model and have no
run: rooms whose join failed are listed in the new user's `m.direct` all the
same (`execute.rs:267`), and after a failed sync request the task that waits for
an invite waits for ever (`sync.rs:102`; the exception in `ExecutionEnds`).

## 4. Proofs

Checked by `tlapm` (SMT, Zenon, LS4), for all values of the constants that
satisfy the named assumptions (`RoomsAssumption`, `LevelsAssumption`,
`ProfilesAssumption`, ...: finite rooms ordered by `<=`, levels up to `IntMax`,
`None` not a value, the new user none of the contacts, initial states
well-typed, bounds natural numbers). TLC evaluates all of them in the runs.

* `MigrationProofs!TypeCorrect`: `Spec => []TypeOK`.
* `MigrationProofs!LeavingIsSafe`: `Spec => LeaveKeepsMembership`. The property
  speaks of a leave alone, which is not enough to go through an execution: the
  reason lies in the planner, several awaits earlier. `MembershipInv` carries
  it: rooms known as joined are (`KnownJoined`); a room is marked for leaving
  only if it was joined or is planned to be (`PlannedWillJoin`,
  `MarkedWillJoin`); and at every moment of the execution a planned join has
  happened, or is still pending, or its room is among the failed ones
  (`DoneJoined`). All but for touched rooms. `OnlyMarkedLeft` ties the leave
  loop to the marks. The step case is one lemma each for planning, execution and
  environment; from the planner it needs only `PlannerProofs!PlanRoomJoins` (no
  join and no error means already joined) and `PlanLeavesMarks`.
* `ExecutionProofs`, what the execution does with the plan, from `ExecutionInv`
  of `MigrationInvariants`. Its first half, `PlanInv`, says that the plan takes
  nothing from the new user: in an untouched room no planned level is below the
  new user's, planned tags, direct chats and ignored users contain what is
  there, the levels about to be written back are those of the room, and a room
  that waits to be invited to has no invite yet. The planner establishes it
  (lemmas of `PlannerProofs` about `merge_json` and the planned level), others
  can only break it in rooms they touch, and the requests keep it. From it
  follow
  * `InvitesOnce`: `Spec => []NoRedundantInvite`;
  * `NewDataIsKept`: `Spec => KeepsNewData`;
  * `PromotionIsSafe`: `Spec => PromotesOnly`. In a touched room the
    homeserver's rule does the rest: a sender lowers only who is below it;
  * `OtherLevelsAreKept`: `Spec => KeepsOtherLevels`.

  The second half, `DoneInv`, generalises `DoneJoined` to every part of the
  plan: it took effect, or its turn has not come (`JoinPending`, `PowerPending`,
  `TagsPending`), or its failure is in `ctx`. `SuccessIsApplied` (`Spec =>
  []SuccessMeansApplied`) is what is left of it when `ctx` is clean. The step
  case rests on two summaries of a step of the execution, `RoomEffect` and
  `AccountEffect`, so that it need not be repeated for each request.
* `HandoverProofs`, what has been handed over, from `HandoverInv`. `KnownInv`:
  what the planner knew of the rooms is still so in the untouched ones, and only
  rooms without planning errors are marked for leaving. `FitInv`: a room whose
  plan has no error gets, by what is there and what is planned, all the old user
  has of it (`Fits`); what is planned may move from the plan to the homeserver,
  never away (`Target`). `SettledInv`: after a migration without errors, until
  something changes, there is nothing to plan (`Migrated`, `NoopPlan`). Combined
  with `DoneInv` at the moment a room is left:
  * `LeavingKeepsData`: `Spec => LeaveKeepsData`;
  * `LeavingKeepsPower`: `Spec => LeaveKeepsPower`;
  * `RerunPlansNothing`: `Spec => []RerunIsNoop`;
  * `MigrationHandsOver`: `Spec => HandoverSpec`, the refinement. `Start` maps
    to `Begin`, a leave of an untouched room to `Leave` (`LeaveRefines`: nothing
    is `Pending` then), every other request to `HandOver` (`ExecutionRefines`,
    `PendingShrinks`), what others do to `Contest`, and the rest to stutters.

  Three of them are conditional, where the program is right only conditionally.
  Power, rerun and refinement assume `CreatorsOfAllAreRead`: the reads of
  `m.room.create` and of the room version do not fail, or in no room do creators
  have power as such (`CreatorsCount`: version 12, or no levels set, where a
  creator's level is the default of `m.room.power_levels`). Without it the
  planner takes wrong levels for true: a room is left with its power, or the
  next run finds a promotion that the last one did not see. Power and refinement
  assume `NoOldSenders`: if the old user sent the `m.room.create` of such a
  room, it is named there as creator. Nothing changes who made a room, and
  levels once set stay so, so that both are invariants of the rooms (`ReadInv`,
  `SenderInv`). The run *creators* violates `LeaveKeepsPower` in each of the two
  ways (finding 1); *leave* and *rerun* satisfy both. `RerunPlansNothing` also
  assumes that there is a room: `touched` is a set of rooms, and with none it
  cannot record that others changed whom a user ignores. Inside `Fits` the
  assumption is a premise of the part about power alone (`PowerFits`), so that
  the results about data need none. There the premise is `LevelsAreKnown`,
  slightly more: writing the first levels of a room ends its creators' power as
  such, so the assumption becomes true of it in the middle of an execution, when
  only a planned promotion still vouches for what was read. `LevelsMakeSense`
  (part of `PlanInv`) says that unset levels are the default ones, without which
  a write could change more than the new user's.
* `SyncLoopProofs`: types; `NoWakeupIsLost` and `NoInviteIsSkipped`, from
  `SyncInv`, which adds that a waiter's room has an entry, that tokens never run
  ahead of the homeserver, and that a response on its way contains everything
  its token passes by; `ImplementsGates`: initial states and steps map to those
  of `InviteGate`, with `open` = the rooms marked Invited and `waits` =
  `target`.
* `RateLimitProofs`: types; `MutualExclusion`, from the invariant that all tasks
  with a handle to an endpoint have the one in the map (`OneState`) and that who
  sleeps or sends holds its mutex (`Holds`); `RequestsAreNotEarly`, from
  `NotEarly`: an instant that is due, and was not told as a date (finding 4), is
  covered by `next_request` of the endpoint's state.
* `SessionProofs`: types; `SessionsAreClosed`, `SessionsAreOpen`,
  `FirstErrorReturned` and `TokensAreKept`, from `SessionInv`: a session is open
  from its log-in to its log-out (`OpenedInOrder`), and while logging out, one
  of the program's own that is still open is in the list of those to close, or
  its request failed (`ClosedInOrder`).
* `MergeLoopProofs`: `MergeIsCorrect` and `ErrorsAreOrdered` for all maps over
  any finite set of keys, from the loop invariant `LoopInv`: keys already taken
  are merged, the others are as they were given; the flag says whether the new
  map has changed; the errors are the conflicts among the keys taken, each below
  all that remain. This is the loop of `utils.rs` proved against the function
  that `Planner` uses for it.

Only model-checked: everything with fairness (`ExecutionEnds`,
`InviteReachesWaiter`, `CallReturns`, `EndsOrWaits`, and the fair part of
`GateSpec`), because liveness is out of the proof system's reach. Every
invariant and every action property of a passing run is proved. The inductive
invariants were checked by TLC before they were proved, and two of the runs
still check them.

## 5. Not modelled

* HTTP, JSON and schema errors: a read yields a value, nothing, or fails. A
  schema error is a read that fails every time.
* What a panic does beyond its own task: in `RateLimit` it ends the task, in
  `Session` the process; the code has no clean-up for either.
* The same account given as old and as new: the program does not compare them
  (`plan.rs:834`); the model takes them to be different.
* The entries of `m.direct` as lists: the loop of `plan.rs:711` appends to lists
  and makes empty ones, which nothing else in the program can tell from a set.
* `plan_room` reads a room's state in several requests; see section 2 for why
  one action stands for them.
* Printing, progress, logging, the mock homeserver of the tests, packaging.

## 6. Plan

Done in this order, the most important behaviour first: `Homeserver`, `Planner`,
`Migration` with its runs; `InviteGate`, `SyncLoop`; `RateLimit`; `Session`;
other clients' account data; `Handover`; `Anonymize`; `MergeLoop`; the proofs
listed above, those about `Migration` last. What could come next:

1. The safety part of `ExecutionEnds`: an execution that cannot take a step
   waits for an invite (no step but `Await` is ever disabled), as an invariant
   without ENABLED, each guard being spelled out.
2. The reads of one room as separate actions, to replace the argument of
   section 2 for why one action stands for them.
