# Support-center backend: TLA+ models, TLC runs and TLAPS proofs

The repository is a customer-support platform: a Rust backend (`src/backend/`, axum
and sqlx over PostgreSQL) that exchanges messages with LINE, Facebook and Shopee and
with its own web chat, and a TypeScript frontend (`src/frontend/`). Several backend
processes may share one database; a process keeps locks, caches, markers, queues and
the realtime registry in its own memory.

Nearly all of the hard behaviour has one cause. A handler is a future with an await at
every statement and every gateway call. Between two awaits anything may happen: another
handler of the process, another process, a restart. A future may be dropped at any of
its awaits, because a client hung up, and then nothing after that await happens. Few
handlers use a transaction over what they read, and most of them do not look at how many
rows an UPDATE changed. The modules here take each statement and each gateway call as a
step of its own and let everything else happen in between.

- [Modules](#modules): what there is
- [Inventory](#inventory): the parts of the system, what is hard about each, what makes it correct
- [The modules and the code](#the-modules-and-the-code): how state and actions correspond
- [The runs](#the-runs): instances, bounds, what each shows, fairness
- [The proofs](#the-proofs): what is proved, from what, along which argument
- [Where the documents and the code disagree](#where-the-documents-and-the-code-disagree)
- [What is not modelled](#what-is-not-modelled) and the [plan](#plan)

## Modules

| Part of the system | Modules |
| --- | --- |
| Delayed sends | `SendLifecycle` (abstract), `DelayedMessages`, `DelayedMessagesProofs` |
| Inbound webhooks, automatic replies | `WebhookIngest`, `WebhookIngestProofs` |
| Routing and undo | `Routing`, `ActivityRestore` (extends `Routing`), `ActivityRestoreProofs` (about both) |
| Messages of one process | `MessageDelivery`, `JobQueue`, `RealtimeHub`; `MCMessages`, `MessagesProofs` |
| Between processes, and to customers | `EventFanOut`, `CustomerChannel`; `MCFanOut`, `FanOutProofs` |
| Desk | `Reminders`, `Reports`, `ReportSchedules`, `Installer`; `MCDesk`, `DeskProofs` |
| Accounts | `Credentials`, `Memberships`, `AgentProfiles`, `Presence`, `Alerts`, `RateLimit`, `UploadLimit`, `Retain`; `MCAccounts`, `AccountsProofs` |
| Workbench | `Uploads`, `ConversationSessions`, `Labels`, `Connections`, `AutoReplyRules`, `BusinessHours`, `Collaboration`, `Notifications`; `MCWorkbench`, `WorkbenchProofs` |

An `MC...` module gives a specification its constants for TLC. The last five put the
modules of a row together. Those modules share no state: the code they model meets in no
table, lock or memory that both write. So the composition is a sum, not a product: a variable
`part` says which of them a behaviour is about, the others stand still, and the run's
state space is the sum of theirs. Where components do meet, one module has both:
`ActivityRestore` extends `Routing` and interleaves restores with routing requests;
`WebhookIngest` has the LIFF page, `CustomerChannel` the latest-message cache, `RealtimeHub`
the persistence of user states, `Memberships` the cache of the authentication middleware.

`PROJECT.json` maps every definition to the lines it stands for, and lists components,
runs, mutants, findings, hazards and theorems.

## Inventory

The state each component keeps, what is hard about it, and what makes it correct. Paths are
under `src/backend/src/` unless they say otherwise.

| Component, code | State | What is hard | Correct means |
| --- | --- | --- | --- |
| Delayed sends: `domain/messaging/service.rs`, `domain/delayed_messages/`, the loop of `main.rs` | rows of `scheduled_messages`; a recall marker in the memory of one process | the dispatcher reads a pending row, calls out, and updates by id: there is no claim; cancels, reschedules, other processes and restarts fall in between | copies are bounded by what went wrong, outcomes are true, settled stays settled, pending is settled in the end |
| Webhooks: `domain/webhooks/`, `domain/auto_reply/engine.rs`, `domain/liff/` | customers, conversations, messages, reply ledger, seen events, an in-memory lock per customer | redelivery while the first call runs, hang-ups, a gateway that served what it did not confirm | stored once and before it is acknowledged, one call at a time answers, follow-up work once |
| Routing: `domain/conversations/` | team and status of a conversation; the audit log | read in one statement, write by id in another; seven operations, two columns | an assigned conversation has a team; none is released off the record |
| Undo: `domain/activity/` | audit entries with their restore state | plan, claim, transaction and release are separate; a commit may be reported as failed | an entry is undone once, and an unforced undo does undo |
| Messages: `domain/conversations/channels.rs`, `handlers.rs`, `domain/messaging/handlers.rs` | `messages`, `attachments`, recall log, a spawned task per delivery | delivery, receipt, edit and recall write one row by id | a recall sticks, outcomes are true and not taken back, files stay in their conversation |
| Job queue: `domain/queue/` | a channel, sleeping retries, dead letters and statistics, in memory | a retry starts again from the first chunk; a restart loses what is in memory | a job is in one place, tried at most so often, "delivered" means every chunk |
| Realtime hub: `realtime/hub*`, `socket.rs`, `rooms.rs`, `user_sessions.rs` | connections, rooms, history, presence, user states and their rows | registration before the upgrade, hydration against the write after the last disconnect | who is connected has a state and is seen; no message of a room is missed |
| Fan-out: `realtime/broadcaster.rs` | two queues and draining flags per process, rows and acknowledgements in the database | a flag left set, a restart between delivery and acknowledgement, a row that cannot be delivered | every row reaches the others, shown once, never to its own process |
| Web chat: `realtime/customer.rs`, `latest.rs` | sockets of a conversation, the latest-message snapshot | stamps are taken before the transaction; a snapshot is derived and stored in two steps | presence told is true; no frame takes a viewer back |
| Reminders: `domain/notifications/reminders.rs` | rows; two passes with the rows they read | notify, mark and repeat are three statements against what was read | told once per arming, marked only when told, the series goes on |
| Reports: `domain/reports/` | rows, stored files, run rows, a retry ceiling | file and row are written apart; failures are logged and passed over | completed has its file; a schedule's books agree, but for one entry per failing statement |
| Installer: `bin/installer.rs` | runs behind a mutex, a task per run, resources at the provider | a run is cancelled between the steps of its task; a call that failed may have been served | what a run lists is there, and what else is there is of its next step; no further step after a cancellation |
| Credentials: `domain/auth/`, `middleware/auth.rs` | token rows, revocations, session rows, the account's mark | consumption without a condition; sign-out in several statements, with the tokens it is given; changes that cross; two clocks | given up is given up |
| Memberships: `domain/teams/`, `domain/agents/` | memberships, primary flag, cached teams, undo tokens | sequences of statements; invalidation against a read on its way | one primary team, a current cache, undo once |
| Agents: `domain/agents/` | profiles, skills, presence row and history | one statement per field; expiry noticed only by readers | an answer reports what was written; history agrees with presence |
| Alerts: `domain/notifications/alerts.rs` | alert rows, an SMTP dialogue | the cap counts rows while others send; any reply may fail | recorded is what was sent, within the cap |
| Limiters: `middleware/rate_limit.rs`, `domain/files/limiter.rs` | instants of admitted requests; slots and budgets | boundaries of windows; a guard dropped with its request | never more than the limit from reading to admission in any window; slots come back |
| Files: `domain/files/` | a row and a stored object | either may fail, be deleted or overwritten between steps; a failed removal is swallowed | completed has its object; an object without a row has a failure or a crossing behind it |
| Sessions: `domain/sessions/` | segments of a conversation, tags | the latest is read, closed and replaced in three statements | one active segment, messages only in it |
| Labels: `domain/tags/`, `domain/customers/` | tags, a customer's labels, audit entries, events | read-committed DELETE and INSERT of overlapping requests; a commit that nobody is told of | labels, entries and events add up |
| Connections: `domain/channels/` | rows, counters; the platform's answer | a copy is read before the platform is asked and written after; a refused token is held against every connection of the platform | a disabled one stays off; verified was accepted |
| Rules and hours: `domain/auto_reply/` | rules in three tables, a cache; a week's windows | rows read statement by statement into a cache; windows past midnight | a cached rule is whole and current; open as scheduled |
| Collaboration: `realtime/collaboration.rs` | viewers, typing, presence | told after the mutex is released | the others know who is in the room |
| Notifications: `domain/notifications/` | inbox rows | a batch reads its recipients once | every recipient is accounted for |

## The modules and the code

Conventions. An action is one statement, one gateway call, or one hold of a mutex, with
everything the code does before the next await. A request in progress is a record whose
`at` (or `pc`) names the statement that comes next and whose other fields are the local
variables that matter later. A failing statement is one that did not take effect, unless
the module says otherwise. A restart empties what is in memory. History variables (named in
the module) record what a property needs and no guard reads. An operator commented MUTANT
is not part of the model.

**`DelayedMessages`.** `status`, `at`, `failedAt` are columns of `scheduled_messages`;
`marker[p][i]` is `RecallableMarkers` of process `p`; `disp[p]` the sequential loop of
`main.rs`; `req[r]` a handler. `ScheduleInsert`/`ScheduleReply` are `schedule_delayed`,
`StartCancel`/`StartRecall`/`CancelCheck`/`CancelUpdate` the two cancel routes,
`SelectDue`/`LoadRow`/`Send`/`Record` are `dispatch_due` and `process_delayed`. A gateway
call ends well, fails, or times out although it was served. `SendLifecycle` is what the
store really promises: a message is claimed only while pending, a claim is worth at most one
attempt, and only the holder of a claim overwrites a settled status.

**`WebhookIngest`.** `call[x]` is a webhook call: the event it works on and the statement it
has reached; `lock[p][c]` is `customer_lock`; `Dedupe` ... `Store` are `ingest_message`,
`Evaluate` ... `RecordAttempt` the automatic reply under its ledger, `Reserve` ...
`DefaultWelcome` the follow event. Which rule matches is a free choice.

**`Routing`, `ActivityRestore`.** `conv[c]` is the team and status of a conversation, `log`
the audit entries. `BeginRouting`/`CheckTeam`/`Apply` are `apply_routing_change`,
`BeginBulk`/`BulkChunk` are `bulk_assign` (no transaction, no entry), `BeginBackfill`,
`BeginScan` and `UpdateTeam` write the team alone. A restore is `BeginRestore`, `BuildPlan`,
`Claim`, `Commit` or `Rollback`, `Release`; it may vanish (`Drop`).

**`MessageDelivery`.** `row[m]`, `att[a]` are `messages` and `attachments`; `task[m]` the
spawned `deliver_pending`; `wire[m]` what the customer received; `clerk[r]` a request on
existing messages. `Send`/`Create`/`CreateScheduled` write rows, `SelectItems`, `SendBatch`,
`WriteOutcome` are the task, `Receipt` is `mark_delivered`, `BeginEdit` ... `Notice` are
`update_message`, `recall_message`, `bulk_delete` and `forward_message`.

**`JobQueue`.** `channel`, `batch`, `work`, `asleep`, `dead`, `stats` are the worker's memory.
`TakeBatch`, `StartOutbound`/`PushChunk`, `StartMedia`/`FetchMedia`/`InsertMedia`, `Settle`
and `FinishJob` are the one consumer; `Wake` is a retry's task. `MarkMessage` writes what a try
came to into its message, or does not: the worker logs a failed UPDATE and goes on. `unwritten`
counts those, so that `OutcomeOnRecord` can say what a row tells and when it may be silent.

**`RealtimeHub`.** `conn`, `mem`, `room`, `enabled` are `HubInner` under its lock, `saved` the
rows of `realtime_user_state`, `talk[c]` the frame a socket task is handling, `req[q]` an HTTP
request. `Register` precedes `Upgrade`; `SocketStep` is `run_socket`; `TakeSnapshot` and
`SaveSnapshot` are the two halves of persistence.

**`EventFanOut`.** `queue`, `drain` are `BroadcastQueue` of each process, `rows` and `acks` the
shared tables. `BeginDrain`, `Deliver`, `Retried`, `FinishDrain` are `process_queue`;
`BeginFlush`/`CancelFlush` the flush that a dropped request abandons; `BeginPass`, `Relay`,
`Ack` the polling of remote rows; `Expire` the clean-up.

**`CustomerChannel`.** `sock` is the registry of a conversation, `make[m]` a POST of a message
from its stamp to its fan-out, `latest`, `pending`, `refresher` the cache with its coalesced
refresh (`BeginRefresh`, `Derive`, `StoreSnapshot`, `TellLatest`).

**`Reminders`.** `rem[i]` is a row; `pass[p]` the rows the loop's or a manual pass read and
the one in hand; `Notify`, `MarkSent`, `SpawnNext` its three statements and `NotifyFails`,
`MarkFails`, `SpawnFails` their failures. **`Reports`**: `task[w]` is a `generate` request
from its admission to its last UPDATE, or a deletion. **`ReportSchedules`**: `rounds` is the
pass of `run_due`; `CloseRun` and `WriteSchedule` write a run row and a schedule, or do not, and
the pass goes on; `CountFailures` takes a count that fails for none. **`Installer`**:
`installTask[r]` is the spawned task at a provider call, a check, or the write of a step; `cloud`
is what the provider created, by a call that it answered or by one that failed.

**`Credentials`.** `pairs` are issued token pairs, `consumed`, `ended`, `revoked`, `sessions`
the columns and rows that give them up; `req[c]` a request between two statements, with the
tokens a sign-out was presented with, or the mark a change took; time runs in fractions of a
second because `iat` keeps seconds and `tokens_valid_after` milliseconds.
**`Memberships`**: `call[h]` is a handler with the list of statements it still has to make
(each `Statement` is one), `cache` the middleware's. **`AgentProfiles`**: `edit` holds the
accounts left of an update and the set of fields left for the first of them, which `NextField`
takes in the order of the code. **`Presence`**: `visit` is a request about
the presence row; `Upsert`, `RecordHistory`, `Trim` are `set_status`, `TellPresence` is the hub,
which may be off the air (`onAir`) or know no team of the operator. **`Alerts`**:
`alert[s]` walks through channels and, for mail, the SMTP dialogue. **`RateLimit`**:
`checking` are requests between their reading of the clock and the mutex, which they may pass in
another order; `hits` names the admissions that are kept, which have the order of their numbers.
**`UploadLimit`** reads the clock under the mutex: one step per request, admitted or refused, that
first forgets what has aged (`Retained`, which is `Vec::retain`); standard and admin uploads, with
a policy each, count against one record of the user.

**`Uploads`.** `row` and `object` are the two halves of a file, `job[k]` a request about one;
`StoreSwallows` is a read or a removal that the store fails and the request does not notice.
**`ConversationSessions`**: `sessAsk[a]` holds the session that was read; `DetectBoundary`,
`ClosePrior`, `CreateNext`, `Touch` are `get_or_create`. **`Labels`**: a transaction is `Commit`
after `LabelSnapshot`; `Doomed` is what its DELETE saw (read committed); `Stop` ends a request at any
await, also after its commit, and `untold` keeps the labels that nobody was told of then.
**`Connections`**: `ask[k].copy` is the row as read, `PlatformAnswers` falls between read and
write; `BumpSwallowed` is a message whose count failed (`lost`), `RecordTokenError` the UPDATE of
every enabled row, which any team's refused send may cause at any time.
**`AutoReplyRules`**: `editing` has the statements an edit still has to make, `loading` the
engine's read of a scope. **`BusinessHours`**: `WithinBusinessHours` is the decision,
`ReplaceSchedules`/`InsertRow` the replacement. **`Collaboration`**: `telling[t]` is what is
told after the mutex is released. **`Notifications`**: `batch[b]` has the recipients left.

## The runs

Nine runs must pass, three must find a stated violation. A name in the second column stands
for the bundle the configuration checks; its parts are named definitions of the module.
Deadlock is checked for delayed sends. It is switched off where the environment is bounded
and the system may come to rest: a platform stops posting, requests stop after a bound.

| Run | Instance and bounds | Distinct states |
| --- | --- | --- |
| `delayed_one` | 1 process, 1 request slot, a web-chat and a gateway message, an agent and an admin, clock to 2, 1 fault | 755,462 |
| `webhook_one` | 1 process, 2 calls, a body with a follow and a message, posted up to 4 times, LIFF page, 1 fault | 268,676 |
| `routing_all` | 2 conversations, 2 teams, 2 request slots, 3 requests, chunks of one; symmetry | 312,872 |
| `restore_conv` | 1 conversation, 1 label, 2 restores beside 1 routing or label request, 1 failing statement | 796,324 |
| `messages` | 2 messages, 1 attachment, a LINE and a Meta chat, 2 clerks, 3 requests; 2 jobs, 2 retries, 2 chunks, any outcome may go unwritten; 2 users, 2 connections, 1 room with a history of one, 3 hub requests | 567,826 |
| `fanout` | 2 processes, 2 events of which 1 is poison, a normal queue of 1, 1 retry, 1 fault; 2 viewers, 2 sockets, 2 messages, 1 upload, 1 drop | 311,370 |
| `desk` | a reminder and its next occurrence, 2 armings, 1 mishap; 2 reports, 2 writers, cap 1, 2 upsets; 2 schedules, ceiling 2, 2 days, 1 failing statement; 2 installations of 3 steps | 713,224 |
| `accounts` | 2 clients, 2 token pairs, 4 requests, 1 of which may end at a statement, a second of two instants; 2 teams, 2 handlers, 2 calls, 1 abort; 2 accounts and 3 addresses, batches of two that may repeat one; 2 visits; 2 senders, cap 1; 2 checks at once, a window of 2 instants with 2 hits; 2 upload policies, 2 sizes, 4 uploads; symmetry | 927,946 |
| `workbench` | 2 files, 4 requests; 2 sessions, 3 messages; 2 tags, 2 names; 2 connections, 2 secrets, 3 requests; 2 rules, 2 editors; a week of 3 days of 3 hours; 2 users in 2 tabs, cap 1; 2 recipients, 2 notifications; symmetry | 768,357 |

What they show:

- `delayed_one`: `Inv` (outcomes recorded are true, confirmed cancellations stand, copies in
  credit), `OneCopyPerFault`, `SendsOnTime`, `ImplementsLifecycle`, and under fairness
  `PendingIsSettled`.
- `webhook_one`: `Inv` (one conversation per process, one sender, work announced once),
  `QuietAfterSuccess`, and under fairness `PostedIsStored`.
- `routing_all`: `Inv` (assigned has a team, snapshots can be written back),
  `ReleasedOnTheRecord`.
- `restore_conv`: `UndoInv` (one restorer, restored once, final, conversations stay consistent
  while old snapshots are written back), `UnforcedRestoreUndoes`, and `ClaimResolves`.
- `messages`: `DeliveryInv`, `QueueInv`, `HubInv`; `DeliverySteps` (no step records what did not
  happen on the wire, takes an outcome back, or recalls too late); `MessagesSettle`: pending
  messages, accepted jobs and open sockets come to an end.
- `fanout`: `FanOutInv`, `ChannelInv`; `FanOutPromises`: every row reaches the other processes,
  queues drain and refreshes end; links stay; no frame takes a viewer back.
- `desk`: `RemInv`, `ReportsInv`, `InstInv`; `DeskConcludes`: what is due is served, what is
  being generated or provisioned ends, and an installation's outcome is final.
- `accounts`: `CredInv`, `MemberInv`, `AgentsInv`, `AlertInv`, `LimitsHold`; `MemberSteps`: what a
  membership request that nothing interferes with comes to.
- `workbench`: `UpInv`, `SessInv`, `LabelInv`, `ConnInv`, `AutoReplyInv`, `CollabInv`, `NotInv`;
  `WorkbenchSteps`: no message goes into a closed session, no fresh sign of presence lapses, the
  moment of first reading stands.

Why the bounds are enough: every property is about one message, one customer, one row or one
account and those who meet on it. Two actors of each kind are enough for a race; a third
request lets one of two meet a further change. Limits (a cap, a ceiling, a history, a queue)
are set to one or two so that they are reached and passed. A clock to 2 or 3 lets a due time
come before, at and after every other step. One fault is enough for each fault to hit every
step. What is proved holds for any of these bounds.

Symmetry is used only in runs without liveness (`routing_all`, `accounts`, `workbench`), over
values that no CHOOSE and no order tells apart. The initial states of a part that does not
run are cut to one in `MCAccounts` and `MCWorkbench`; a part that runs starts in any of its
own, but for two reductions stated there (addresses are interchangeable; a disabled
recipient is passed over as a purged one is).

Every property has a mutant in `PROJECT.json`: an operator next to the definition it
replaces that changes the code the way a plausible bug would (a dropped guard, a missing
reset, statements swapped), with which TLC refutes the property.

### Fairness

- `DelayedMessages!FairSpec`: the clock goes on, and each dispatcher takes a step it can
  take. The loop in `main.rs` never returns, each of its awaits ends (10 s time limit of the
  HTTP client, `conversations/channels.rs:76`), and a restarted process enters the loop
  again. Requests, faults and archiving get no fairness.
- `WebhookIngest!FairSpec`: the platform posts what was not answered with 200, a call that
  is not dropped goes on, a spawned task is run. Hang-ups and crashes may drop any call.
- `ActivityRestore!FairUndoSpec`: a restore that is not dropped runs to its end.
- `MCMessages`: a spawned delivery task goes on (`deliver_pending` has no way out but its end);
  the queue's one consumer and the sleepers of its retries go on; the task that drives a socket
  goes on, and it leaves its loop when the credential expires.
- `MCFanOut`: the drain loop and the relay pass of each process go on (both are loops without an
  exit), a request in the fan-out of a message and a refresh task go on.
- `MCDesk`: the tick of `main.rs` and its pass go on; a generating request and an installation's
  task go on. A request may be dropped, which is an action of its own.

## The proofs

TLC checks the instances of the table above; the theorems hold for every value of the
constants that satisfies the assumptions of the modules: any number of instances, requests,
messages, teams, reports, steps, keys and faults. The assumptions are the named ones of the
component modules (`DelayedAssumption`, `WebhookAssumption`, `RoutingAssumption`,
`RestoreAssumption`, and those of each module of a composition). They say that the bounds are
numbers, that the null value is none of the values it stands beside, and which constants are
configured to be positive in the code.

Each proof follows one plan. The bundle a run checks as an invariant (`Inv`, `UndoInv`,
`RemInv`, ...) is itself inductive: beside the promises it holds the conjuncts that make them
so. TLC has found every conjunct true on the run's instance, and the proof shows
`Init => Inv` and `Inv /\ [Next]_vars => Inv'`, with one step per action and below it one per
conjunct the action can disturb. Action properties follow from the same invariant. Where an
actor (a request, a pass, a task) keeps what it has read across an await, the invariant says of
each actor what its reading is still worth in each of its states; one lemma per module says
that the others' words stand when their own part of the state does ("frame" lemmas), so that
the step of an actor has to be looked at for that actor only.

**DelayedMessagesProofs.** `Inv` = `TypeOK`, `ReadRowsExist`, `CopyCredit`,
`OkWasDelivered`, `SentWasDelivered`, `CancelAckStands`, `FixedTimesStand`. `OneCopyPerFault` is not inductive:
it does not say why a pending row has not been delivered one time too often already.
`CopyCredit` does: the one copy without a fault is still to come while the row is pending or
the instance is about to send, and spent otherwise; each fault grants one more.
`SentWasDelivered` needs `OkWasDelivered`, which says what a result "ok" is worth between the
send and its record, across a purge. `CancelAckStands` needs `ReadRowsExist`: rows never come
back to "absent". `SendsOnTime` needs `FixedTimesStand`: between the read of a row and its send
the row's time might be moved, but only a gateway's message is ever being moved. Theorems:
`TypeCorrect`, `InvHolds`, `OneCopyPerFaultHolds`, `SentWasDeliveredHolds`, `CancelAckStandsHolds`,
`FinishedStaysFinishedHolds`, `SendsOnTimeHolds`, and `ImplementsLifecycleHolds`: initial states map to initial states and every step to a step
of `SendLifecycle` or a stutter.

**WebhookIngestProofs.** `Inv` adds to the properties `CallsOnEvents` (a call is in a state
of the kind of event it works on), `LocksAreHeld` (who holds which lock in which states),
`OpensTheFirst`, `ConfirmedIsOver`, `AnnouncedFromOnePlace` (the follow-up work of a stored
message is ahead in one call, spawned in one process, or done) and `StoredSoFar` (what a
call that reports no failure has behind it). Theorems: `InvHolds`, `TypeOKHolds`,
`OneConversationPerInstanceHolds`, `SingleSenderHolds`, `QuietAfterSuccessHolds`,
`AnnouncedOnceHolds`, `AckedIsStoredHolds`.

**ActivityRestoreProofs.** Routing first: `Inv` adds `RequestsAreConsistent`: what a request
has read was a consistent pair, and an unassign, and only it, has no team to give. Theorems:
`AssignedHasTeamHolds`, `SnapshotsAreConsistentHolds`, `ReleasedOnTheRecordHolds`.
`UndoInv` builds on it: restores write old snapshots back, so
`AssignedHasTeam` survives them only because snapshots are consistent. It adds
`EntriesAreTyped`, `JobsHoldTheirClaims` (who has a claim works on an entry in progress, who
gives it up on one that at most its own commit has restored), `SingleRestorer` and
`RestoredOnce`. For `UnforcedRestoreUndoes` the proofs also need that the plan of an unforced
restore met no drift when it was made. Theorems: `UndoInvHolds`, `SingleRestorerHolds`,
`RestoredOnceHolds`, `RestoreKeepsAssignedHasTeam`, `RestoredIsFinalHolds`,
`UnforcedRestoreUndoesHolds`.

**DeskProofs.** Four state machines that share nothing, and then the composition.
- Reminders: `OncePerArming` says who may still tell of a reminder: nobody, or one pass that
  has read it, or the next pass that reads it; `NotificationsArePaid` counts notifications
  against armings and mishaps. Both rest on `PassIsStaged` (what a pass may have in hand in each
  of its states) and on `IdsAreTakenInOrder`, by which the occurrence a repeat inserts is a new
  row. `RemindersAreTold`.
- Reports: `SlotsAreWorked` gives each row being generated a writer or a restart that took it,
  `TaskIsOnReport` says which row a writer works on. `ReportsAreBackedByFiles`.
- Schedules: a statement that fails is passed over, so `BooksAgree` bounds what run rows, reports
  and schedules lack of each other by the statements that failed, and by what the pass has in hand;
  `MayStillFail` does so for the runs that came to nothing, while a schedule may fail once more.
  `SchedulesKeepTheirBooks`.
- Installations: `TaskIsOnRecord` relates the record, which a cancellation writes, to the task,
  which looks at it between steps only; `CloudIsBehind` relates both to the provider, in both
  directions: the calls made are there, and what is there was made, or failed and was served.
  `RunsAreOnRecord`, and `InstallOutcomesAreFinal` for the action property.
- `DeskKeepsItsBooks`: a step of the composition is a step of one part and a stutter of the
  others, so the run's three invariants hold of it.

**AccountsProofs.** Seven parts of the composition, and the composition.
- Credentials: `RenewalBuysOnce`, `SignOutIsFinal` and `ChangeEndsOldTokens` are about pairs and
  moments; what makes them inductive is `SpentFirst` (a renewal has marked its token as spent before
  it mints a pair), `InTurn` (of changes that do not cross, the mark taken later is stored later; two
  that cross may set the account's mark back, which `ChangesAddUp` shows), `MintedAreSpent` (a pair that has bought
  another is spent) and `ClaimsAreRounded` (what a token says of its issue is the second it was
  issued in, which the account's mark is compared with). `CredentialsAreSound`.
- Memberships: a handler is a list of statements, and its type says which lists a handler of its
  kind may have left (`Plans`), so that every step is looked at for the few lists that begin with
  its statement. `IsStaged` says what a writer that nobody disturbs has behind it at its next
  statement; `AloneIsSole` that nobody disturbs it because there is nobody else; `OneEach` that
  everything read without a race had one primary team; `SnapshotIsBefore` and `TokenIsBefore` what
  an undo would go back to. `CacheIsCurrent` is inductive with `ReadingIsCurrent`: what the cache
  or a request about to fill it has is the rows, but while a writer still owes an invalidation
  (`Owing`). `MembershipsAreSound`, and `MembershipsStepSoundly` for the action properties.
- Alerts: `IsAccounted` divides the channels of a level into those still to be tried, those that
  took the alert and those that failed; `AlertIsStaged` says how far the dialogue with the mail
  server has come; `HourlyCap` counts the alerts of every hour that has begun (`DeliveredFrom`),
  and the one just admitted is in all of them that it could push over the limit. The severities'
  lists of channels come from the configuration and may name one twice: a channel then both takes
  the alert and fails it, and `RecordedAccounts` says so. `AlertsAreAccounted`.
- Presence: a visit that has met no other finds the row as it saw it, and then as it set it
  (`VisitIsAlone`); the history is longer than its cap by at most the entries whose visits have not
  trimmed it (`Untrimmed`). Telling is best-effort: a visit keeps whom its telling passed over
  (`missed`), and only they may have been told something older. `PresenceIsTold`.
- Profiles: `WrittenSoFar` says that the fields of an account are written in their order and that
  those before the next have been, unless the row is gone, and a row that is gone stays gone,
  because a skill's id is that of a request which is done (`SkillsAreOfTheDone`). A batch that names an
  account twice writes it twice. `EditsAreWhole`.
- The rate limiter: what it has forgotten is out of every window that ends from now on
  (`ForgottenHasAged`), although requests that overtook each other leave what it keeps unsorted; so
  the admissions of a window are all among the hits when its last one is pushed. That bounds the
  requests of a window from their readings to their admissions, not their readings alone
  (`ReadingsInWindow`). `ToldOfRoom` makes the wait a refused caller is told of inductive, across
  the rounding to seconds.
- The upload limiter: what it keeps is the end of what it admitted, in the order of admission, and
  what it has forgotten is out of every window from now on (`EventsAreLatest`). So the positions
  that `Retained` leaves are the last ones, and a count over what is kept is a count over the
  history. Bytes are counted as a set of pairs of an upload and a byte, so that sums
  of sizes are cardinalities. `WindowsHold`, `CapsHold`.
- `AccountsKeepTheirBooks`, `LimitsAreKept`: every behaviour of the composition is one of each part.

**MessagesProofs.** Three parts of the composition, and the composition.
- Deliveries: `TaskIsSound` says what a delivery task knows of its message in each of its states,
  `WireIsSound` that the wire has what a finished task says was sent, `LinkIsSound` where an
  attachment may hang, `ClerkIsSound` what an edit or a recall under way has read.
  `DeliveriesAreSound`, and `DeliveriesStepSoundly` for the action properties.
- The job queue: `WorkIsSound` says what the job in hand has behind it, `PushesAreTries` bounds the
  chunks pushed by the tries made, so that a chunk is not pushed more often than a job may be
  tried. That a job is in one place is stated by counting; the proof has five sets of jobs,
  disjoint, whose lines have no copies (`OnePlace`), and shows that it says the same. What is in
  the rows is a second invariant on top (`OnRecord`): a try under way has only failures behind
  it, each on its message or counted as lost. `JobsAreKept`.
- The hub: `ConnsFit` says which connections there can be, `RequestsFit` what a connecting, a
  changing and a saving request has read of the registry and of the states, `ChallengeFits` that
  an open challenge has let nobody in. That no message falls between history and broadcast needs
  the order of the two in `FanOut` and of joining in `Register`. `ConnectionsAreSound`.
- `MessagesAreSound`: the run's whole specification keeps the three.

**FanOutProofs.** Two parts, and the composition.
- The fan-out: `EventsFit` relates an event to the life of the process that raised it, `TriesFit`
  what its item has been tried to what its sockets were shown, `RowsFit` rows, passes, deliveries
  and acknowledgements to the events they are of, and `RelayFits` what a process has shown of the
  others' events to what it has acknowledged. "Held once" is stated by counting; the proof has
  three lines without copies, and disjoint (`InPlace`), and shows that it says the same. A restart
  begins a new life, and with it a new instance: what the old one acknowledged, raised or
  held is nobody's any more. `EventsAreHeldOnce`.
- The channel: `SocketsFit` says that a socket that is not open has been told nothing, `StampsFit` counts the stamps taken,
  `RefreshesFit` lets one refresh run and bounds what it has read between the last frame and the
  newest message, from which frames only go forward. `ChannelIsTrue`; `AttachmentsStay` and
  `FramesOnlyGoForward` for the action properties.
- `RelayAndChannelAreSound` and `ChannelStepsSoundly` say the same of the run's specification.

**WorkbenchProofs.** Eight state machines and their composition; the module proves every
invariant of the run `workbench` and its action properties.
- Files: `RequestIsStaged` says what a request about a file has behind it in each of its stages,
  `SeenIsSo` what its reading of the row is still worth, `UnknownIsUntouched` that nobody works on
  a row not yet made. An object without a row is there because a failure, a deletion or an upload
  not yet confirmed explains it (`StrayIsExplained`, `DeletionExplains`); a removal whose failure is swallowed counts
  as one. `FilesAreKept`.
- Sessions: `AskIsCurrent` says what a request has read is still so, or requests crossed.
  `SessionsFollow`; `MessagesGoToActive` for the action property.
- Labels: `RequestIsCurrent` relates what a transaction holds to the rows, `EventsCatchUp` the
  labels as the listeners know them to the stored ones, to what is still to be told, and to what
  was committed and never told, until a later event names it.
  `LabelsAreKept`.
- Connections: `CopyIsCurrent` says which columns of the row a request has read before it called
  the platform are still as it read them; `DoneStaling` keeps that account. The
  counters add up with what the database did not let be counted. `ConnectionsAreTrue`.
- Automatic replies: an edit is a set of statements taken in the order of their numbers.
  `CondsOfOne` and `ActsOfOne` say how far its only editor has come with a rule, `LoadIsCurrent`
  what an evaluation has read of the rules so far. `RulesAreCurrent`.
- Business hours: `HoursAreKept` holds the arithmetic, too: for every length of the day and
  of the week, an instant of the week that lies inside a window, past midnight or not, is never
  taken for off hours.
- Collaboration: `Agrees` follows the notices between the room's mutex and their delivery.
  `RoomsAreKnown`, and `FreshSignsStay` for the action property.
- Notifications: `AnswersAddUp` accounts for the recipients of a batch between two of its
  statements. `NoticesAreKept`; `ReadingsStand` for the action property.
- `AutoRepliesAreRight`, `WorkbenchIsSound` and `WorkbenchStepsHold`: a step of the composition is
  a step of one part, so what each part keeps the whole keeps.

Every invariant and every safety property over steps that a passing run checks is stated by a
theorem. What is only model-checked is liveness under fairness, which is out of this prover's
reach together with ENABLED: `PendingIsSettled`, `PostedIsStored`, `ClaimResolves`,
`MessagesSettle`, and of the bundles `FanOutPromises` and `DeskConcludes` the parts that say
something comes about (`RelayReaches`, `QueueDrains`, `RefreshEnds`; `DueIsServed`,
`GenerationEnds`, `RunsEnd`). Their other parts are proved (`AttachmentsStay`,
`FramesOnlyGoForward`, `InstallOutcomesAreFinal`). Disagreements between code and documents are
counterexamples of TLC.

## Where the documents and the code disagree

Three disagreements are standing runs, with a finding each:

| Run | The documents say | The code does |
| --- | --- | --- |
| `delayed_cancelled` | a cancelled message is never delivered (`Rust_CRD.md:1315`) | a cancel confirmed after the dispatcher has read the row does not stop the send |
| `hours_overnight` | an end before the start is an overnight window that crosses midnight (`Rust_CRD.md:1397`) | the small hours of the window's own day count as open too (`auto_reply/engine.rs:195`) |
| `room_cap` | capacity of a conversation is bounded (`Rust_CRD.md:2434`) | a typing indicator enters a viewer without the test (`realtime/collaboration.rs:127`) |

The last section of a module states further ones, with the words they are taken from. They
are no standing runs; to see a counterexample, put the definition in place of the properties
of the part's configuration.

| Definition | Module | What TLC finds |
| --- | --- | --- |
| `AtMostOnceDelivery` | `DelayedMessages` | two processes that poll at once, or a restart before the UPDATE, deliver twice |
| `SentMeansDelivered` | `DelayedMessages` | a row survives the purge of its agent in mid-dispatch and is recorded as sent, with no message |
| `CancelledBeforeFireTime`, `CancellableIsMarked` | `DelayedMessages` | the fire time passes between check and UPDATE; a request that ends after its INSERT leaves no marker |
| `OneOpenConversation` | `WebhookIngest` | two processes, or the LIFF page, open one each: the lock is in one memory and no index refuses |
| `OneReplyPerMessage` | `WebhookIngest` | a reply that was served but not confirmed is repeated at the redelivery |
| `SeenIsProcessed` | `WebhookIngest` | a follow whose work failed after its reservation is skipped by the redelivery and acknowledged |
| `OneWelcome`, `StoredIsAnnounced` | `WebhookIngest` | a default welcome after a rule's that was not confirmed; a call dropped after the INSERT announces nothing |
| `SnapshotIsPrior`, `BackfillFillsThePool` | `Routing` | a commit between read and write: the recorded prior state is stale, an assigned conversation is moved |
| `UnforcedMeetsNoDrift`, `EveryRestoreUndoes`, `ClaimIsTransient` | `ActivityRestore` | the check is on a read before the claim; a forced restore inserts nothing; a vanished one stays in progress |
| `FollowedSetSurvives` | `RealtimeHub` | a reconnect hydrates from the row that the last disconnect is about to write |
| `QueueAlwaysDrains` | `EventFanOut` | a flush that is dropped leaves the draining flag set |
| `LatestIsFresh` | `CustomerChannel` | a request dropped before its refresh leaves the older message |
| `RearmHolds` | `Reminders` | a reminder moved while a pass holds it is marked sent without being told again |
| `GenerationConcludes` | `Reports` | a dropped request leaves its report generating, and a slot taken |
| `FailureRollsBack` | `Installer` | a failed run leaves what it created |
| `NewSignInWorks`, `ChangesAddUp` | `Credentials` | a sign-in in the second of a password change is refused: `iat` has no milliseconds (three instants to the second show it); of two changes that cross, the one stored last may have the earlier mark, and tokens issued between the two marks work again |
| `ReadingsInWindow` | `RateLimit` | a request that was overtaken before the mutex finds forgotten what its own window still holds, and is admitted |
| `OnePrimary` | `Memberships` | two requests at once each promote a team |
| `AtMostOneEnabled` | `Connections` | two requests each find none enabled |
| `NoneListedExpired` | `Notifications` | an expiry written east of UTC is compared as text and is listed too long |

Two more need no model: the retries after 1, 2 and 4 seconds of `Rust_CRD.md:1285` are not
in `process_delayed`, and a send through a gateway creates no row in `messages`
(`Rust_CRD.md:1316`).

## What is not modelled

Of the modelled parts, what is left out is said in each module's header and in the notes of
`PROJECT.json`. Of the rest:

| Part | Why |
| --- | --- |
| Webhook parsing, addresses, signatures; configuration, encryption, platform names | pure conversions of strings, no state |
| LIFF pages, message export, analytics | static pages and read-only queries |
| Leased locks (`locks.rs`), the offline buffer of `messaging/service.rs` (543-673) | nothing outside their tests calls them |
| Customer-facing conversations | reads and single statements; its message creation is a second implementation of what `CustomerChannel` models |
| Shopee | signed requests to a shop; one rotating token is all the state |
| Monitoring centre, other middleware | counters, and a breaker nothing is routed through |
| Settings, health probes, maintenance statements | single statements |
| Frontend API and realtime client | in the browser: one socket reference, timers and a close callback; where the model would grow next |
| Frontend pages, tests, examples, deployment | no state of the system |

Two hazards of the list have no property: a follow event that is reserved and then fails is
never done again (`webhooks/ingest.rs:993`), and nothing keeps two processes from delivering one
row (`messaging/service.rs:159`). That is how the code is; `SeenIsProcessed` and
`AtMostOnceDelivery` above state the opposite and are refuted.

## Plan

The order was: the parts several actors share through the database first (delayed sends, webhooks,
routing and undo), then the memory of one process, then what passes between processes, then the
desk, accounts and workbench; for each an invariant that TLC finds true, then its proof. Every
part of the plan is written, and every safety property of the runs is proved. What remains:

1. liveness for every value of the constants, once a prover can reason about ENABLED; until then
   the instances above stand for it;
2. the realtime client of the frontend as a module beside `RealtimeHub`: its reconnection timer
   against the close of an old socket;
3. the one loop of `main.rs` that dispatches delayed sends and, in turn, runs the reminders, which
   `DelayedMessages` and `Reminders` each have as a pass of their own.
