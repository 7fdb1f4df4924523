# Verification of xbly

TLA+ modules, TLC configurations and TLAPS proofs for the Python services of
this repository: the web BFF (`bbw_web`), the autonomous agent (`bbw_agent`),
the shared persistence (`bbw_prod`) and the client of the legacy upstream
(`bbw_protocol`).  PostgreSQL is the authority for all of them; Redis/RQ only
carries hints, and the upstream providers (Banghua APK API, Tencent IM) are
unreliable third parties.

## 1. Inventory

| Component | State it keeps | Operations | What is hard |
|---|---|---|---|
| Autonomy tasks and dispatch (`bbw_agent/repositories.py`, `autonomous.py`, `runtime.py`) | task rows with lease, permit, attempt count and snapshots; audit rows; daily usage | claim, begin generation, renew, begin dispatch, prepare, lock permit, finish, defer, reap | leases that expire under a live worker; a provider call that cannot be undone; a crash between any two transactions |
| Agent settings and switches (`services.py`, `api.py`, `admin_api.py`) | autonomy setting, runner setting, grants, model connection and their versions | save, enable, halt, resume, every cascade that disables the agent | a change while a task is at the provider |
| Control scan (`jobs.py` 3365-4022) | none of its own | supersede, sweep, create at most one task, enqueue due jobs | uniqueness of the open task, budgets, starvation |
| Manual account actions (`api.py` 677-855) | the same audit rows | idempotent execute, reclaim | retries of a request whose first attempt is running |
| Model gateway, contact policy, style sampling | none | pure functions and one HTTPS call | none that TLC is needed for |
| Canonical local messaging (`messaging/*`) | chat messages, projections, unread counts, receipts, deliveries | store, revoke, mark read | idempotency keys, two members writing one thread |
| TIM mirror delivery (`jobs.py` 1156-1912) | `message_deliveries` rows | claim, send, recall, mark delivered or failed | expired locks, lost answers, a revoke during a send |
| Compatibility outbox (`compatibility_outbox.py`) | `operation_outbox` rows, legacy bindings | claim a batch, execute, finalize, retire | non-idempotent creates, batch leases |
| Web-native media (`media_native/*`) | upload intents, assets, attachments, flash claims, quota | create, complete, send, revoke, claim flash, cleanup | double claims, quota refunds, object store and database out of step |
| Media archive (`jobs.py` 1985-2196, 4801-5186) | outbox rows and media objects | claim, archive, defer, recover | configuration errors and retries |
| Social relations (`social_native/*`) | relationship and request rows of both sides | follow, request, accept, cancel, delete, block | symmetric rows changed by both users |
| Moments (`moments_native/*`) | posts, comments, reactions, counters | publish, comment, like, hide, pin | counters against rows |
| Discovery (`discovery_native/*`) | profiles, matches, grants | match, grant | symmetric match records |
| Archive and sync (`persistence.py`, `jobs.py`) | messages, cursors, read marks | ingest, sync, mark read | duplicates and reordering |
| Sessions and login (`bbw_prod/services.py`, `store.py`) | sessions, invites, credentials | login, issue, revoke, consume | last use of an invite, concurrent requests of one user |
| Dependency health (`dependency_health.py`) | circuit per provider | before call, success, failure | half-open probes |
| Administration, BFF surface, normalisation, browser client, migrations | - | - | routing, rendering and one-off scripts |

How the parts interact:

- The database is the only shared memory.  Jobs and web requests meet in row
  locks, leases (`lease_until`, `locked_until`) and status columns; a queue
  entry only says "look at this row".
- A local change and the request to mirror it are written in one transaction:
  a message with its `message_deliveries` row, a social change with its
  `operation_outbox` row.  Workers then take the row, leave the transaction,
  call the provider and write the result back in another one.
- The agent acts through the same code as its owner (`action_executor.py`), but
  under a permit: a transaction that keeps the authorising rows locked while the
  provider is called.
- `BBW_COMPATIBILITY_MODE` (enabled, paused, retired) switches every mirror; the
  retirement command cancels what is left of them.
- Social relations feed the policies of messaging, media, matching and moments,
  each of which asks the rows with a query of its own.

What makes each component correct:

| Component | Correct when |
|---|---|
| Tasks and dispatch | one provider call per task; a closed task tells the truth; one open task per owner; an unknown outcome halts the agent; budgets are exact; everything is closed in the end |
| Settings and switches | no action goes out on an authorisation that was withdrawn |
| Control scan | budgets are respected, no candidate starves |
| Manual account actions | a repeated request has the effect of one |
| TIM mirror | a row says what happened at TIM; a revoked message leaves no copy nobody asked to recall; every row is closed |
| Compatibility outbox | no double create; only real ids are used; a closed row stays closed |
| Media | quota is reserved and returned once; a flash item is opened once; no object is lost or left behind |
| Social relations | the rows of both sides agree; a block ends every edge and the provider cannot revive it; every policy honours it |
| Moments, discovery | counters equal the rows they count; match records are symmetric |
| Archive and sync | ingest is idempotent; cursors do not go back |
| Sessions and login | the last use of an invite is consumed once; a revoked session is dead |
| Dependency health | one probe while half open |

The hazards, each at its line and with the properties that would catch it, are
listed in `PROJECT.json`.

## 2. Plan

In this order; the first nine are done.

| # | Module | Question | Abstract view |
|---|---|---|---|
| 1 | `AutonomyDispatch` (done) | dispatch protocol of the agent | `OnceAction` |
| 2 | `OnceAction` (done) | what the agent promises of every action | - |
| 3 | `TimMirror` (done) | mirror of messages and their recall | a send and a recall that are reported truthfully |
| 4 | `CompatibilityOutbox` (done) | fenced batch outbox | the same, per row |
| 5 | `SocialRelations` (done) | relations of two users, imports, blocks | - |
| 6 | `NativeMedia` (done) | uploads, quota, references, one-time claims, cleanup | a quota counter |
| 7 | `MediaArchive` (done) | archive jobs that nothing fences | a row with its copy |
| 8 | `WebLogin` (done) | invites, pending logins, sessions, revocation | - |
| 9 | `PermitLocks` (done) | row locks around the permit transaction, sessions that wait for their own process (`runtime.py` 1523-1568, 1746-1756; `action_executor.py` 731-818) | one step of `AutonomyDispatch` |
| 10 | `Moments`, `Discovery` | counters, visibility, symmetric matches; composed with `SocialRelations` for blocks | - |
| 11 | `MessageSync` | ingest, read cursors, sync leases, the send check against a concurrent block | a set of messages |
| 12 | `AutonomySchedule`, `AccountActions`, `DependencyHealth` | candidate choice and starvation, manual idempotent actions, circuit breaker | - |

Every safety invariant and action property that a passing run checks is stated by a
theorem (section 6); for the planned modules the same is intended, as far as their
invariants go.

## 3. Modules

Every module has one action per transaction, call or handler; `PROJECT.json`
maps each definition to its lines.  An `MC...` module holds the instance for
TLC, a `...Proofs` module the theorems.  Definitions with names such as
`DueUnleased` or `ClaimAgain` are mutated forms of the next definition: each
property is shown to fail when the code had that bug.  Each module has a type
invariant `TypeOK`, which is proved (`TypeCorrect`).

### 3.1 AutonomyDispatch

One owner, since no row and no transaction is shared by two.  State and code:

| Variable | Code |
|---|---|
| `task` | `ai_agent_autonomy_tasks`: status, token (lease or permit), attempts, versions of the snapshot, deadline, budget day |
| `execution` | `ai_agent_action_executions.status` of the task; "unavailable" is a failure with the retryable code |
| `setting` | the autonomy setting, the versions of runner, connection and execution (`runner`) and all switches and grants (`access`) |
| `usage`, `day` | `ai_agent_autonomy_daily_usage` and the budget day |
| `queue` | job ids in RQ |
| `worker`, `holder` | local variables of `run_once`; the open permit transaction |
| `inflight`, `applied`, `invoked` | what the provider may still do, has done, was asked |
| `acknowledged`, `crashes` | history: reviews the user has answered, dead workers |

`TakeJob`, `Preflight`, `BeginGeneration`, `ModelReturns`, `RenewLease`,
`Recheck`, `BeginDispatch`, `DeferTask` are `run_once` up to the reservation,
`PrepareExecution`, `LockDispatchPermit`, `RefusePermit`, `RefuseAction`,
`CallProvider`, `ProviderAnswers`, `RecordOutcome`, `FinishTask` the dispatch;
`ControlScan`, `EnqueueJob`, `ReapDispatch`, `CloseStaleExecution` the jobs;
`Configure`, `DisableAutonomy`, `RestoreAccess`, `SaveRunnerSettings` the user and
the administrator; `Crash`, `LoseTransaction`, `TimePasses`, `NextDay`,
`ProviderApplies` the world.

Decisions:

- A transaction is one step; the permit transaction is not.  While `holder = w`
  every step that needs a row it locked waits, and the database may end it
  (`LoseTransaction`) while the provider works.
- Time is one bit per task: has the deadline of its present status passed?  RQ
  kills a job at 300 s plus at most 60 s, about when the lease of 300 s ends and
  well before the reaper's 600 s.  `LateLeases` and `LateDispatches` say whether
  the deadline may pass under a live worker.
- Claim n yields lease token n and permit token -n, since tokens are never
  repeated.
- Left open (nondeterministic): what the model answers, quiet hours, intervals,
  the head of the conversation, which candidate the scan picks.
- A provider that answers tells the truth; a lost answer leaves the request in
  flight.  An audit row that is denied its permit is closed in the same step
  (the locks involved are the subject of `PermitLocks`).
- A match that the provider accepted may be reported as failed (section 5, first
  finding and "Match bookkeeping").  `OutcomeIsTruthful` and the mapping of
  `ActsOnce` therefore exempt the *failed* match (`FailsTruly`); all other reports of
  a match, and all reports of the other actions, are held to be true.
- `MaxClaims`, `MaxCrashes`, `MaxVersion`, `MaxDay` are the bounds of the model;
  `MaxAttempts` and the limits are settings of the code.

`OnceAction` is the abstract specification: an action is planned, dispatched, and
done, void or under review; it is sent at most once, it happens only after it was
sent and while it is undecided, and a report is final and true.
`AutonomyDispatch` implements it (`ActsOnce`) under the mapping that reads the
report from the status of the task (`ReportOf`), whether the action was sent from
`invoked` and its effect from `applied`; its actions are the tasks that change the
account, except matches.

### 3.2 TimMirror

`message` is the canonical message, `delivery` its send and recall rows in
`message_deliveries`, `request` what became of the call of each attempt, `tim`
the copy at TIM, `worker` one RQ job, `mode` the compatibility mode, `faults` the
kinds of faults that have happened.  `StoreMessage` and `Revoke` are the user's
calls; `Claim` to `MarkFailed` is `mirror_tim_message_delivery`; the scheduler is
`FailExhausted`; the operator has `SetMode` and `ArchiveRetiredWork`.

- One RQ job handles one delivery and the claim decides who does, so the queue is
  left out.  A lock lasts 120 s and its job 60 s, hence the guard of
  `DeadlinePasses`: a lock ends only after its job did.
- TIM repeats no message with the same `MsgSeq` and `MsgRandom`, and both derive
  from the message; a repeated send is therefore the first one.  TIM is external
  and this is an assumption.
- Left out: the two-minute limit of a revoke, the layout of payloads.  Two reads
  of the status and key that no write separates are one step.

### 3.3 CompatibilityOutbox

`row` is `operation_outbox`, `request` the fate of each attempt's call, `binding`
the id bound by `LegacySocialBinding`, `worker` a dispatch with its batch.  A
dispatch claims a batch (`Claim`), then for each row prepares, checks, calls,
reads the answer, binds and finalises.

- The attempt number identifies the claim, as `locked_by` does.
- The order of a batch is left open; the retention purge is left out.
- The RQ limit of the dispatch equals its lease (900 s), and its timeout is caught
  as an error of the current row, which is retried, also when the provider has taken
  the call (`Answer`): a dispatch may go on after its lease.  With `Overrun` all this
  happens; `compat_careful` and `NeverCreatedTwice` ask what holds without it.
- A binding whose commit answer was lost ends its row as failed although it stands
  (`Bind`).
- A process that dies lets an abandoned create be claimed again; `CreatedOnce`
  therefore speaks of runs without a crash.

### 3.4 SocialRelations

`local` and `request` are the rows this server writes, `legacy` the trusted rows
imported from the provider, `event` the claimed operation ids, `asked` a history: what
each user last asked for, block or unblock.  `Edge` and `Request` are the rule by which a local row outweighs
imported ones.  Each operation (`Follow`, `Unfollow`, `CreateFriendRequest`,
`AcceptFriendRequest`, `RejectFriendRequest`, `CancelFriendRequest`,
`DeleteFriend`, `Block`, `Unblock`) is one transaction that locks both users in the
order of their ids, so it is one step; one that raises rolls its claim back and
is no step.  `Import` is a snapshot of the provider, which may come at any time.
`MessagingBlocks`, `MayNotMatch` are the queries other components ask.

- `NewId` stands for every operation id that is sent once; only ids a client may
  repeat are kept.
- One legacy row per edge, trusted ones only; a legacy request row belongs to the
  requester (direct) or to the target (mirror).
- Left out: profiles, lists, visits, outbox rows of the mirror (see 3.3).

### 3.5 NativeMedia

| Variable | Code |
|---|---|
| `intent` | `media_upload_intents`; expired and mature stand for `expires_at` and the cleanup grace |
| `staging`, `private` | the objects of an upload in the object store |
| `asset` | `media_assets`: status, whether the day of grace of an unused one is over, `expires_at` |
| `slot`, `attachment`, `claims` | `media_asset_references`, message attachments, one-time views |
| `archived`, `used` | files of the archive that count, `used_bytes` of user and system |
| `request`, `sweep` | a handler that completes an upload or opens a picture; the cleanup job between object store and database |

`CreateIntent` ... `Commit` are the two-phase upload, `Bind`, `Release`, `Attach`,
`Revoke`, `PurgeMessage`, `StartClaim`, `ClaimFlash` the uses of an asset,
`FenceIntent` ... `DeleteAsset` the cleanup, `ReserveArchive` and `ReleaseArchive`
what the archive of 3.6 does to the same ledgers.

- Every file counts one unit.  Bytes in the staging object other than those that
  were announced count as none, since the inspection refuses them.
- The branch `status='expired'` of `complete_upload` is left out: no code sets that
  status.
- A completion ends within the cleanup grace (an hour) and the grace of an unsent
  asset (a day): `GracePasses`, `AssetAges` and `AssetExpires` wait for it.
- `lost` marks an upload whose object was deleted in a transaction that then failed
  to commit (`delete_asset_and_release_quota` deletes first).  Its row is listed as
  available without an object until the next cleanup; `UsedHasObject` exempts it.
- The code lets an asset go with several messages, each with an attachment row and
  views of its own, and only ever extends the life of the asset; `Attach` follows one
  of them.
- Objects have no contents: that staging bytes may be overwritten between inspection
  and copy (`r2_adapter.py` 411-429) is left out.
- A staging object that is uploaded again, or could not be deleted, after its
  upload was completed stays behind: no row leads the cleanup to it.
- `reserve` of the archive looks at what is used, not at what pending intents have
  reserved, hence the premise of `ReservationsFit`.

### 3.6 MediaArchive

`row` is `operation_outbox`, `claimed` and `queue` the jobs between a claim and a
worker, `media` the `media_objects` row each job reserved, `objects` the object
store, `used` the ledger, `worker` a job that is running.  `Claim`, `QueueJob`,
`ResetDispatch` are the dispatch, `TakeJob` to `Defer` the transactions and calls of
`archive_media_job`.

- A job is named by its file and the attempt of its claim.  A claim ends after ten
  minutes whether or not its job has run, and nothing in the job checks that the
  claim is still its own: two jobs of a row may run at once.
- `excused` holds the files for which that happened; it also holds a file whose copy
  was deleted although its `media_objects` row still said "available".  The latter
  takes a database that fails behind `mark_available`: `_finish_outbox` raises,
  `storage.delete` succeeds, and `release` fails too or the worker dies (`jobs.py`
  5107-5150).  The next job finds the row, takes its copy for good and completes the
  outbox row without one (5022-5034).  `CompletedHasCopy` and `OneListedCopy` exempt
  these files; they hold for every other failure of every step.
- A commit that raises is taken as not made.  `mark_available` reads its row without
  a lock.
- Left out: the recovery of old configuration failures (`jobs.py` 2124-2196) and the
  retention of archived files (5293-).

### 3.7 WebLogin

| Variable | Code |
|---|---|
| `account` | `external_accounts` with the status of its user |
| `invite` | `invite_codes`: `use_count`, disabled |
| `login` | the phone and uid a login has proved to hold |
| `pending` | the logins whose key `pending-login` is in Redis |
| `runtime` | the process's own store: none, pending or signed in |
| `session` | `web_sessions`: status and invite |
| `cache` | the sessions with a copy in Redis |
| `handler` | a request: its step, what it read, the rows it has locked |
| `cancelled` | history: the logins for which `_cancel_pending_runtime` returned True |

A login authenticates at the provider (`Authenticated`), which leaves a pending key
and no session; `StartFinish` to `Commit` finish it with an invite under the locks of
account and invite, `StartCancel` and `Cancel` drop it; `StartRequest`, `Touch` and
`Refill` are any later request, `Revoke` and `RevokeAll` a log-out and an
administrator.  `Restart` loses the memory of the process.

- A pending login's cookie may come at any time, also after the login ended
  (`MaySendPending`).  The cancel endpoint answers ok whatever became of the login;
  `CancelledStaysOut` speaks of those that were really cancelled.
- The idle time-out of a session and its absolute one are one expiry; the failure
  accounting and re-authentication are left out, and so is a local password, which
  no caller uses.
- Two transactions that lock in opposite order are ended by PostgreSQL: `GiveUp`.

### 3.8 PermitLocks

`session` is the open transaction of each database session: its kind, whose rows it
concerns, the lock statements it has still to make and the locks it has; `phase` and
`report` are where the worker stands and what it will report.  A transaction is the
sequence of row locks its code asks for (`PolicySnapshot`, `Suspend`,
`SaveConnection`, ...); what it reads and writes under them is the subject of
`AutonomyDispatch`.  `TakeLock`, `SkipOwner` and `CancelNothing` are the statements,
`Fails` PostgreSQL: a statement ends by `statement_timeout` (`compose.yaml` 182-184)
or because it waits in a circle that the database sees (`Detected`).  `CommitBegin`
to `IdleTimeout` are `execute_fixed_action` with its permit (`session "main"`) and the
sessions it opens while the permit is open (`session "second"`).

- Locks are FOR UPDATE (also an UPDATE of the row), the FOR KEY SHARE that an insert
  takes on the row its foreign key points to, and FOR UPDATE SKIP LOCKED.  A plain
  read takes none.
- Two owners: the worker acts for the first, its target is the second; every other
  transaction runs for either of them.  Each other session runs one transaction.
- Rows that are only ever locked behind a row of the list are left out.  Inserting a
  row of an owner takes a key share of the user and happens all over the service;
  one insert after each kind of lock stands for them (`ArchiveMessage`,
  `EditContact`).
- An administrator's switch and the sweep of lapsed dispatches lock owners in the
  order of their query, which has none: both orders are taken.
- A save is the one that takes something away, the longest of its branches;
  `RevokeGrant` is the route of the runner's grant, that of the account actions'
  (`admin_api.py` 3433-3500) asks for the same rows except the agent's.
- The foreign keys of an `operation_outbox` row lead to its owner only (`models.py`
  1834), whose row the social operation holds already: the insert adds no lock.

`KnownDeadlocksOnly` lists the circles there are: the worker behind its own permit,
and five places where the code leaves the order it states (section 5).  It is the
answer to "does the lock order hold": all other transactions agree, which is proved
for any number of sessions.

## 4. Runs

| Run | Instance | Shows |
|---|---|---|
| `dispatch_one_task` | one reply task, 2 workers, 2 attempts, 4 claims, 1 crash, 2 versions, both deadlines may overtake a live worker, fairness | `AtMostOneInvocation`, `OutcomeIsTruthful`, `PermitStaysAuthorised`, that the module implements `OnceAction` (`ActsOnce`), `DispatchSettles`, `OpenTaskResolves` |
| `dispatch_two_tasks` | a browse and a reply task, 2 workers, 2 days, limits that shrink with the version, 1 crash; the reaper's deadline does not overtake a live worker | `OneOpenTask`, `UnknownOutcomeHalts`, `UsageIsExact`, `NoActionWhileUnresolved` |
| `permit_locks` | the worker with its second connection, and one transaction of each of two other sessions, of 23 kinds for either owner; fairness | `KnownDeadlocksOnly`, `RightsStandDuringCall`, `EveryTransactionEnds` |
| `permit_match` | the worker alone | `AcceptedMatchSucceeds` is violated (5.1) |
| `tim_faults` | one message, 2 workers, 2 attempts, any number of crashes and lost answers, fairness | `DeliveredIsTruthful`, `WritesOwnClaim`, `RevokedIsCompensated`, `DeliverySettles` |
| `compat_faults` | a publication and its deletion, 2 dispatches, 2 attempts, overruns, server errors, 1 crash | `CompletedIsTruthful`, `ClosedStaysClosed`, `UsesRealIds` |
| `compat_careful` | the same, no overrun, no server error, fairness | `CreatedOnce`, `RowSettles` |
| `compat_server_error` | no overrun, no crash | `CreatedOnce` is violated (5.2) |
| `social_two_users` | 2 users, one id that may be repeated, 4 legacy rows that contradict local ones | `BlockSeparates`, `FriendshipIsMutual`, `LastWordCounts`, `BlockIsHonoured`, `FriendshipNeedsConsent` |
| `media_uploads` | 2 uploads and 1 archived file for a quota of 2, 2 requests, 1 slot, 1 fault | `LedgerIsExact`, `NoObjectIsForgotten`, `UsedHasObject`, `ShownOnce`, `ReservationsFit` |
| `media_archive` | 1 file, 2 workers, 2 attempts and 2 more, 1 fault beside the errors of every step, fairness | `LedgerIsExact`, `CompletedHasCopy`, `OneListedCopy`, `CompletedIsFinal`, `RowSettles` |
| `web_login` | 2 logins for the last use of an invite, phones and uids that may collide, 2 handlers | `InviteUsesAreExact`, `RevocationIsComplete`, `CancelledStaysOut` |

Why the bounds are enough.  Each hazard needs at most two actors on one row (the
old holder and the new one), so two workers; a retry after a failure needs two
attempts, the refusal of a third needs one more claim, and the claims lost to a
crash one more again: hence 2 attempts and 4 claims.  One crash can hit every
point between two transactions; what a second crash could add is a second lost
claim, which the expired leases of `dispatch_one_task` produce without one.  Two
versions suffice for "older than now", two days for a midnight between
reservation and refund.  A post and its deletion are the shortest chain in which
an operation needs the id another one binds; its members may also be taken as
independent rows.  Relations are symmetric in two users, and no operation writes
a row of a third.  Uploads and an archived file compete for one quota, so two uploads
and one file with room for two; `media_archive` has one file because every
hazard there is two jobs of one row, 2 attempts and 2 more because each deferral
grants another one, and one fault beside the failures each step may have.
`web_login` has two logins for one use, with phones and uids that may or may not
be the same account.  `permit_locks` has two others beside the worker: a circle of
waits has up to three sessions then, and `OrderLeavesKnownDeadlocks` shows that more
sessions make no other one.  The runs without
liveness properties reduce by the symmetry of their workers or handlers
(`dispatch_two_tasks`, `compat_faults`, `media_uploads`, `web_login`); those with
liveness properties use none.

`OpenTaskResolves` excepts a task that would need a fifth claim (`OutOfClaims`),
which the code would grant and the bound does not.

Deadlock is checked for the relations, which never stop.  Elsewhere a state in which
every task, row or transaction is closed and no budget of changes is left is a
proper end.

Fairness.  Weak fairness of each worker's next step (RQ keeps its workers
running), of the control scan, the enqueuing, the reaper and `FailExhausted` (the
scheduler loop starts them periodically), and of deadlines (time passes).  In
`TimMirror` also of TIM's handling of a request, because a call ends by an answer
or by its own timeout.  In `MediaArchive` of each worker's next step, of the
dispatch and the taking of a queued job, of the end of a claim and of a pause (an
operator resumes what he paused).  In `PermitLocks` one weak fairness for all:
whenever a statement can be made, a transaction can end or an answer can come,
something of the kind happens.  No fairness for crashes, lost answers, users, the
operator or the daily cleanup, so nothing is promised that needs them.
`OpenTaskResolves` holds while the user leaves the agent on and it does not halt;
`DeliverySettles` and the `RowSettles` of the outbox while the mirror stays enabled.

## 5. Where the code and its documents disagree

Shown by a run:

1. *Accepted match with a new peer.*  docs/18 line 182: a successful match is written
   to the history and grants the ordinary message relation.  `_request_text_match`
   calls `grant_message_peers` (`action_executor.py` 794) without the permit's
   session, so the grant opens its own (`persistence.py` 2329).  Its insert of a
   relationship needs a key share of the owner's user row, which the permit
   transaction of the same thread holds FOR UPDATE.  PostgreSQL sees one session that
   waits and one that idles; after 60 s the statement or the idle permit is ended, and
   a match the provider accepted is reported failed or unknown (`permit_match`);
   where it is reported failed, docs/18 lines 187-188 (see "Match bookkeeping") are
   not kept either.  A
   match whose peers are all known only updates rows and goes through.
2. *Server error on a create.*  `_ensure_success` retries every 5xx and 408
   (`compatibility_outbox.py` 961) without asking whether the call may be
   repeated; the comment at 968-969 says unsafe creates stay terminal
   (`compat_server_error`).

Lock order.  `repositories.py` 2083-2087 and `services.py` 1180-1183, 1541-1546 state
one order (system, accounts, users, agent, execution, connection, ...).
`permit_locks` finds these transactions outside of it; PostgreSQL ends one of the two
that meet, and the statement fails:

- a draft that is sent at once locks the agent row (`api.py` 2390, 897) before the
  system row;
- `prepare_action_execution` inserts the audit row, which needs account and user,
  under the lock of its task, while a second worker whose lease ended is reserving
  (`repositories.py` 3371, 3144);
- the sweep of lapsed dispatches and the administrator's switch lock settings of
  several owners in no order;
- an archived message locks its conversation and then needs the user, the permit of a
  message holds the user and stores into the conversation;
- the edit of a contact policy locks the policy and then needs the user for its audit
  log, the permit takes them the other way round.

A refused permit writes its refusal in the permit and again through a second session
(`runtime.py` 1546-1554, 1746-1756), which waits for the first one up to the same 60 s;
the refusal itself is recorded correctly.

Remarks on single lines:

- *Match bookkeeping.*  Any other error after an accepted match carries a `code` when it
  comes from the database, which `runtime.py` 1779-1799 takes for a definite failure;
  docs/18 lines 187-188 promise an unknown outcome and a pause.
- *Worker lost before the audit row.*  Between `begin_dispatch` and
  `prepare_action_execution` no audit row is linked, and the reaper
  (`repositories.py` 4216) closes such a task as failed.  docs/18 lines 103-105 promise
  manual review and a halt.  Nothing was sent in that case, so the code's answer
  is true; the document is stricter than needed.
- *Lost answer, then revoke.*  A revoke cancels a send row in retry or failed
  without a recall (`messaging/repository.py` 840), although TIM may have taken
  the attempt whose answer was lost; the docstring at line 818 says the possible
  send is compensated.
- *A batch that outlives its lease.*  The comment at `jobs.py` 1946-1948 aligns the
  leases of a batch with the RQ limit so that no second worker reclaims its tail.  The
  exception by which RQ ends the job is an ordinary one, caught for the current row
  (`compatibility_outbox.py` 1203), and the batch goes on after its lease.
- *Archived while called.*  The last check is a transaction of its own that keeps
  no lock (`compatibility_outbox.py` 1064), so a row may be archived between it
  and the call; the comment at 1059-1061 says it cannot escape.

## 6. Proofs

All theorems hold for every value of the constants that satisfies the modules'
`ASSUME`s, so for any number of tasks, workers, messages, accounts and attempts.

| Module | Theorems |
|---|---|
| `AutonomyDispatchProofs` | `TypeCorrect`, `NeverCalledTwice`, `DispatchIsNeverRetried`, `NeverTwoOpenTasks`, `UnknownOutcomeKeepsHalted`, `PermitAuthorised`, `OutcomesAreTrue`, `ActionsHappenOnce`, `BudgetIsExact`, `ActionsAreAlone` |
| `TimMirrorProofs` | `TypeCorrect`, `OwnClaimWritten`, `DeliveredIsTrue`, `RevokedCopiesAreRecalled`, `ClosedRowsStay` |
| `CompatibilityOutboxProofs` | `TypeCorrect`, `ClosedForGood`, `CompletedIsTrue`, `OnlyRealIds`, `NeverCreatedTwice` |
| `SocialRelationsProofs` | `TypeCorrect`, `BlocksSeparate`, `FriendshipsAreMutual`, `BlocksAreHonoured`, `LastWordHolds`, `ConsentNeeded` |
| `NativeMediaProofs` | `TypeCorrect`, `LedgersAreExact`, `ObjectsAreListed`, `UsedAssetsHaveObjects`, `PicturesAreShownOnce`, `ReservationsHold` |
| `MediaArchiveProofs` | `TypeCorrect`, `QuotaIsExact`, `CompletedFilesHaveCopies`, `CopiesAreListedOnce`, `CompletedStays` |
| `WebLoginProofs` | `TypeCorrect`, `InviteUsesExact`, `RevocationsComplete`, `CancelledNeverEnters` |
| `PermitLocksProofs` | `TypeCorrect`, `RightsStand`, `OrderLeavesKnownDeadlocks`, `GrantWaitsForItself` |

The arguments:

- *Dispatch.*  `RowStep` says what any step may do to one task row; each action is
  shown to obey it once, and `DispatchingIsFinal` follows.  At most one call is not
  inductive: nothing in it says why a second worker cannot reach the call.
  `InvocationInv` adds that a budget day marks a dispatched task for
  good, so it is never claimed again (`ReservedOnce`), that at most one worker
  works on the permit of a task (`OneDispatcher`), and that nobody is on the way to
  the provider once it was called (`CalledOnce`).  One open task follows from `RowStep` and the guard of the scan.
  A halted agent after an unknown outcome needs that every step either leaves the
  reviews and the halt alone or halts, with `Configure` the only one that resumes
  and acknowledges.
  The truth of the report needs to know whose report it is: `TokenInv` says that no
  two workers hold one lease or permit and that none holds one of the future.  On it
  `TruthInv` ties the audit row, the status and what a worker is about to write to
  what happened at the provider; `ActionsHappenOnce` maps every step to one of
  `OnceAction` or a stutter with it.  `PermitInv` is the permit's own property beside
  `InvocationInv`, `UsageInv` adds that only a closed task was refunded (else a row
  could be refunded twice), and the counters are then cardinalities that one step
  changes by one.  `AloneInv` adds to all this that an outcome to review is of a
  task that is under review or still dispatching, and that nobody about to act has
  one before him.  `ActionsAreAlone` assumes `LateDispatches = FALSE`: RQ ends a job
  after 300 s, at most 60 s late, and the reaper takes up a dispatch after 600 s.
  With `LateDispatches` a worker that was given up could act beside the next one.
- *TimMirror.*  A write-back checks only that the row is processing.  `ClaimInv`
  adds that a row somebody works on is never due, carries that job's attempt and
  has no second job (`OneJob`), that idle workers hold none, and that only stored
  messages have rows; the lock outliving its job is what makes it inductive.
  `AcceptedInv` ties the phase "ok" of a job to an accepted request and that to
  the copy at TIM.  `RecallInv` says what a status tells of the requests before the
  first fault: a row that waits, failed or was cancelled unsent was never accepted
  (`SendRowInv`), a worker that has not called has no accepted request either
  (`SendJobInv`), and a copy comes from an accepted request (`CopyInv`).
- *CompatibilityOutbox.*  `ClaimInv` numbers the claims: no two dispatches hold the
  same attempt of a row, none holds a future one, and requests exist only for
  attempts that were made.  `ResultInv` on top of it ties verdicts, bindings and
  completed rows to applied requests.  `ClosedForGood` needs only the types and the
  fence of the write-back (`Holds`).  `NeverCreatedTwice` assumes `~Overrun` and
  `~ServerErrors`, and speaks of runs without a crash, as the property does;
  `compat_server_error` shows what the second assumption is for.
- *SocialRelations.*  `BlockSeparates` speaks of what the rows mean, so an import
  could break it.  `LocalInv` says more: a local block leaves local rows
  "inactive" for follow and friend on both sides, so no imported row counts; with
  mutual friend rows and closed requests it is inductive.  `BlocksAreHonoured`
  needs no history: the queries agree in every state.  `LastWordHolds` needs that a
  block row says what its user last asked for (`WordInv`), which every operation keeps
  because one whose id is claimed neither writes nor counts as asked again.

- *NativeMedia.*  Nothing locks the object store, so the invariant follows one upload
  through its handler: while a handler stands between inspection and commit
  (`Standing`, `RequestOK`) its intent is still pending and inside the grace, and
  nobody else completes or sweeps it; `IntentOK` and `AssetOK` say for each status
  which objects there are.  The ledgers are a sum over rows that one step changes by
  one.  That a picture is shown once rests on one step, the claim under the lock of
  its attachment; nothing else writes the views (`ClaimsStay`).
- *MediaArchive.*  A job is its file and the number of its attempt, and a claim raises
  the number: no two workers ever hold one job (`JobsApart`), one that has not come to
  its reservation has charged nothing (`Unpaid`), and `Balanced` is the ledger.
  `SoundInv` follows the files that are not excused: their row has one job at work
  (`Alone`), no job has a `media_objects` row before its reservation (`BirthInv`), at
  each step of a job its copy is the only one listed (`WorkSound`, `Sole`), and what
  is listed is charged and stored (`CopiesSound`).
- *WebLogin.*  What a handler has read stays true until it writes, because it either
  holds the lock every other writer needs (`LockedOK`, `LocksApart`) or works for a
  login nobody else can know yet (`FreshOK`); `LoginsOK` says that a cancelled login
  has neither key nor session.
- *PermitLocks.*  Locks exclude each other (`Exclusive`), and what a transaction's
  program names it has locked or still asks for (`Covers`); so a permit that stands and
  a withdrawal that is about to commit would both hold the row they share.
  `WaitingInv` says where the second connection stands: behind its own permit.
  `OrderLeavesKnownDeadlocks` gives every row a rank (`Rank`): the order the comments
  of the code state, the owner of the one sweep in a circle first.  A session asks
  for its rows in ascending rank (`OrderInv`, `DispatchInv`, `SecondInv`), with these
  exceptions: rows nobody can wait for, because all who lock them have locked a row
  before them that guards them (`Protects`, `NeverWaits`), and the task, which the
  insert of the audit row locks first, but which only sessions of the same dispatch
  want (`OneDispatch`).
  Outside the listed circles each session would thus want a row of higher rank than
  the one that waits for it (`Ascends`), and there are finitely many ranks
  (`NoCircle`).

Model-checked only: liveness (`DispatchSettles`, `OpenTaskResolves`,
`DeliverySettles`, `RowSettles` of the outbox and of the archive,
`EveryTransactionEnds`), which needs fairness and ENABLED and is out of the prover's
reach.  `AcceptedMatchSucceeds` and, with server errors, `CreatedOnce` do not hold
(section 5).  Every other property that a run checks is a theorem.
Proved and in no run: `DispatchingIsFinal` (`DispatchIsNeverRetried`),
`ClosedStaysClosed` of the mirror (`ClosedRowsStay`), `SelfWait`.

## 7. Not modelled

The components of section 2 from number 10 on are planned.  Most lines of the
repository are outside of any protocol: `bff_server.py`, `normalize.py`, `app.js` and
the greater part of `api.py`, `admin_api.py` and `persistence.py` route requests,
translate fields of the upstream and render them, and have no state of their own that
a model could get wrong; the definitions map to the transactions these files call.
Out of scope are further the texts (prompts, style), which are pure functions and
inputs of the protocol; the HTTP clients, which are the environment; administration
screens and the browser client; migrations and one-off imports run by an operator.
The provider, TIM, RQ and PostgreSQL are
external and modelled by how the code uses them: calls may be lost, answered late
or handled after a timeout; transactions are atomic and serialised by the row
locks the code takes.
Follow and unfollow rows that are retried may reach the provider in another order
than they were made; the code promises no order there, and no property is stated.
