# TLA+ models of enterprise-ai-copilot

This directory models the parts of the platform whose correctness depends on
order, failure and concurrency, checks them with TLC on small instances, and
proves the central properties with TLAPS for every instance. Every definition
is translated from the Python code; `PROJECT.json` ("map") says which lines
each one stands for.

## The system

| Part | State it keeps | Operations | Talks to |
|---|---|---|---|
| Schedule producer (`services/scheduler/main.py`) | none | poll a definition, `enqueue_once` its slot | Redis |
| Redis job queue (`packages/scheduler/queue.py`) | a stream with one consumer group, "enqueued" markers and run keys with TTLs | `enqueue`, `enqueue_once`, `receive`, `ack`, `claim_run`, `complete_run` | Redis |
| Schedule worker (`services/worker/`) | a loaded definition, a `Scheduler` | receive, validate, claim, trigger, complete, ack | Redis, the agent runtime |
| Scheduler facade (`packages/scheduler/schedule.py`) | history, paused, cancelled, active counts | `register`, `pause`, `resume`, `cancel`, `trigger` | the executor, a notifier |
| Schedule times (`schedule.py`) | none | `scheduled_for`, cron matching | – |
| Approvals (`packages/agent_runtime/approvals.py`, API handlers) | the `approval_requests` table | request, approve, reject, verify, lazy expiry | the store, the audit log |
| Run service and stores (`services/api/app.py`, `runs.py`, `postgres.py`) | per-process caches, the `agent_runs` table | idempotent `execute`, `get` | agent runtime, store |
| Agent runtime (`runtime.py`), policy, MCP gateway | none | one run: policy, tool call, provenance check, model | gateway, model provider, audit |
| Audit log (`audit.py`) | a list and a table | append, list | SQLite or PostgreSQL |
| Rate limits (`limits.py`) | a log per key, or Redis counters | check | Redis |
| Attachments (`packages/attachments/`) | records in one store, content in another | upload, read, delete, purge | blob store, scanner |
| Plugin registry (`packages/plugins/registry.py`) | directories, `registry.json`, an event log | install, rollback, remove | file system |
| Authentication (`auth.py`) | the cached signing keys of the OIDC provider, under a lock | authenticate, refresh | OIDC provider |
| Vision and model clients (`vision/service.py`, `model.py`) | none | analyze, complete | external providers |
| Contracts, network rules, observability, bootstrap, CLI, web console, scripts | – | stateless checks, I/O and wiring | – |

What is hard about it: producers, workers and API replicas share Redis and SQL
with no transaction around a whole operation, so another process runs between
any two commands; processes die between them and are restarted by Docker
(`restart: unless-stopped`); TTLs and leases run out while work is in
progress; a command may be applied although its reply is lost; and each
operation writes to two places (decision and audit event, blob and record,
directory and registry), the second of which may fail. The hazards are listed
line by line in `PROJECT.json`, each with the properties that watch it.

What makes each part correct:

* queue and workers: one live holder per slot; a job is acknowledged only if
  its slot was taken care of; duplicates do not repeat a run; jobs of dead
  workers are found again; nothing runs that was not reviewed;
* producers: one job per slot, and no slot lost, up to named failures;
* approvals: a decision is final and made by somebody entitled to it, its token
  stands, and the audit log tells the same story as the table;
* run service: one run per idempotency key, the same answer to every retry;
* attachments, plugins: the two places agree after every crash, or the
  difference is one that a later operation repairs;
* agent runtime and audit log: nothing is called or sent without a durable
  permission, every answer has its terminal event, no unverified data is
  reported as a success, and the trail of an answered run is final;
* scheduler: the right slot, at most one success for it, limits and
  cancellations kept however triggers overlap;
* authentication, limits, vision: withdrawn keys die out, new keys are accepted,
  rates are bounded and a retry hint is honoured, and an image leaves only with
  consent and on record, up to named failures.

## Modules

| Module | What it is |
|---|---|
| `RedisJobQueue` | the Redis state and the effect of each command `queue.py` issues |
| `ScheduleService` | producers, workers, clock and deployments over that Redis |
| `ScheduleCorrectness` | its properties and the inductive invariant |
| `RunLease` | what `claim_run` and `complete_run` promise, without Redis |
| `MCSchedule` | instance for TLC |
| `ScheduleProofs` | theorems about `ScheduleService` |
| `Approvals` | the approval service, its stores and HTTP handlers, with properties |
| `MCApprovals` | instance for TLC |
| `ApprovalProofs` | theorems about `Approvals` |
| `RunService` | idempotent runs: handlers, per-process dictionaries and the run stores, with properties |
| `MCRunService` | instance for TLC |
| `RunServiceProofs` | theorems about `RunService` |
| `Attachments` | upload, read, delete and purge over the metadata store and the blob store, with properties |
| `MCAttachments` | instance for TLC |
| `AttachmentProofs` | theorems about `Attachments` |
| `AgentRuntime` | one run from policy to answer, with both MCP gateways, the model provider and the audit log, with properties |
| `RunOutcome` | what the runtime promises about the end of a run |
| `MCAgentRuntime` | instance for TLC |
| `AgentRuntimeProofs` | theorems about `AgentRuntime`, among them that it implements `RunOutcome` |
| `ScheduleTime` | slots and cron expressions as operators, and what a slot should be |
| `SchedulerFacade` | one `Scheduler` with overlapping callers, over `ScheduleTime`, with properties |
| `MCSchedulerFacade` | instance for TLC |
| `SchedulerProofs` | theorems about `ScheduleTime` and `SchedulerFacade` |
| `PluginRegistry` | install, rollback and remove as file operations, with properties |
| `MCPluginRegistry` | instance for TLC |
| `PluginProofs` | theorems about `PluginRegistry` |
| `KeyCache` | the JWKS cache and its users, with properties |
| `AnalysisRequests` | requests through authentication, rate limit, vision provider and audit, over `KeyCache`, with properties |
| `MCAnalysisRequests` | instance for TLC |
| `AnalysisProofs` | theorems about `KeyCache` and `AnalysisRequests` |

### RedisJobQueue and ScheduleService

One schedule definition, with slots `1..NumSlots`. A step is one Redis command
or one local decision. `queue.py` methods that issue several commands are split:
`enqueue_once` is `MarkSlot` (SET NX EX) then `EnqueueJob` (XADD), or
`EnqueueFails` and `UndoMark` (DEL) when XADD raises; `receive` is
`ClaimAbandoned` (XAUTOCLAIM) then `ReadGroup` (XREADGROUP); `claim_run` is
`ClaimRunGet` then `ClaimRunSet` (SET NX EX). `_consume_job` is the sequence
`Consume`, claim, `Trigger`, `AttemptSucceeds`/`AttemptFails`, `CompleteRun` or
`CompleteRunLost`, `Ack`; `pc` says where a worker is. `history` is the
`Scheduler._history` of that process, lost when it ends. A process that gets an
exception exits (`Crash`, or `Exit` inside the step that raises) and is
restarted with the definition then deployed.

A job is reduced to what a consumer distinguishes: its slot, whether
`scheduled_at` is past `expires_at`, whether it is exactly the slot instant
(which decides whether the key of `scheduled_at` and the slot key coincide),
its version, and who added it. Time is a tick that ages pending entries, TTLs
and leases; only what is left of a TTL is stored. `events` and `effects` are
observers that no process reads.

Not in this model: the pause, cancel, concurrency and notification features of
`Scheduler` (module `SchedulerFacade` has them; a worker's own `Scheduler` never
uses the first three), the `dry-run` mode, and what the executor does beyond
succeeding or raising.

### Approvals

A step is one store call, or the audit append with the response after it.
Handlers carry their call in `call` and their place in `pc`. `Get` is
`ApprovalService.get`, which may hand over to `ExpireIfNeeded`; when that loses
its compare-and-set it goes on with the stale pending record, as the code does.
`StoreDecide` is the `UPDATE ... WHERE status = 'pending'` of the SQL stores and
the locked test of the in-memory one. `Unique` tells stores with the UNIQUE
constraint from the in-memory store. `late` is the set of records whose
`expires_at` has passed: expiry is stored only when somebody reads the record.
`HandlerFails` is any exception or process death; after `StoreDecide` it loses
the audit event and the token.

### RunService

`RunService.execute` and `get`, for several API replicas over one store. A step
is one access to a dictionary of the process (`runs`, `idempotency`), one store
call, or the agent run. `execute` is `Execute`, `CacheHit` or `CacheMiss`,
`FindIdempotent`, `Runtime`, the save, `KeepRun`, `KeepKey`; the answer is given
in the last step. Saves differ by store: PostgreSQL inserts with ON CONFLICT DO
NOTHING and reads the key again (`PostgresSave`, `PostgresReread`); SQLite's
insert commits (`SqliteSave`) or raises (`SqliteSaveRefused`). `txn` is the
transaction that the raising insert leaves open on the run store's connection.
The audit store writes to the same file through its own connection, so that the
next run ends in `RuntimeLocked` ("database is locked"), while a run that had
already passed its audit events may still save, and commit. A caller is an owner
(workspace, tenant, user) and a role: the stores compare both, the cached path
of `get` only the owner. `Restart` empties a replica's dictionaries, ends its
requests and closes its connection. `answers`, `reads` and the
`retry` mark of a call are observers. A service without a store exists in tests
only and is left out.

### Attachments

A step is one call of the metadata store or of the blob store, or the audit
append with the response after it. The owner stands for the record; content is
there or not (a put is atomic: `os.replace`, or one S3 request). `upload` is
`Put`, `Create`, `AuditCreated`; `CreateFails` and `Undo` are the exception
branch, in which the row may have been committed although `create` raised. A
`delete` is `ScopedRecord`, `DeleteBlob`, `DeleteRow`; PostgreSQL's store reads
and deletes in two statements (`DeleteRow`, `DeleteRowLate`), SQLite's under one
lock, which is the case where nothing happens in between. A purge reads its list once (`Purge`) and then deletes one by
one. `RequestFails` is an exception of either store or the death of the process
anywhere. `gone`, `purged`, `swept` and `broken` are observers;
`broken` names the operations that failed half way on an attachment, the only
reasons for which its two halves may differ for long.

### AgentRuntime and RunOutcome

`run` is cut at its audit appends and at its calls of the gateway, the provider
and the trace exporter; `pc` says which comes next. `Append` is
`AuditLog.append`: memory, then the store. `Late` is SQLite's shared connection,
on which an insert whose commit failed is committed by whichever append comes
next. `AppendRaises`, `CallRaises` and `Crash` are the failures; all of them end
the run without an answer. `CallResults` is everything either gateway may return:
a lookup in the caller's tenant, what `StreamableHttpMcpGateway` accepts of an
arbitrary remote answer (`Replies`), or a failure. A text is blank, usable or too
long. `Verified` is `provenance_verified`. `ListEvents` and `GetEvents` are the
reading side; like the cached path of `RunService.get` it compares workspace,
tenant and user, and not the role. `called` and `prompted` are observers. `RunOutcome` abstracts a
run to its recorded terminal statuses and its answer; in `RunService` the whole
run is the step `Runtime`.

### ScheduleTime and SchedulerFacade

Time is in ticks; the instance has a minute of two ticks, an hour of three
minutes and a day of two hours, and zones whose clock is set forward or back by
an hour. `Wall` and `ToUtc` are what `zoneinfo` does. `CronSlot` searches minute
by minute as `scheduled_for` does; `SlotOf` says without a search what the slot
should be, and where the change of the clock makes exceptions. One of them,
`Displaced`, came out of the proof: the search goes by the wall clock, so a time
that the clock skips is found before times that it shows after the change, and
becomes an instant that lies behind them. With a change of half an hour (Lord
Howe) and "20,40 2 * * *" the slot is 02:50, although 02:40 occurs and is
earlier. Changes by whole hours hide it unless the hour field excludes an hour,
as in version 9 of the instance's schedule.

A step of `SchedulerFacade` is the code between two calls out of the object, of
the executor or of the sink; there other callers of `trigger`, `pause`, `cancel`
come in, from another thread or from the executor itself. A thread switch inside
that code (between the test of the counter at `schedule.py:309` and its increment
at `:313`) is left out: `Scheduler` takes no lock and the services use one thread
for it. `effects` is an observer.

### PluginRegistry

A step is one rename, copy or replacement of a file: `Install` (with `MoveAway`),
`Place` or `StageFails`, `WriteRecord`, `AppendEvent`; `Rollback`, `CopyBack` or
`ManifestMissing`; `RemovePlugin`, `DropRecord`. `Interrupt` ends the process
anywhere and leaves a part of a copy. A package has the modification time of its
directory, which `copytree` and `move` preserve and by which `rollback` chooses;
`Finds` says which names the pattern `<name>-*` matches. `placed` and `torn` are
observers.

### KeyCache and AnalysisRequests

`KeyCache` is `JwtJwksAuthenticator`: `EnterCached` or `EnterExpired` with the
lock, `Discover`, then `ProviderAnswers` (external: what was published at some
moment while the caller waits), `Refresh` or `RefreshFails`. The lock is held
throughout. `Rotate` publishes any other set of keys; `RestartCache` is the end of
the process. `TickKeys` lets a request to the provider last at most `FetchTime`.
That is an assumption about the provider and the network: the timeout at
`auth.py:263` bounds each socket operation, and a server that sends byte after byte
keeps a request going.

`AnalysisRequests` is `analyze_attachment` from the token to the audit event:
OIDC or HS256, the in-memory or the Redis limiter, consent, the provider, the
event. The HS256 authenticator reads no shared state, so that its decision is
one step. Content is there or not; its stores are `Attachments`.

The in-memory limiter reads the clock before it takes its lock, so that
`ReadClock` and `MemoryCheck` are two steps: a handler that had to wait drops with
an old cutoff and appends an old time behind newer ones. Both limiters answer in
whole seconds, so that time is counted in parts of a second. `RetryAfter` is
`max(1, int(x + 0.999))`, which is less than the ceiling when `x` is less than a
thousandth over a whole number (`Thousandth`); `Ttl` is what Redis answers, the
seconds left to the nearest second (`Half`). `RedisCheckFails` refuses and tells
the caller to wait for `window_seconds`. `CallRaises` is an exception of the
provider's connection that `vision/service.py:145` and `:158` do not convert, and
`Crash` the end of the process, which takes keys, log and requests along and leaves
the counter in Redis. `withdrawn`, `age`, `excused`, `admitted`, `promise`, `egress` and
`abandoned` are observers. Rates and promises are those of one process (in memory)
or one Redis.

## Runs

`tlc -config <cfg> <module>`; times are for two workers.

| Run | Question | Instance |
|---|---|---|
| `schedule_workers` | Do leases exclude, are acks justified, are repeated runs explained, and is `RunLease` implemented? | 2 workers, 2 jobs for one slot, 2 faults, free clock |
| `schedule_lifecycle` | Is only what was reviewed executed, is a marker always backed, and a slot produced once while marked? | 2 producers and a worker, stale, late, early and write jobs, 2 versions, 1 fault |
| `schedule_progress` | Is every job acknowledged in the end, and every queued slot completed unless its claim holder died? | 2 workers, 2 jobs, 1 fault, timely runs |
| `approvals` | Are decisions final, tokens valid, verification genuine, keys unique, audit and table in agreement? | 2 handlers on 2 records of a SQL store, 1 fault |
| `runs` | One answer per key, no second execution on retry, answers stored, runs read by their owner? | 2 replicas on PostgreSQL or 1 process on SQLite, 2 owners, 2 requests, 2 runs, 2 faults |
| `attachments` | Do the two stores agree, are deletions and purges complete and audited? | 2 requests or purges, 2 attachments, 2 owners, 2 faults |
| `agent_runtime` | Is nothing called or sent without a durable permission, does the trail explain every answer and stay as it is, and is `RunOutcome` implemented? | 2 runs, callers of 2 tenants, of none and without the role, 8 remote answers, 2 faults |
| `scheduler` | Is the slot right, is it executed once and remembered, are limits and cancellations kept? | 2 callers, a schedule in 9 versions of every kind, with both changes of the clock |
| `plugins` | Is nothing lost, do directories, records and events agree, can a missing directory be repaired, and does a rollback restore the version before? | 2 names, one the beginning of the other, 3 packages, 4 backups, 1 fault |
| `analysis` | How long is a withdrawn key used, and is a new one accepted? How many requests are admitted in a window, and is it enough to wait as told? Does an image leave only with consent and a good token, and is recording it always tried? | 2 handlers in five deployments, below |

The deployments of `analysis` (`MCDeployments`), each with bounds of its own: for
the keys, OIDC with tokens of two keys, 3 requests, 1 rotation, 1 crash and 3
ticks; for the images, OIDC with the in-memory limiter (2 requests) and HS256 with
Redis (3 requests), good, unsigned, untrusted, expiring and unconsented calls, 1
crash and 2 ticks; for the limits, each limiter with 4 requests in 8 ticks.

Runs that show a disagreement between the code and what the repository says:

| Run | What happens |
|---|---|
| `schedule_ack_doc` | a worker dies with a claim; its job is reclaimed before the lease ends, answered `in_progress` and acknowledged; the slot is never executed |
| `runs_lock_doc` | two requests with one key race; SQLite's failed insert leaves a transaction open; every later run fails on its audit events, so none reaches the `save` that would commit it |

Smaller disagreements are visible as exceptions in the properties rather than as
runs of their own:

* a slot can be enqueued twice when XADD was applied and its reply lost, or when
  the marker expired (`EnqueuedOnceWhileMarked`, "reopened"), although
  `services/scheduler/main.py:5` excludes it; a one-shot slot, which stays due,
  then runs again once its completion key is gone (`DuplicateEffectExplained`,
  "forgotten");
* expired and blocked jobs are completed under another key than the claimed one,
  and the worker exits with "claim was lost" while it owns the claim
  (`CompleteRunLost`);
* SQLite's `save` raises for a duplicate instead of "returning an existing
  idempotent record" (`runs.py:23`; `SqliteSaveRefused`);
* content whose upload died between `put` and `create` is found by no purge
  (`PurgeLeavesNothing`), and a purge writes no audit event (`DeletionAudited`);
  no service calls `purge_expired`;
* `verify` accepts an approved record whose `expires_at` has passed, because
  `_expire_if_needed` looks at pending records only, while POL-005
  (`docs/VALIDATION_STANDARD.md:147`) asks for expiry (`CompareHash` has no guard
  on `late`);
* a cron slot is the next occurrence and not a past one, so the producer, which
  speaks of a "due" slot (`services/scheduler/main.py:4`), enqueues it before its
  time and a worker executes it (`CronSlot`, `SlotOf`);
* a trigger that is paused, blocked or expired at the very instant of a slot is
  recorded over the slot's success (`OneSuccessPerSlot`); a slot that was skipped
  because of `max_concurrency` is answered by history from then on;
* `rollback` goes by the modification time of the supplied directory, among all
  names that begin with `<name>-`: after version 1, version 2 with an older time and
  version 1 again it restores version 1 and not 2; it may take another plugin's
  version; and the part of a copy that an interrupted rollback leaves is newer than
  all backups. EXT-004 (`docs/VALIDATION_STANDARD.md:162`) says "previous known-good
  version can be restored" (`InOrder` in `RollbackRestoresPrevious` excuses the three);
* an answer of the vision provider that is cut off raises
  `http.client.IncompleteRead`, which is no `OSError`: neither `vision/service.py:145`
  nor the handler (`app.py:953`) converts it, and the image that was sent gets no
  audit event, while IMG-006 (`docs/VALIDATION_STANDARD.md:249`) asks for a
  "provenance record" (`CallRaises`, `abandoned` in `EgressGoverned`);
* the Redis limiter admits up to `2 * max_events - 1` requests around the end of a
  window (`RateBounded`); the in-memory one is a sliding log, although its
  docstring (`limits.py:18`) says fixed window;
* a caller who comes back exactly when `Retry-After` says may be refused again:
  the answer lacks up to a thousandth of a second in memory and up to half a
  second with Redis (`Lack` in `RetryAfterHolds`);
* `_verify_signature` does not catch `InvalidSignature`, so a wrong RS256
  signature is refused with 500 rather than 401 (`Authenticate` only says
  refused).

Bounds. Two workers and one slot suffice for every race of claims, because a
run key is touched only by workers of that slot; the second job makes the
duplicate, and the second fault lets both workers die. `Lease` = 2 ticks, with
`ClaimAfter` = 1, gives a reclaim inside the lease and one after it. Two handlers
allow a decision and a competing one, expiry or verification at every point of
it. For run keys, two requests in two replicas give every race of lookup,
execution and save, and a restart in between gives the retry. Two attachments
let a purge work on one while its owner deletes the other; requests follow each
other without limit, so two at a time meet in every pair of places. Two agent
runs are enough for one to commit the other's events. Four backups and three
packages give a replaced, a current and a foreign candidate of a rollback, and
backups with dates in order and out of it. A
`CacheTime` and a `FetchTime` of one tick, in three ticks, give an expiry, a
refresh and a withdrawal in every order. A window of two seconds with two events
can be filled, left and filled again by four requests; with four ticks to a second
and a `Thousandth` of two ticks both roundings lose something, and both bounds
are reached: TLC refutes `RateBounded` when admissions are counted by the time
that was read or by the time of the decision alone, and `RetryAfterHolds` without
`Lack`, for either limiter. Bounds are constants used
in guards (`MaxEntries`, `MaxManual`, `MaxFaults`, `MaxVersion`, `MaxEffects`,
`MaxCalls`, `MaxCancels`, `MaxBackups`, `MaxClock`, `MaxRotations`, the
`requests`, `ticks`, `rotations` and `crashes` of a deployment, `Ids` with `RoomForRequest` or `RoomForRun`). Where the bounds let the
system come to its end (`agent_runtime`, `plugins`, `analysis`),
deadlock is not checked.

Types: the type invariant of every module is a theorem. It is a theorem of its
own for the schedule service, `Approvals` and `RunService`; elsewhere it is the
first conjunct of a property that is both checked and proved (`HalvesAgree`,
`TrailExplainsAnswer`, `LimitKept`, `RecordAgrees`, `RateBounded`).

Symmetry is used only in runs whose properties are invariants or step
properties, over sets of model values that the specification treats alike.

Fairness. `TimelySpec` assumes that workers keep taking steps, which
includes being restarted (Docker's restart policy), and that time passes; both
are weak fairness. It also assumes that a claimed run ends within its lease: the
lease is `max_runtime_seconds + 30`, and `docs/DEPLOYMENT.md` asks for claim
times beyond the longest run, but no code enforces it. So only the two
liveness properties use it; every safety property is checked with a free clock.
Producers get no fairness: `EverySlotCompleted` starts from a queued job.
Both allow a fault; `EverySlotCompleted` therefore excepts a slot whose claim
holder died, which is what `schedule_ack_doc` shows. `FairSpec` of `RunService`
(threads are scheduled, and clients keep sending new runs) serves `runs_lock_doc`, so that its
counterexample is not one in which nobody asks any more.

## Proofs

`tlapm <module>.tla` for each module whose name ends in `Proofs`. The constants are
arbitrary; the assumptions are the positivity of times and bounds (which
`queue.py`, `limits.py` and the contracts enforce), that tokens, `None` and
status strings differ, and those named below. Every inductive invariant was
checked with TLC on the instance of its run before it was proved.

`ScheduleProofs`:

* `TypeCorrect`. The type invariant is inductive only with `WorkerInv` (what
  each `pc` says about the registers: a worker past `receive` has a job, one
  that attempts has a token, ...) and `ProducerInv`.
* `LeaseMutualExclusion`. `LeaseRespected` is not inductive: it does not say
  what the run key holds. `LeaseInv` does: a holder whose lease is running finds
  its token in the key with TTL `Lease - age`, and one whose lease is over never
  finds it there. `TokensDistinct` makes tokens name their holder.
* `AckedJobsCovered`. `CoverInv` adds that a run key, and a decision to
  acknowledge, is evidence that the slot is `Covered`, which stays true
  (`CoveredStable`).
* `ServiceImplementsRunLease`. From the same invariant every step is a step of
  `RunLease` or a stutter: `ClaimRunSet` acquires, `CompleteRun` finishes,
  ticks, crashes and lost completions lapse.
* `ExecutionsAreReviewed`, from `ReviewInv`: a worker past `receive` holds a job
  of the version it loaded, and neither changes until the attempt.
* `MarkersAreCovered` and `SlotsAreEnqueuedOnce`, from `EnqueueInv`: until the
  marker of a slot is deleted or runs out, one producer at most is between SET NX
  and XADD, and it finds no job there.
* `DuplicatesAreExplained`, from `EffectInv` on top of `LeaseInv`: while no
  holder died, was overdue, and no completion was forgotten, the one success of
  a slot is in the run key, or with the live holder about to put it there; so a
  second claim of the slot is impossible.

`ApprovalProofs`: `ApprovalInv` is the type invariant with `CallInv` (what a
handler's place says about its call and its record: at `audit`, the record
already holds this handler's decision) and `RecordInv` (an approved record has a
genuine approver). Every step leaves the table alone, creates a record or
decides one (`TableSteps`), hence `RecordsKept`, from which follow
`ApprovalTypes`, `DecisionsAreFinal`, `IssuedTokensStand`, `KeysAreUnique`,
`AuditAgreement` and `VerificationsAreGenuine`. The last one needs
`VerifiedApproved`: `VerifiedGenuine` does not say that the record was approved,
and only approved records have a genuine approver.

`RunServiceProofs` covers both stores. That answers agree says nothing about the requests still under way; `RunInv` does: a
request about to save holds a fresh run id, one past its save or its lookup
holds the stored row of its caller and key (`CallsOK`), the table has one row
per caller and key (`RowsOK`), and dictionaries hold stored rows only
(`CachesOK`, `IndexResolves`). Rows are never changed, so an answer stays right:
`OneAnswerPerKey`, `RetriesAreSafe` (a retry's key was answered, hence stored,
hence found), `AnswersAreDurable`, `ReadsAreScoped` (the cache skips the scope
check of the store, so `get` has to compare the owner), `CacheIndexResolves` and
`RunTypes`.

`AttachmentProofs`: an attachment is `Settled` when no request can write its
row or content again. `AttachmentInv` says that rows, deletions and old
attachments are the work of uploads that are over (`UploadsOver`), that an id
belongs to one upload, what a request's place says about both stores, and what a
purge still has to do (`PurgeOK`). Then a late `DeleteRowLate` or `Undo` cannot
bring anything back: `DeletionsAreFinal`, `HalvesStayTogether`,
`DeletionsAreAudited`, `PurgesAreComplete`.

`AgentRuntimeProofs`: `RuntimeInv` says of each run what its place means for its
registers, which of its events are in the trail (`TrailOK`), and which may still
come there (`SeenOK`): an event that was only appended to memory is committed by
somebody else's append later, so what must never be recorded must not be in
memory either. Theorems: `OutsideCallsAreAllowed`, `SuccessesAreOwn`,
`TrailsExplainAnswers`, `TrailsAreFinal` (an answered run has nothing in memory that
is not in the store, so that no later commit adds to its trail), and the refinement
`RuntimeImplementsRunOutcome`.

`PluginProofs`: an installation that fails goes back to the backup it made, so
that the invariant must hold of two views, the files as they are and as they
would be after the failure (`OldDirs`, `OldBackups`). `RegistryInv` says of both
that everything once active is in a directory or a backup, and that a whole
backup stands behind every missing or partial directory. Theorems:
`RecordsAgree`, `NothingIsLost`, `InterruptionsAreRepairable`, and
`RollbacksRestorePrevious`, for which the invariant says that the chosen tree is
the newest candidate throughout the rollback, which puts aside only what is no
candidate. It is assumed that `Finds` is transitive: what a pattern
`<name>-*` finds begins with the name, and so does what those names find.

`SchedulerProofs`. First, for every zone with one change of the clock, calendar
and cron expression, and every time: `scheduled_for` computes what `SlotOf` says
(`IntervalRight`, `OneShotRight`, `CronRight`). The proof of the last one follows
the search: the cursor takes every minute of the wall clock from the next whole
one on (`SearchFinds`), and the first hit is carried back to an instant that
shows it, or to which the change of the clock displaces it. Then `FacadeInv`: a
call has the registered definition and the slot of its time (`CallsOK`),
counters equal the numbers of calls (`CounterOK`), and a success is in the
history under a slot that is due at its own instant (`Due`), so that only a
refusal for another reason can be recorded over it; a call that has not succeeded, of a schedule without
concurrency, knows that its slot has no success (`SuccessOK`). Theorems:
`ExecutedSlotsAreRight`, `LimitsAreKept`, `SlotsSucceedOnce`,
`CancellationsStop`. `VersionsAssumption` (a version names one definition) is an
assumption about who registers: `register` refuses another version and replaces
the definition without comparing the rest, so a definition that is changed
without a new version could lower a limit below the calls at work.

`AnalysisProofs`. How long a withdrawn key is used follows from `KeyInv`. A
refresh began at most `FetchTime` ago (`BegunBound`); an answer on its way lists
keys that were published after it was asked for (`BodyBound`); so a cached key
was withdrawn, if at all, at most `FetchTime` before it was stored, and is
forgotten `CacheTime` later (`CacheBound`). That a rotation is followed needs
`AbsenceNoted`: an answer without the key was given while the key was not
published. Theorems: `WithdrawnKeysExpire`, `RotationsAreFollowed`. Every step of
a request is a step of `KeyCache` or leaves the cache alone
(`RequestsUseKeyCache`), so that both hold of the composed system
(`RequestsAreAuthenticatedFreshly`). `PlaceInv` (a request past authentication
had a good token, one at the provider has consent, and an image whose event was
not tried is its handler's) gives `ImagesAreGoverned`.

`RatesAreBounded` counts admissions in any window, which no state of a limiter
records. `RateInv` turns the count into distances: of two admissions that are
`Spread` places apart, the first read the clock a window before the second was
decided, with `Spread` = `MaxEvents` in memory and `2 * MaxEvents - 1` with Redis.
In memory it follows because the log is the tail of the admissions, in the order
of the decisions and not of the times, and what was dropped is a window old when
it is dropped (`LogInv`). Since a time that was read may be older than the
decision, a window counts the checks that lie in it as a whole. With
Redis the counter knows its own window only; `CounterInv` adds that of the
admissions before it all but the latest `MaxEvents - 1` are a window older,
because the first event of the window before came when that window opened.
`RetryAfterIsEnough` uses that the moment at which the first event leaves the log,
or the counter's window ends, lies less than a thousandth or half a second after
every promise since the last admission; `Rounded` is the arithmetic of both
roundings, for any number of ticks in a second.

Only model-checked: the two liveness properties of `schedule_progress`, because
fairness and ENABLED are out of reach of the provers here, and the two documented
claims that the code violates (`AckMeansTerminal`, `LockReleased`). Every other
property of a run is a theorem.

## Not modelled, and the plan

Left to do, in order: an abstract specification of idempotent execution that
`RunService` implements, and one of an approval (requested, then decided once)
for `Approvals`, each with its refinement proved; the two promises of `Scheduler`
that a worker relies on (`ScheduleService` has its own `Trigger`) as a refinement
between the two modules.

Left out for good:

* contract validation and network rules: stateless checks of one document or
  address, in which nothing can interleave or fail half-way;
* cryptography, parsing and HTTP framing of tokens, MCP answers, model and vision
  requests: the models start from what was parsed;
* tracing and metrics: no decision depends on them (that exporting a span may
  fail is in `AgentRuntime`);
* bootstrap and CLI: configuration is read once at start; what it selects (store,
  limiter, authenticator) is a constant of the models;
* web console and operations scripts: one-shot I/O;
* the worker without a queue, and one that ends after a job: a single `trigger`;
* XAUTOCLAIM's bounded scan (`queue.py:256`): pending lists longer than its
  window are beyond an instance;
* the migration of old SQLite audit files, which runs once at start.
