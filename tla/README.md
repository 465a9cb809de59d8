# AB_Platform in TLA+

A specification of AB_Platform, as far as a model checker and a prover can say something
about it that a test would hardly reach: how users are assigned to variants, how
administrators change everything around an experiment at once, how results are
computed, judged and announced, how webhooks are delivered, how events get from an
application into the table, and who may do what. Every module is translated from the
code under `src/`; `PROJECT.json` maps each definition to the lines it stands for.

Contents: 1 the system, 2 the modules, 3 the runs, 4 bounds and fairness,
5 the proofs, 6 what is not modelled, 7 the plan.

## 1. The system

FastAPI processes and one arq worker share a PostgreSQL database (READ COMMITTED)
and a Redis; applications talk to them through an SDK. Three facts shape nearly
everything below:

- **A request commits after its response.** `get_db` (database.py:20) is a `yield`
  dependency, and the FastAPI version in use runs the code after the `yield` when the
  response has been sent. A client can act on an answer that is not yet in the table and
  may never be.
- **A request acts on what it has loaded.** A router loads a row, a service sets
  attributes, SQLAlchemy sends an UPDATE of the columns that differ from what was
  loaded. No row has a version; only some handlers lock.
- **A worker job does not commit at all** unless it says so: it opens a session with
  `AsyncSessionLocal()` and closes it. `snapshot_daily_results` and
  `create_monthly_partitions` call `commit`; `analyze_running_experiments` and
  `deliver_webhooks` do not.

Inside one process a request is a coroutine, which gives way at its `await`s only. The
Python SDK has real threads.

| Component | State | Operations | What must be right |
|---|---|---|---|
| Bucketing (`bucketing.py`) | none | `is_in_traffic`, `pick_variant` | every bucket gets a variant, in the shares asked for, whatever the order of the list |
| Assignment service (`assignment_service.py`, `redis_client.py`) | `assignments`; Redis `exp:*` (5 min) and `assign:*` (1 h) | `POST /assignments` | one variant per user for ever; what is shown is recorded; nobody gets in after the end once caches are gone; one experiment of a mutex group; holdout users stay out |
| Experiment lifecycle (`experiment_service.py`) | `experiments` row | create, `PATCH status`, `DELETE` | only the allowed moves; dates that fit the status; an experiment with users is kept |
| Decision log (`decision_service.py`) | `decisions`, `experiments.decision_status` | list, `POST` | the mirror is a logged outcome, the latest one while requests do not overlap |
| Results analysis (`analysis_service.py`, `routers/results.py`, `worker.py`) | `results`, Redis pub/sub, arq queue | `POST /analyze`, the hourly job | one bad experiment does not harm the others; an open page is up to date |
| Statistics engine and decision rules (`services/stats`, `guardrail_service.py`) | none | `analyze_experiment`, `interpret_experiment`, corrections | three queries tell one story; no winner against a guardrail; each winner is explained |
| Webhook delivery (`webhook_service.py`, `worker.py`) | `webhooks`, `webhook_deliveries`, arq jobs | `deliver_event`, CRUD | bounded retries that stop at success; no webhook blocks another |
| Feature flags and segments (`flag_service.py`, `segment_service.py`) | flags, rules, links | evaluate, CRUD, toggle | a kill switch holds; more rollout takes a flag from nobody; no rule refers to a segment that is gone |
| Holdouts, mutex groups | rows, exclusions, membership | CRUD, evaluate | an activated holdout stays active; see the assignment service |
| Custom metrics and guardrails (`custom_metric_service.py`, `guardrail_service.py`) | templates, metrics, guardrail configurations | CRUD, copy, preview | the preview is what the query counts; one guardrail of a kind per metric |
| Authentication and roles (`auth_service.py`, `rbac_service.py`, `dependencies.py`) | users, roles, tokens, SDK keys | register, login, assign, revoke | power comes from somebody who has it; who is deactivated is out by every door |
| Audit log (`audit_service.py`) | `audit_logs` | `log_action` in the caller's transaction | the log tells the rows |
| Events and partitions (`event_service.py`, `partition_manager.py`) | `events` and its partitions | ingest, create partitions | every event has a partition |
| SDK (`client.py`, `cache.py`) | event buffer, TTL cache | `get_flag`, `track_event`, `flush`, `close` | never raise; no event twice, none forgotten |
| AI interpretation, frontend, migrations | | | |

How they interact: an assignment reads the experiment (through Redis), the holdout,
the mutex group and the segments; analysis joins assignments with events through the
filters that metrics were given; the interpreter and the guardrails read its rows; it
publishes to the SSE stream that an open page listens to and puts `deliver_webhooks`
jobs into Redis for the worker; decisions, status changes and deletions share the row of
the experiment and its lock; every mutating request adds its audit row to its own
transaction; the SDK's flush thread posts what the threads of an application track.

The hard behaviour is in what overlaps: two requests of one user; a request and a status
change, with stale copies in two caches; two administrators with the same row loaded; an
analysis and a page that refetches before the commit; jobs that run again after a
crash; locks held by a job for as long as it lasts; threads at an unguarded cache; a
monthly job that has missed its month. And in rules that are written twice: the filters in
Python and in SQL, a flag alone and in a batch, the winner in the engine and in the
interpreter. `PROJECT.json` lists each hazard at its line with the properties that would
catch it.

## 2. The modules

| Module | Models | Shape |
|---|---|---|
| `Bucketing` | `is_in_traffic`, `pick_variant`, what `ExperimentCreate` accepts | operators. Splits are integers in hundredths of a percent, SHA-256 is any fixed bucket |
| `Filters` | the nine operators of rules and filters: `_match_rule` of segments and of the preview, the SQL of `build_filter_clause` | operators over abstract JSON values |
| `Flags` | `_resolve_rollout`, `evaluate_flag`, `evaluate_all`, holdout buckets, `matches_any_segment` | operators, on `Filters` |
| `Samples` | the three queries of the engine: conversion, revenue, ratio | operators, on `Filters` |
| `Verdict` | which test runs, Benjamini-Hochberg, guardrails, winners, insights, published events | operators; p-values and effects are inputs |
| `ExperimentStatus` | `ALLOWED_TRANSITIONS`; `MayBecome`, what becomes of it when updates overlap | operators |
| `Assignment` | `POST /assignments` over the two caches and the table | a request is a process, one action per `await`; `Commit` and `CommitFails` after the answer; TTLs; administrators |
| `StickyAssignment` | what the service promises a user: no caches, no requests | abstract specification |
| `ExperimentLifecycle`, `DecisionLog`, `ExperimentAdmin` | `PATCH status` and `DELETE` of one row; `POST decisions`; both by the same clients | load, validate, queue for the row lock, commit; the third composes the first two with INSTANCE |
| `ResultsAnalysis` | `run_and_save` under POST and under the hourly job, the SSE event, the page | one action per phase; versions stand for the facts and for what is computed from them |
| `WebhookDelivery` | `deliver_event` with its retries, under arq, against administrators | one action per attempt and per flush; `Crash` and `TimeOut` for arq |
| `Requests` | a mutating request: `Begin` loads, `Done` commits, `Fail` rolls back; what an UPDATE leaves in a column, what the audit row shows | shared by the next four |
| `Targeting` | flags and their rules, segments with rules and links, holdouts with exclusions; the audit log's story of each | one action per handler, twice: what it asks, what it commits |
| `Measures` | templates of metrics, metrics copied from them, guardrails | the same |
| `Backoffice` | administrators at work on all of it | composes `Targeting` and `Measures` |
| `Access` | users, roles, tokens, SDK keys | the same, with `Login` and `Expire`; `MCBackoffice` runs it beside the others |
| `SdkClient` | buffer and flush thread, cache of a flag, of the Python SDK | a thread is a process; one action per stretch under the lock, per call |
| `EventStore` | `events`, its partitions, the monthly job | one action per INSERT, per run of the job, per month |
| `Ingestion` | an application, the batch endpoint, the partitions and a flag that is switched | composes `SdkClient` and `EventStore` |
| `EventDelivery` | what the pipeline of events promises: no threads, buffers or requests | abstract specification |
| `MC...` | values and areas of work for TLC; `MCRules` asks the pure rules | |
| `...Proofs` | the theorems of section 5 | proofs |

Correspondence, where it is not one line to one line:

- `Assignment`. `req[r].at` is the place of a request in `get_or_create_assignment`.
  Checks between two awaits (`PassesStatus`, `PassesTraffic`, the pick) belong to the step
  before them. The experiment entry carries what is read back from it: whether the
  status was RUNNING, and the order of the variants as the database returned it, which
  may be any. Segments are a nondeterministic yes or no: the properties of a user arrive
  with the request. A request that misses the configuration loads the experiment with its
  holdout group, writes the cache and loads both again; the session keeps the objects of the
  first load, so the group is judged as it was then (`GroupHolds`). One that hits the cache
  reads the group when it gets there. `RecheckAndAnswer` contains the second read of the row in
  `_write_assignment_sync` and the response; the insert itself is flushed by the commit,
  where it may violate the unique constraint. `served` and `lost` are history.
- `ExperimentLifecycle`. `patch` holds the columns that the UPDATE will set: SQLAlchemy
  leaves out what did not change, so two overlapping starts do not agree on
  `started_at`. The DELETE is sent by the flush of the commit. A user that has been
  assigned refers to a variant by a foreign key without cascade, so the DELETE then fails.
- `DecisionLog`. `decided_at` is `datetime.utcnow()` at the first flush, before the
  lock is taken; `MirrorChanges` is SQLAlchemy's change detection.
- `ResultsAnalysis`. `owner[e]` is the session that has upserted the rows of `e` and
  not ended. All experiments of the hourly job share one session, so they stay
  locked until the job ends, and one failing statement aborts the transaction of all
  (`QueryFails`). An exception of the computation leaves the transaction as it is
  (`ComputationFails`): the job goes on, a POST is rolled back.
- `WebhookDelivery`. A flush that fails ends the job: the handler reads `webhook.id` of an
  expired object and raises again. A webhook that is `"paused"` is one the job's query
  leaves out: inactive, not subscribed, or not created yet. `send_test` changes no row, and
  a run keeps the URL and secret it has read; both are left out. The timeout of a POST is one
  of each read, so a receiver may hold a run for longer; `TimeOut` is arq's, which ends the job
  at any moment. `log` is what is committed of `webhook_deliveries`, `session` what a run has
  flushed.
- `Requests`. From the first write of a transaction to its commit its rows are locked and
  unseen, so flush, audit row and commit are one step, and other requests come between
  `Begin` and it. A request that is refused at once changes nothing and is no step. A new row
  gets the number of its request as id.
- `Targeting`. One key of each kind: deleted and created again it is a row with another id,
  and `StillThere` tells the two apart, as the WHERE of an UPDATE does. `told` is what a
  reader of the audit log knows of a resource: each audit row is applied to what the earlier
  ones said. `Column` is SQLAlchemy's change detection, `Shown` what the object in the
  session says.
- `Measures`. A body of an update sets any of its fields. The validations of
  `update_custom_metric` are kept in their order: the one for new filters sees the old
  denominator. `Readable` is `_filters_to_dict`, which reads attributes that the dictionaries of
  a row do not have; the row has them too once the filters of the same body are assigned.
- `Access`. Of the seeded roles there are the first user's and everybody else's; the others
  differ in their permissions only. `keys` carries who made a key and whether it has all
  scopes. Permissions are read when a request begins.
- `SdkClient`. `at[t]` is a thread's place. `_flush` copies and clears the buffer under the
  lock (`Take`) and posts without it (`Deliver`, `NotSent`); a POST that was stored but whose
  answer was lost is a `Deliver`. `Exit` is the end of the process, which waits for its own
  threads and not for the daemon. The default of `get_flag` is its `False`.
- `EventStore`. A month is `<<year, month>>`, a date is its month. `EnsurePartitions` is one
  transaction: PostgreSQL refuses a partition when the default partition has rows for it.
- `Filters`. A text is the set of its words and whether it is in capitals, enough for
  equality and for search with and without case. The answer of the SQL to an absent property
  is that of NULL: no for every operator but `not_in` with an empty list, which is yes.
- `Verdict`. An estimate is a p-value in thousandths, the sign of the effect and the relative
  lift; only the test of ratio metrics is calculated. A sample of one has up to two kinds of
  users. Where no linearised observation differs from another, the code divides zero by zero, or
  what rounding leaves by what rounding leaves: the p-value is an input there.

## 3. The runs

Passing runs:

| Run | Checks | Shows |
|---|---|---|
| `Rules` | `BucketsFollowSplits`, `PreviewMatchesQuery`, `RolloutOnlyGrows`, `CorrectionIsStepUp`, `SamplesAgree`, `WinnersAreExplained` | every bucket has a variant whatever the order of the list; on plain data (types that match, no `not_in []` on an absent field) the preview counts what the query does; more rollout takes a flag from nobody; the correction is the step-up procedure; the three queries agree; winners, insights and events fit together, and a guardrail that is broken stops them |
| `Assignment` | `Agreement`, `ServedIsWritten`, `MutexKept`, `StoppedStaysStopped`, `HoldoutKeepsOut`, `StickySpec`, `EventuallyDrained` | two overlapping requests of one user agree although nothing synchronises them, because the pick is a function of the bucket; what was shown is recorded, lost in a failure, or on its way; a stopped experiment takes nobody in once stale copies are gone, and they go; the service implements `StickyAssignment`; one request at a time, a user gets into one experiment of a group, and is shown two only when a write was lost after the answer |
| `ExperimentAdmin` | `DatesFollowStatus`, `EnrolledIsKept`, `MirrorIsLogged`, `SerialMirror`, `StatusMoves`, `SerialHistory` | what holds however requests overlap (an experiment does not return to draft; dates fit; users keep their experiment; the mirror is in the log) and what holds while they do not (completed is final, only drafts are deleted, the mirror is the latest) |
| `ResultsAnalysis` | `PageAtMostOneBehind`, `OthersAreAnalysed`, `PostsEnd` | the event before the commit costs a page one version at most; a failing experiment costs only itself unless it aborts the shared transaction; a POST that waits for the hourly job is answered |
| `WebhookDelivery` | `StopsAtSuccess`, `NoneIsBlocked`, `PausedMeansQuiet`, `JobsEnd` | with failing receivers, crashes and repeated runs |
| `Backoffice` | `TablesIntact`, `LogTellsRows`, `SwitchesHold`, `AccessIntact`, `NoPowerFromNowhere`, `OutIsOut` | nothing refers to what is gone; a PATCH that was loaded before a kill switch was thrown does not undo it; the audit log tells the rows as long as requests do not overlap; one founder unless registrations overlap; when the last administrator is gone, which nothing prevents, none comes back; a deactivated user begins nothing, whatever tokens and keys are left |
| `Ingestion` | `EventsAccounted`, `RaisesOnlyInRace`, `PartitionsAhead`, `OffStaysOff`, `DeliverySpec`, `BufferDrains` | an event is at one place and stored once; its batch is stored or given up as a whole, and for good; `get_flag` raises only when two threads meet at an expired entry; a flag that is off stays off once late answers are in; rows go to the default partition only after the job has not succeeded for three months or a date was far ahead; the buffer is emptied |

Runs in which the code does not do what its text says (`findings` quotes the text):

| Run | Property | What happens |
|---|---|---|
| `AssignmentMutexRace` | `MutexExclusive` | two requests of one user for two experiments of a group both pass the check before either commits |
| `LifecycleReopened` | `EachMoveIsAllowed` | of two overlapping updates the second overwrites the first: completed goes back to running |
| `HourlyLost` | `HourlySaves` | the hourly job ends well and everything it computed is rolled back |
| `RulesRatio` | `RatioDifferenceCounts` | each sample is linearised around its own ratio, both have the mean zero: the p-value is 1 however far the ratios are apart |
| `BackofficeFilters` | `ValidUpdatesPass` | new filters for one side of a template that has some on the other, or for both at once, are an AttributeError |

Each property of a passing run has a mutant of the code in `PROJECT.json` that
violates it: a definition named for the bug it contains stands before the one it replaces.

What the models also show, or what was met while writing them, without a run of its own:

- The assignment cache is answered before the holdout is looked at
  (`HoldoutKeepsOut` only speaks of users who are not in that cache, nor in a request that
  loaded the group before). Of two overlapping decisions the one that was inserted first may
  mirror last (`DecisionLog!MirrorInSync` holds without overlap only).
- Preview and query agree on plain data only (`Plain`). On a property that is absent,
  `not_in []` is true in SQL (`NULL <> ALL ('{}')`) and false in the preview; `True` equals 1
  for a rule, against what segment_service.py:18 says of types; and case matters to one of them only.
- Nobody commits webhook deliveries, for the reason `HourlyLost` shows: `log` stays empty,
  though they are flushed "so the log reflects all attempts" (webhook_service.py:369). A
  webhook that is deleted during a run makes its delivery fail and ends the run, so it does
  block the others (`FlushFails`; webhook_service.py:452 forbids it). A receiver that had an event
  before its worker died gets it again.
- Requests that overlap: two first registrations make two administrators (auth_service.py:85
  says one); two replacements of the rules of a segment leave the rules of both, since each
  deletes those it had loaded; a toggle to the value that was loaded writes nothing, so a kill
  switch that is thrown while another request switches the flag on is answered and leaves it on.
- A partial update of a template is validated only when it has filters: a new event or
  aggregation of the denominator alone may give a conversion a denominator.
- Two threads that find the same expired entry of the cache both delete it, and `get_flag`, which
  "never raises" (client.py:112), raises in the second.
- Deleting a segment makes the flag rules that named it rules for everyone (ON DELETE SET
  NULL). `rule.segment` is not loaded when one flag is evaluated, which then fails
  (flag_service.py:283; the "error" in `RolloutOnlyGrows`).
- Nothing keeps the last administrator. The default scopes of a key lack `flags:read`.
  Overlapping updates of a role merge their permissions (`Access!Replaced`).
- Two calls pass keyword arguments to a standard logger and raise (engine.py:651,
  analysis_service.py:240); the SRM test refuses splits that add up to 99.99 (srm.py:40,
  `SrmRuns`); the publisher looks for an insight the interpreter does not make
  (analysis_service.py:27); the JavaScript client ignores the answer to its batch
  (client.js:219); the daily snapshot and the hourly job start together at 01:00
  (worker.py:188); an SSE stream keeps its database session (sse.py:88).

## 4. Bounds and fairness

- **Assignment.** One user with two request slots: all properties of one experiment are
  about a single user, whose requests meet only each other and the administrators; slots
  are reused, so there is no bound on the number of requests. Two variants of 50 percent come
  in either order; the bucket of the user is the last of the first variant (49), where an
  off-by-one and a pick that goes by the order of the list show. The splits themselves are the
  subject of `Rules`. A behaviour is about one of the two experiments,
  with both slots, or about both of them, with one slot, and then nobody stops them and there are
  no holdouts (`MCAssignment!InScope`). `AssignmentMutexRace` has both experiments and both slots.
- **ExperimentAdmin.** Two clients, two outcomes and five readings of the clock: a start,
  a completion and three more, enough for two overlapping updates on top of a history.
  `MaxTime` bounds nothing else.
- **ResultsAnalysis.** Two experiments, one of them shown on an open page, one POST slot,
  the hourly job again and again; the facts of the shown experiment change twice (nothing,
  first results, results with an alarm), those of the other once.
- **WebhookDelivery.** Two webhooks, two jobs, `MaxAttempts = 2` where the code has 3, and
  two runs per job where arq allows five: what the properties tell apart is the first, a
  later and the last attempt of a webhook, and the first and a repeated run.
- **Backoffice.** Two clients and three requests: a history of one and two that overlap, or
  three that follow each other. One key of each kind, one condition, one experiment, one
  threshold beside the initial state; a few sets of rows to begin with, since those a short
  history could not make are the interesting ones. Accounts begin with an empty platform: two of
  them, one role besides the seeded ones, one SDK key (`FewKeys`) and five requests (register,
  register, give, take away, and one that overlaps). Roles that somebody makes or changes have
  the permission to manage users or none (`FewPermissions`): no other permission admits to
  anything in this model. A token ends while no request is under way (`RestfulExpiry`), which
  nothing can tell from an end during one, as a token is read when a request begins. A request only touches rows of its own
  area (targeting, holdouts, templates, guardrails, accounts), so a behaviour stays in one of them
  and the areas add up instead of multiplying (`MCBackoffice`). The bodies of an update of a
  template are many, so it is the second request (`FewUpdates`), on templates with and without
  filters of either side.
- **Ingestion.** Three threads and the timer, three events, batches of two (an explicit
  flush, a full batch and a rest), one flag, and eight months from November 2025 over the
  turn of the year: the job may fail until its lead is used up, and recover before or after.
  The buffer, the flag and the calendar share nothing but the place a thread is at, and a
  thread does one thing at a time, so each behaviour is about one of them (`MCIngestion`).
- **Rules.** The variable of `MCRules` is a question; its initial states are the questions
  asked. Splits around their boundaries with all buckets; filters on two fields with
  every operator; flags with up to two rules; two users with up to two events; up to four
  p-values; analyses of two metrics with up to three arms.

Clients and accounts are symmetric; no run with a temporal property that
needs fairness uses symmetry. `MaxRequests`, `MaxTime`, `MaxMonths`, `MaxFacts` and `MaxTries`
appear in guards only, `FewRequests` in a
conjunct of `MCBackoffice`, of the actions that would otherwise go on for ever.

Fairness:

- `Assignment!FairSpec`: a request in flight goes on (weak fairness of its steps; timeouts
  turn a hanging Redis or database into an exception), and a key with a TTL expires.
  Nothing is assumed of clients or administrators. `EventuallyDrained` needs it.
- `ResultsAnalysis!FairSpec`: strong fairness of the steps of a POST and of the hourly job.
  Both wait for row locks that come and go; PostgreSQL queues the waiters, so whoever waits
  gets the lock if it is released again and again. Failures are never forced.
- `WebhookDelivery!FairSpec`: the worker goes on with a job it has; arq's timeout is not
  relied on.
- `Ingestion!Spec`: each thread finishes what it has begun (a POST ends by its timeout if
  not otherwise), and the timer wakes. Nothing makes the application track, flush or close.

`CHECK_DEADLOCK FALSE` stands where a run may stop: the clock, the requests or the months are
used up, all jobs are done, the process has ended, the experiment is deleted, a question is
answered. Assignments never stop and are checked for deadlock.

## 5. The proofs

Each theorem holds for every value of the constants; the runs show the same formula on a
small instance first.

| Module | Theorem | Establishes |
|---|---|---|
| `AssignmentProofs` | `TypeCorrect` | `TypeOK`: a request only carries variants of its own experiment |
| | `AllCopiesAgree` | `Agreement`: all copies of the variant of a pair are the one its bucket selects |
| | `OneVariant`, `CacheIsRight` | a user is shown one variant; the cache does not contradict the table |
| | `NothingUnwritten` | `ServedIsWritten` |
| | `ImplementsSticky` | `StickySpec`: initial states and steps map to those of `StickyAssignment` or stutter |
| | `StoppedExperimentsStayStopped`, `HoldoutsKeepOut` | `StoppedStaysStopped`, `HoldoutKeepsOut`, action properties |
| | `MutexGroupsAreKept` | `MutexKept`, of the behaviours in which requests come one at a time |
| `WebhookProofs` | `TypeCorrect` | `TypeOK` |
| | `RetriesStop` | `StopsAtSuccess` |
| | `NobodyBlocks`, `PauseIsKept` | `NoneIsBlocked`, `PausedMeansQuiet`, action properties |
| `AdminProofs` | `TypeCorrect` | `TypeOK` |
| | `DatesAreRight`, `MirrorIsRight` | `DatesFollowStatus`, `MirrorIsLogged` |
| | `StatusMovesOn` | `StatusMoves`, an action property |
| | `EnrolledAreKept`, `MirrorOfTheLast` | `EnrolledIsKept`, `SerialMirror` |
| | `SerialHistoryIsRight` | `SerialHistory`, an action property |
| `ResultsProofs` | `TypeCorrect` | `TypeOK` |
| | `PageKeepsUp` | `PageAtMostOneBehind` |
| | `OthersGoOn` | `OthersAreAnalysed`, an action property |
| `AccessProofs` | `TablesAreIntact` | `AccessIntact` |
| | `PowerHasASource`, `OutStaysOut` | `NoPowerFromNowhere`, `OutIsOut`, action properties |
| `BackofficeProofs` | `TablesAreIntact` | `TablesIntact` |
| | `SerialLogIsRight` | `LogTellsRows` |
| | `SwitchesStay` | `SwitchesHold`, an action property |
| `IngestionProofs` | `EventsAreAccounted`, `RaisesInRaceOnly` | `EventsAccounted`, `RaisesOnlyInRace` |
| | `PartitionsAreAhead` | `PartitionsAhead` |
| | `ImplementsDelivery` | `DeliverySpec`: every step is one of `EventDelivery` or stutters |
| | `OffIsOff` | `OffStaysOff`, an action property |
| `RulesProofs` | `BucketsGoBySplits` | `pick_variant` for any variants with splits that `validate_splits` lets pass, in any order |
| | `PreviewIsTheQuery` | preview, segment and query of any filters on any properties |
| | `RaisingTakesFromNobody`, `DefaultsDisturbNoSegment`, `AloneAsInBatch` | `_resolve_rollout` of any flag with any rules |
| | `CorrectionStepsUp` | `benjamini_hochberg` of any p-values, with ties |
| | `QueriesAgree` | the three queries over any users and events |
| | `WinnersHaveReasons` | engine, interpreter and publisher on any analysis |
| | `BucketsAlwaysFollowSplits`, `PreviewsMatchQueries`, `RolloutsOnlyGrow`, `CorrectionsStepUp`, `SamplesAlwaysAgree`, `WinnersAreAlwaysExplained` | the six invariants of `Rules`, each from the theorem above |

The type invariants of `Assignment`, `WebhookDelivery`, `ExperimentAdmin` and `ResultsAnalysis`
are proved and in no run; the proof modules of the others carry their own as a part of `IInv`.

What is assumed of the constants: experiments are what `create_experiment` accepts
(`ExperimentsAreValid`: at least two variants with distinct names, splits that add up within
the tolerance), buckets, traffic and groups are functions of the right kind
(`AssignmentAssumption`), there is at least one attempt and one run (`DeliveryAssumption`),
and bounds are numbers and the names for nothing are no values
(`AdminAssumption`, `AnalysisAssumption`, `RequestsAssumption`, `TargetingAssumption`,
`MeasuresAssumption`, `AccessAssumption`, `SdkAssumption`, `StoreAssumption`,
`NoVariantIsNoName`, `NoValueIsNoNumber`).

**Assignments.** Nothing in the service keeps two requests of a user from picking at the
same time, so the proof cannot be about mutual exclusion: it is that they pick the same.
`PickVariant` depends on the set of variants and not on their order (the shares are the
subject of `BucketsFollowSplits`), so
`Choice(p)` is well defined, and `Agreement` says that whatever is picked, cached, recorded,
shown or carried by a request is `Choice(p)`. It is inductive together with `TypeOK`: a
request gets its variant from the pick, from the row or from the cache, and each of them
satisfies it. That a user is shown one variant and that Redis and the table agree follow at
once. Refinement needs more: a pair must not be recorded before it is shown in the abstract
specification, although the service writes the cache, answers and commits in an order of its
own. `ShownBeforeRecorded` supplies it. `ServedIsWritten` needs the requests in flight: a
request that finds a row to be there and skips the insert relies on the one that wrote it.
`StoppedStaysStopped` and `HoldoutKeepsOut` say that a condition on the caches and on the
requests in flight (for the holdout also on what they have loaded of the group) is kept: which steps follow a check (`AfterStatusIs`), and what a request
(`StepWrites`) and everything else (`OtherSteps`) may write.
`MutexKept` is false when requests of a user overlap, which `AssignmentMutexRace` shows; the
theorem assumes that they do not (`[]OneAtATime`), as in every behaviour of
`Assignment` that is about two experiments and has one slot. Requests of different users may overlap. A request
past the check of the group still finds its user in no other experiment of it (`NoConflict`).

**Webhooks.** `IInv` ties the place of a run in its two loops to what it has posted: nothing
to the webhooks left over, only failures, one less than the attempt or as many as it, to the
one at hand, and a success or `MaxAttempts` failures to the rest of the list.
`StopsAtSuccess` is not inductive without it: that a new attempt is allowed follows from what
the earlier ones were answered.

**Administration.** A request validates against the row it loaded, and the row may be another
one when its UPDATE gets the lock. What it may go on relying on is little, and the invariant
states it request by request: a start date that was there is still there (so a status that
left draft has not returned), a request that does not stamp the start date found one, the
holder of the lock knows the row, and a mirror that was set when a POST began is set when it
commits, unless the experiment is gone. What holds without overlap is an invariant of its own
(`SInv == IInv /\ (~overlap => Serial)`): the one request there is knows the row and the log as
they are (`SeesRow`, `SeesLog`), an end date stands for the end (`EndOK`), and the mirror is that
of the latest decision (`LogOK`). `overlap` is never reset, so a state without overlap comes
from one without.

**Results.** From its upsert to its commit a session has the rows of its experiment locked
(`LocksHeld`), so between an event and the commit it announces no other session commits a
version of the same experiment. A page that was disconnected knows that it has missed
something (`MissedWhenDown`), and one that has refetched while a session holds the rows has
what was committed before it (`FetchedSince`). For `OthersGoOn`, as long as its
transaction has not been aborted, the job has dropped nothing but the experiments that failed.

**Access.** A request uses permissions and rows from when it began, so most of what it saw
may be gone; what it can rely on is that accounts and roles do not disappear, and, while no
requests overlap, that a registration that counted nobody is the first. `NoPowerFromNowhere`
and `OutIsOut` say that a condition is kept: who could begin a request at all under the
condition (`WhoBegins`), and that no request of that kind is in flight.

**Backoffice.** Between `Begin` and `Done` others write the same rows. What each kind of
request still knows is collected in `AskOK`: the body it was sent, and that the row it loaded
was of a certain shape; new ids are nobody's (`IdsOK`); and without overlap it
is alone (`AloneOK`). `SwitchesHold` then rests on change detection:
`Column` writes nothing that was not set. For `LogTellsRows` (`SerialInv`): without overlap the
one request in flight has loaded the rows and rules as they are, the numbers of rules are
distinct and below that of the request, and the log's story is the story of the tables. The
number of rules appears in the audit row, so adding, removing and replacing them is counted;
that needs a body to name finitely many, which `RuleLists` says.

**Ingestion.** An event has one place (`Once`), because a batch belongs to the thread that is
posting it (`BatchesOK`) and the buffer is emptied in the same step. Counting the places, which
`EventsAccounted` does, needs facts on finite sets. The same places give the refinement: an
event waits while it is in the buffer or in a batch, so `Take` stutters, `Deliver` stores the
batch, a failure or the end of the process gives it up. Until two threads have met at an entry, at
most one is about to delete it, and it is there (`CacheOK`). `PartitionsAhead` is about the
calendar: as long as the job is not late, every month from the first to three after its last
success has a partition (`PartitionsOK`). Months are numbered; that `MonthsAhead`, a recursive
function, yields as many consecutive numbers as it is asked for is shown by giving the solution
of its recursion (`MonthsInARow`).

**Rules.** The operators are proved about for all their inputs first, then the six invariants,
from the lemma that an answer belongs to its question (`AnswersStand`). What is asked of the
inputs is what the code makes sure of or what its types say: splits are positive, add up within
the tolerance and have distinct names (`AreVariants`, as `ExperimentCreate` and the unique
constraint have it); the rules of a flag differ in the order of their load and have integer
priorities (`AreRules`); users are finitely many (`AreUsers`); p-values are thousandths
(`ArePValues`); filters have one of the nine operators and values are scalars or lists of them
(`IsFilter`, `IsProps`). Where a proof on
paper would go by induction (the sum over the variants, the sorting of p-values, the first rule
in the order), the proof takes a smallest counterexample among the natural numbers and removes
one element from it. So the fold of `pick_variant` is shown to have a solution, one that does
not depend on the set it is solved for or on the order in which elements are taken, and to grow
with the set; the buckets of a variant are then the whole percents between the sum of those
ahead of it and its own cumulative split, which are as many as its split says to within one.

Only model-checked: liveness, that is `EventuallyDrained`, `PostsEnd`, `JobsEnd` and
`BufferDrains`. The prover has no rules for fairness or ENABLED. Every invariant and every
action property of the passing runs is stated by a theorem, `MutexKept` under the hypothesis
named above.

## 6. What is not modelled

- An experiment that is deleted while its configuration stays in the cache, and mutex
  groups that change or disappear: in `Assignment`, holdout membership is the only relation
  that changes.
- Numerics: t-tests, mSPRT, CUPED, bootstrap and the size calculator compute reals.
  `Verdict` takes their p-values and effects as given.
- `get_flags` for several keys and the JavaScript client: neither keeps state the Python
  client's `get_flag` and buffer do not have. An event tracked by a thread while or after
  another closes is in the model, as an event left in the buffer.
- The daily snapshot. It copies what is in `results`, and the hourly job does not commit.
- Roles other than the first user's, everybody else's and custom ones; the read-only endpoints, CSV
  export, AI text, the forms of the frontend; audit rows of experiments and metrics.
- Migrations other than the ones that define constraints the models use, and deployment.
- The pool of database connections; the backoff of webhooks, which only takes time, and the
  signature of their bodies.
- That an analysis which read earlier may overwrite the results of one which read later. The
  model of `ResultsAnalysis` does it; the code promises nothing against it, so no property
  is stated.

`components` in `PROJECT.json` has the reason for each part.

## 7. The plan

Done: assignment, administration, analysis and delivery, SDK and events, targeting, metrics
and guardrails, access, the pure rules. What would come next, in this order:

1. The membership of holdouts and mutex groups in one specification: `Targeting` has
   activation, exclusions and buckets, `Assignment` has a relation that changes; the first
   should refine `ChangeHoldout` of the second, and CRUD of groups belongs beside it.
2. The publisher of `Verdict` composed with `ResultsAnalysis` and `WebhookDelivery`: from an
   insight to the receiver, including the event that is published before the commit.
3. The daily snapshot beside the hourly job, once one of them commits.
