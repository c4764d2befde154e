# TLA+ for "DB Monitoring"

A verification project for the Flask application in this repository: a
multi-tenant monitor that collects data-quality metrics from its users'
databases on a schedule, detects anomalies, schema and distribution drift, and
reports them on a dashboard and by Telegram.

## 1. Inventory

All persistent state but model files and one key is one SQL database, the
*metrics store* (SQLite locally, Postgres/Timescale in production);
`app/metrics_storage.py` holds nearly every query.  One process
(`python -m app.app`) serves HTTP with several threads and runs an APScheduler
`BackgroundScheduler` whose job store is memory.  Threads of both kinds share
the database and little else, so interleavings are at the granularity of a
transaction, of a call on the scheduler, of a file operation, or of a call over
the network.

| Component | State | Operations | What makes it correct |
|---|---|---|---|
| Connection scheduling (`collectors/per_project.py`, `collectors/scheduler.py`, `app/connections.py`, `app/app.py`) | `connections`, job store, `collector_runs` | create, toggle, delete, run now, delete project, boot, crash, tick | jobs = active connections; runs are opened once and closed once; nothing is written for what is deleted; one scheduler |
| Tick body (`collectors/per_project.py`) | counters of a run, table rows | list, filter, collect, time out, abort | the run's totals agree with its rows; every table is accounted for |
| Global tick and nightly jobs (`collectors/scheduler.py`) | how far a job has come | collect, retrain, score, detect | one project's failure costs the others nothing |
| Adapters and metrics collector (`app/db.py`, `collectors/metrics_collector.py`) | context overrides of threads; a batch of metrics | read, count, sample, estimate, save, show | a read reaches its own database; a rate is a rate, and says how it was got |
| Connection editor and probe (`app/connections.py`) | columns of a connection, last probe | create, edit, test, delete | settings fit the dialect; the probe shown is about the stored DSN and foretells the tick |
| Encryption (`app/crypto.py`) | the key in memory, in `.env.local` | load, generate, encrypt | what was encrypted stays readable |
| Accounts (`app/auth.py`) | `users`, `password_reset_tokens`, `failed_login_attempts` | register, login, lockout, forgot, reset, purge | a token resets once; only the latest works; a lockout is earned |
| Projects and sessions (`app/projects.py`, `app/app.py`) | `projects`, `project_members`, `project_invites`; the cookie | create, invite, accept, add, remove, delete, switch | one owner always; an invitation is used once; a page shows a project of its user |
| Published inference (`app/inference_adapter.py`, `app/source_storage.py`) | `anomaly_scores`, throttle | check, predict, claim, alert | one alert per result; no alert for old history |
| Inference service (`inference/service.py`) | model cache, load locks | authorize, resolve, load, answer | nothing rotten or inadmissible is served; a model is loaded once |
| Model registry (`ml/model_registry.py`) | directories of versions, pointers | stage, inspect, activate, load | a version appears whole or not at all |
| Schema drift, change-points (`collectors/schema_collector.py`, `ml/changepoint.py`) | snapshots, events, `changepoints` | diff, save, replace | every stored change is explained; one point per shift |
| Notifications (`app/notifications/telegram.py`, `app/settings.py`) | settings, audit trail, throttle | check, send, record, stamp | to the project's own chat, as often as it asked |
| Fitted models (`ml/forecast.py`, `ml/anomaly_detector.py`) | model files | train, dump, load, predict | what is served is fresh and whole |
| Explanations (`app/llm.py`, `app/api.py`) | `llm_explanations` | resolve, ask, fall back, cache | an explanation rests on its own source's data |
| History and overview (`app/metrics_storage.py`, `app/dashboard.py`, `ml/drift.py`) | metrics, verdicts, drift report | aggregate, judge, purge | pages do not contradict each other; events stay while their day is shown |
| Store bootstrap (`app/metrics_storage.py`) | the schema | migrate, rebuild, apply | no row lost; complete when used; resumable |
| Copy to Timescale (`scripts/migrate_metrics_to_timescale.py`) | the target store | truncate, batch, commit | a completed run has brought what it read |
| Offline models, templates, masking, logging, health, operators' and demo scripts | none a checker reaches | | section 6 |

How the components interact: an HTTP handler (`connections.py`, `projects.py`,
`auth.py`) writes the store and, for connections, calls the scheduler; the
scheduler starts `collect_for_connection` in a thread of its pool; a tick reads
its connection once, overrides the engine of its context, writes its run, its
tables and their metrics, and then calls the schema collector, the drift report
and the scoring of `inference_adapter.py`, which calls the inference service
over HTTP, and that reads the registry on disk.  Alerts go to Telegram over
HTTP.  The nightly jobs train, score again, write change-points, and purge old
rows.  Pages read what all of them have left.

Hard behaviours: handlers that check in one transaction and act in another,
ticks that outlive the rows they work on, crashes between a commit and a call
on the in-memory scheduler, the Werkzeug reloader's two processes, timeouts of
metadata calls and the threads they leave, one-time tokens and counters under
concurrent requests, results claimed by several workers at once, files that are
written while they are read, migrations that stop half way, clocks and windows.
`PROJECT.json` lists them one by one under "hazards", with the line where each
bites and the properties that watch it.

## 2. Modules

| Module | Component | What a step is |
|---|---|---|
| `RunLog` | abstract specification of `collector_runs` | one change of the log |
| `ConnectionScheduling` | connections, scheduler, processes, ticks | one transaction on the store or one call on the scheduler |
| `CollectorTick` | the body of one tick | one call on the monitored database, or one write |
| `GlobalJobs` | the jobs that visit every project | one table, one project or one stage of a job |
| `LiveReads` | whose database a read reaches | entering or leaving a block, one read |
| `TableReads` | what is measured and shown of a table | one query of a tick or of a page |
| `ConnectionEditor` | creation, editor, operator's script | one transaction of a request |
| `ConnectionProbe` | the readers of one connection's row | reading the row, one answer |
| `FernetKey` | the key of the secrets | one step of `_get_fernet` |
| `PasswordReset` | forgot and reset password | one transaction of a request |
| `Login` | registration, login, lockout, purge | one transaction of a request |
| `ProjectAccess` | projects, members, invitations | one transaction of a request |
| `Sessions` | the browser's current project, on top of `ProjectAccess` | one look-up of a request, its response |
| `PublishedInference` | scoring by a published model, and its alert | one query or one call over the network |
| `VersionStore` | abstract specification of the registry | a version appears, a file goes bad |
| `ModelRegistry` | staging and activation on disk | one write or one rename |
| `InferenceService` | the service and its cache, on top of `VersionStore` | what a lock or a file separates |
| `SchemaHistory` | snapshots and events of a schema | one transaction of a tick |
| `ChangepointStore` | detection and storage of change-points | one detection, one transaction |
| `Alerts` | drift and change-point alerts, and settings | one query, one sending, one write |
| `ModelFiles` | forecasts and detectors in files | one read, opening and closing a file |
| `Explanations` | explanations and their cache | one look-up, one call of the model |
| `History` | what pages make of stored metrics | one write of a tick, a purge, time |
| `StoreBootstrap` | migrations | one transaction |
| `StoreTransfer` | the copy to another store | one batch, one write of the application |
| `MetricsStore` | both ways to a metrics store | those of the two modules above |
| `Forms` | the forms of an account and of a connection | those of `PasswordReset`, `Login`, `ConnectionEditor` |
| `Absent` | `None`, shared | |
| `MC...` | instances for TLC | |
| `..._proofs` | theorems, by part of the system: `ConnectionScheduling`, `Collection` (ticks, jobs, reads, measures, pages, store), `Forms` (reset, login, editor, probe, key), `Projects` (with sessions), `PublishedInference`, `Serving` (registry, service), `Results` (schema, explanations, alerts, models, change-points) |
| `Induction_proofs` | induction over numbers and finite sets, functions by recursion, sums | |

Definitions keep the names of the code where TLA+ allows it; the map in
`PROJECT.json` gives the lines each one stands for.  An operator whose comment
begins with "Mutant:" is not part of a specification: it is the definition next
to it with a plausible bug, kept to show that a property can fail.

Two abstract specifications are implemented by detailed modules: `RunLog` by
`ConnectionScheduling` (`log <- runs`), whose ticks open and close a run in one
step each (`CollectorTick` is what lies between, up to the closing one);
`VersionStore` by `ModelRegistry` (its files and renames map to whole versions),
so that `InferenceService` is checked over the abstract store only, and
`Sessions` composes with `ProjectAccess` itself.

### ConnectionScheduling

State: the tables `projects`, `connections` (`row`), `collector_runs` (`runs`),
and, as `data`, whether a project has rows in the tables that carry a project id
without a foreign key; per process, how far `create_app` has come (`proc`,
`stale`), its interval jobs and pending one-shot jobs; the local state of every
tick and of every HTTP thread.

Actions: `BootSelectStale`, `BootCloseStale`, `BootRegisterJobs`,
`BootRegisterFails` are the steps of a start (`create_app`, the sweep
`cleanup_stale_collector_runs`, `register_jobs_for_all_active_connections`, and
the `except` of `start_scheduler`); `CreateConnection`, `LookUp`, `ToggleRow`,
`DeleteRow`, `SyncJob`, `RunNow`, `DeleteProject` the handlers; `FireInterval`,
`FireManual`, `Misfire` the scheduler (`max_instances=1` is the guard
`Running` of interval jobs; every "run now" is a job of its own, which runs
once or, if it is too late, is dropped);
`TickFetch` ... `TickReport` the tick; `Crash` stops a process with its jobs
and ticks.

What decides between one and two schedulers is `FlaskDebug`: `app.run` reads
the environment variable `FLASK_DEBUG` with the default `"1"`, while `app.debug`
inside `create_app` is Flask's own reading of it, off by default.

### CollectorTick and GlobalJobs

`collect_for_connection` from the point where its adapter is built: namespaces
are listed, the list is filtered by `_apply_table_filters` (allowlist, denylist,
cap, in that order), dropped tables are logged as skipped, each other table has
its size checked, is scanned, has its schema collected and is logged; the run is
closed by the `finally` clause.  `Submit`, `WorkerEnds`, `BudgetEnds` and `Back`
are `_run_with_timeout`: the call runs in a worker thread, the budget may end
before it, and the tick is back only when the `with` block of the executor lets
it out.  The data are tables (numbers, in name order) and how many metrics one
yields.

`GlobalJobs` is how far `collect_all_tables`, `retrain_forecasts`,
`retrain_anomaly_detectors` and `detect_changepoints` get: a job has stages,
each of which goes through projects and their tables, and each failure is caught
where the code catches it, or ends the job.  The global database comes and goes.

### LiveReads and TableReads

`LiveReads` has, for each thread, the two context variables of `app/db.py`.
`EnterBlock` and `EndBlock` are `using_engine` and its `finally`; a tick reads
in its own thread or in a worker (`_run_with_timeout`), which starts with the
context that `SeenByWorker` gives it; a page reads through an adapter of its
own; the sweep of the global job without any override.  Threads are reused.

`TableReads` is one measurement after another of one table: `ReadStats`,
`ReadColumns`, then by dialect and mode `CountNulls`, `SampleNulls`,
`ReadFractions` (planner statistics) or `ReadManifests` (Iceberg), and
`SaveBatch`; between any two queries rows and columns change.  `OpenPage`,
`ShowRate`, `ShowCounts` are the table's page with its badge.

### ConnectionEditor, ConnectionProbe and FernetKey

One connection's row and the requests on it.  An edit reads the row (`Open`),
commits name and DSN (`SaveBasics`, `update_connection_basics`), may refuse the
rest of the form (`Reject`), commits the settings (`SaveSettings`,
`update_connection_safety`) and probes the DSN if it changed (`PersistProbe`).
`BreakOff` is a request that ends between two of these transactions: a statement or
the probe raises, or the process dies.  `OperatorPatch` is
`scripts/set_connection_safety.py`.

`ConnectionProbe` puts the three readers of a row next to each other: the test
button, the tick and the page.  Each reads the row and decides by its own rules
which schema, namespaces, warehouse and token it uses (`PlacesOf`), and is then answered by
the source, which may have changed, as the row and the key may.  `answers` is
cleared by every change: what is compared was answered by the same world.

`FernetKey` is `_get_fernet` with its double-checked lock, `_load_key` with its
three places, the writing of a generated key to `.env.local` and processes that
start over; `Encrypt` is any use.

### PasswordReset and Login

`Forgot`, `InvalidateEarlier`, `Mint`, `Mail` are `forgot_password`; `Submit`,
`Consume` or `Refuse`, `UpdatePassword`, `InvalidateRest` are `reset_password`;
`Expire` is the TTL, and `Die` a request that fails between two transactions.
The history variables (`minted`, `superseded`, `overlapped`, `died`) decide
nothing; properties speak about them.

In `Login`, the clock, the failures of each address per instant, and requests
that count (`Admit`), verify, and record (`Succeed`, `Fail`) in separate
transactions.  A locked address is refused before anything is recorded: it has
no action, since it changes nothing.

### ProjectAccess and Sessions

The tables `projects`, `project_members` and `project_invites`, and the requests
on them.  `Create`, `Insert` are `new_project` and `create_project`; `Resolve`,
`CheckRole` are what every owner's request begins with (`_require_role`), after
which `ReadRole`, `Upsert` add a member or change a role, `GuardOwner`, `Remove`
remove one, `Mint` stores an invitation and `Delete` the project's end, with the
rows its foreign keys cascade to.  `Click`, `CheckMember`, `Claim` are
`accept_invite` up to the conditional UPDATE of `consume_invite`, which goes on
with `ReadRole` and `Upsert`.  `Script` is `scripts/add_project_member.py`,
`RefuseOrphan` a foreign key at work, `Die` a request that fails half way, and
`Expire` the TTL.  Ids and tokens are random in the code: here each is labelled
with the owner and slug, or the project and role, it will be created for.

`Sessions` adds a browser: a cookie, tabs whose requests carry the cookie of
their start and replace it when they are answered (the last response wins, as
with Flask's client-side sessions), and logins of other users in the same
browser.  Every request first loads the user's projects and checks the choice
(`LoadCurrent`), then resolves the slug in its address or the current project,
reads the page, and responds.  The handlers of `ProjectAccess` run meanwhile,
one of them perhaps from the same browser (`ChosenByHandler`).

### PublishedInference, the registry and the service

One source.  `Start`, `ReadScores`, `ReadFloor`, `Answer`, `Skip`, `Fail`,
`Claim` are `score_source` (a pass over every observation that has no score of
the version) and `predict` (an editor's single observation); `CheckNewest`,
`CheckThrottle`, `Send`, `UpdateThrottle` are `_alert_new_event` and
`notify_anomaly`.  `Claim` is `insert_prediction`, the `INSERT ... ON CONFLICT
DO NOTHING` whose row count tells the one call that may alert.  `Fail` is a service, or an
`insert_prediction`, that fails in mid-pass: the `finally` of the pass still
alerts.  The environment
advances the clock, collects observations, and binds the source to another
version.

In `VersionStore` a version is what its manifest says it is (`Bundle`), and how
its training was started (`OriginCheck`: the nightly job does not look at the
tree); it appears at once and complete, and its files may go bad.  Every load
compares the scikit-learn of its training with the one `installed`, which
`Upgrade` replaces.  `ModelRegistry` stages
a version file by file in a temporary directory, renames it, verifies, and
replaces a pointer by a rename; commands race, fail and die anywhere.
`InferenceService` answers requests that are faulty in any of the ways the code
tells apart; `ChooseLock` ... `Store` are the per-model lock, which is found
through a weak reference and so ends with its last holder, and the cache.

### Results

`SchemaHistory`: `ReadColumns`, `SaveSourceSnapshot`, `Compare`, `SaveEvents`,
`SaveSnapshot` are one tick's transactions; `Abandon` ends it anywhere.  The
stored snapshot is shared by every table of that name in a project.

`ChangepointStore`: `DetectChangepoints` makes of proposed points what the
detection emits (strong enough, one per run of close ones), `StoreChangepoints`
one transaction that lets a stronger point replace a stored one of the same
direction within 72 hours.

`Alerts`: jobs `Start`; the drift job first collects the global database, for as
long as that takes (`ListProjects` ends it), and fails without one (`FailTurn`); a
turn that falls due meanwhile is skipped (`SkipTurn`).  Jobs then go from project to
project, read the settings, the events of a window of tables with metrics (`Looks`)
and the throttle, send, write the audit row, and stamp the throttle; `SaveConfig`,
`Disable`, `RotateKey` and `Crash` come between.

`ModelFiles`: a worker reads the change-points, then the points, fits, opens the
file (which truncates it), and closes it; another may load it meanwhile and find
it torn.  A request loads, judges freshness, and trains if need be; a forecast whose
file cannot be read back afterwards makes do with a `Line`.  Points and
change-points expire from what is read (`Points`, `LastShift`); `RecordShift`
replaces the newest change-point by a later one, or by a stronger one a little
earlier.

`Explanations`: `Handle` is one request, look-up by look-up: the connection, its
state, the context, the owners of results, the cache, the calls of the language
model with their retries, and the fallback.

### History, StoreBootstrap, StoreTransfer

`History` follows ticks of two connections (`TickNext`) over days, with the
purge; `HistoryRows`, `Daily`, `Line`, `Growths`, `StatusShown`, `Counted` are
what the pages compute, and `report` is the cached drift.

`StoreBootstrap` has the tables, their keys, the columns that migrations add and
whose rows they hold.  A thread's boot goes through the phases of `get_engine`
under its process's lock and, on PostgreSQL, the advisory lock; a phase is one
transaction, each guarded by what it finds.  Every earlier release and every
half-way state is reached from the initial ones by failures and crashes.

`StoreTransfer` reads one table after another row by row and writes batches,
with a commit after every few; the application writes to the source meanwhile;
a run may fail anywhere and the next may or may not truncate first.

## 3. Runs

| Run | Instance | What it shows |
|---|---|---|
| `scheduling_race` | 1 connection, 2 ticks, 2 requests at once, 1 one-shot job, 1 crash, failing writes | runs have owners, deletion wins over a late job, `RunLog` is implemented |
| `scheduling_live` | `FLASK_DEBUG=1`, 2 connections in 2 projects, 1 tick, 1 request at a time, 2 crashes | one scheduler; the sweep closes exactly the dead runs; jobs and rows agree between requests; every run is closed, every active connection gets scheduled |
| `scheduling_purge_race` | 1 tick, 1 deletion of its project | violated: the tick writes rows of the deleted project |
| `collection` | *tick*: 3 tables, every allowlist, denylist, cap and size limit, none to two namespaces, any call or write late or failing. *jobs*: 2 projects, 2 tables, a global database that comes and goes. *boot*: 3 threads of 2 processes, every earlier release, 1 failure or crash. *transfer*: 3 records, batches of 2, 2 runs. *pages*: 2 connections, two ticks a day, days 0 to 4. *reads*: 3 databases, a tick, a page, the global job and 2 pooled threads. *measure*: 2 rows, 1 column, 4 dialects | the totals of a tick agree with its rows and it returns; a job's failure stays where it arose; the store comes up, whole; a copy has brought what it read; pages do not contradict each other and keep the events of the days they show; reads stay in their database; rates are rates |
| `tick_stuck` | a metadata call that never ends | violated: its budget does not free the tick |
| `tenants` | no global database | violated: the legacy project ends the nightly job for all |
| `status_error` | a tick that fails after one that did not | violated: the overview says that all is calm |
| `forms` | *reset*: 2 users, 3 links, 2 requests. *login*: 2 addresses, 2 requests, threshold 2, a window of 1, clock to 3. *editor*: 2 editors, a Postgres and an Iceberg DSN, requests that die. *probe*: 4 backends, 9 rows, of which 3 have an allowlist, 1 edit. *key*: 3 threads of 2 programs, 4 keys | a link resets once and the latest works; a lockout is earned, bounded and survives the purge; deleted stays deleted and settings fit the dialect; what the probe says is what a tick finds where it looks; secrets stay readable |
| `project_access` | 3 users, 2 projects under one slug of one of them, 1 invitation, 2 requests at once, deletion, expiry, dying requests, a browser with 1 tab | one owner, lasting authority, invitations that admit one user and are not used up in vain, nothing stored for what was deleted, pages of the user's own projects |
| `inference` | 2 workers, 2 versions, 2 calls, 5 instants | one alert per result, only about news; owed ones sent, and apart |
| `serving` | *registry*: 3 versions, 2 operators, 1 file that goes bad, 2 releases of the library. *service*: 3 threads, a cache of 1 | the registry implements `VersionStore`; what is served was checked and loaded once |
| `results` | *schema*: 2 collectors of tables of one name. *change-points*: 3 instants, all detections. *alerts*: 2 projects, with and without metrics, 2 chats, a job every 2 of 7 instants whose turns take up to its interval. *models*: 2 workers, 4 hours, 2 change-points. *explanations*: 1 request, 2 connections and rows of nobody | every stored change is explained, alerts reach the right chat as often as asked, regular turns miss no drift, one point per shift, trained models are fresh and not fitted across a drop, explanations rest on their source's data; columns are noticed and requests end |

`MCCollection`, `MCForms`, `MCServing` and `MCResults` hold components that
share no state.  A variable `focus`, chosen at the start, says which one a
behaviour exercises; the others stay in one initial state.  A property of one
component speaks of the variables of that component only, so nothing is lost,
and the states add up instead of multiplying.  Where components do interact, the
modules compose: `Sessions` extends `ProjectAccess`, `InferenceService` stands
on `VersionStore`.

In `History` the three kinds of page have a focus each, too, and each bounds
what its properties do not depend on: *trend* lets one connection tick promptly
over many days, *drift* lets two interleave within one, *verdicts* changes
bindings and access of one (`Trend`, `Drifting`, `Judging` in `MCCollection`).

Why the bounds are enough.  Two concurrent requests and two ticks are what a
check-then-act race takes; a third adds interleavings of the same pairs.  Two
crashes cover a crash during the recovery from a crash.  Three tables let the
cap fall before, on and after a wanted table, with lists that overlap; two
namespaces show what is reset between passes, and one namespace listed twice
what is not.  Three threads of two processes at boot give both a race under the
lock of one process and one between processes; one failure leaves every
half-way state behind, as each transaction may be the one.  Three records in
batches of two make a full batch and a rest; two runs make a repetition.  Days
are two moments long, the pages show one day of trend, three of verdicts, and
keep four: on a clock of nine instants a metric is written, shown, judged by a
later baseline, purged, and outlived.  Two databases and a catalogue are what a
mix-up takes; of the two pooled threads one is reused while the other waits.
Two rows and a column make a rate of nothing, of half and of all, and an
estimate that is off by one; one delete by equality may match none, one or both.  Three links let one be superseded, one be consumed
and one be minted meanwhile.  In `login`, a window of one on a clock of three
lets failures enter, share and leave it.  Three threads of two programs race for
the lock within a process and for the file between processes.  In `inference`
and `project_access` two versions and two calls, an owner, a member and a third
user make every pairing; an anomaly can be scored again, become older than
`MAX_EVENT_AGE` (2) and be overtaken within five instants.  In `serving` a third
version is one of an earlier release, which some checks admit and others do not,
and a cache of one evicts at every change.  The library is one of two, so that a version is staged, activated and loaded
under its own and under another one.  In `results` the jobs' interval of
two with a slack of one, against throttles of one and three, gives windows that
overlap, touch and miss, and three turns within seven instants, of which one may be
longer than another by no, one or two units; in the behaviours of the drift job a
project has one chat and a message that fails times out, since the other job's
behaviours have the rest.  Three instants of change-points hold a cluster and its
neighbour.  Of four hours of a series the first two may lack their points; a drop
becomes old after two, and what is older than two is not read any more, so that
points and change-points expire in the fourth.  A fault of the disk, a second
change-point (the first one moved to the hour before) and the fourth hour do not
meet in one behaviour, and detectors, which know no change-points, have three hours
and none.

Names of the bounds: `MaxManual`, `MaxCrashes`, `MaxTime`, `MaxAttempts`,
`MaxCalls`, `MaxMetrics`, `MaxFailures`, `MaxTransfers`, `MaxVersion`,
`LastMoment`, `MaxBatches`, `MaxSamples`, `MaxTables`, `MaxEdits`, `MaxEntries`, `Spoilable`,
`MaxChanges`, `MaxNow`, `MaxDrifts`, `MaxPoints`, `MaxFaults`, `MaxCandidates`,
`MaxHour`, `MaxShifts`, `MaxDiskFaults`, `MaxSwitches`, `MaxOutages` and the
sets `Library`, `Run`, `Token`, `Handler`, `Worker`, `Request`, `Key`, `Lock`; each stands
in a guard.  `ClusterSpan`, `ReadSpan`, `Old`, `Interval`, `Slack` and `Window` are
parameters of the code, or of what is assumed, and no bounds.  Symmetry is declared in runs without liveness only.

`CHECK_DEADLOCK FALSE` is set everywhere: users may stop, bounded runs and
tokens are used up, a deleted project stays deleted, a tick, a boot, a copy and a
request end.

Fairness.  `ConnectionScheduling!FairSpec` asks that a started process finishes
starting, a tick and an accepted request go on (threads of a live process are
scheduled; nothing in them blocks on another), and a stopped process is
started again (restart policy or operator).  It asks nothing of users, and no
job is obliged to fire.  `CollectorTick!FairSpec` asks that the tick's thread
runs and time passes; `CallsEndSpec` adds that every metadata call ends, which
the drivers' socket timeouts justify and `_run_with_timeout` does not:
`tick_stuck` is the same module without it.  `BootFairness` asks that each
thread that needs the store calls for it and goes on, locks included: a
holder's steps are fair as well, and the phases of a boot are finite.
`SchemaFairness` asks that an interval job fires again and its tick goes on;
ticks that are abandoned do not contradict it, as faults are bounded.
`ExplainFairness` asks that a request's thread goes on: the calls of the
language model have timeouts and a bounded number of retries.

## 4. Theorems

Everything below holds for all values of the constants, not only TLC's.

`ConnectionScheduling_proofs` assumes `ConstantsAssumption` only.

- `TypeCorrect`, and `Invariance`: `IInv` is inductive.  Besides the types it
  says that ticks not yet open have no row (`NotYetLogged`), that a job that
  fired after its connection was deleted can only return (`LateTickStops`), that
  a child process exists only beside a serving main one (`ChildNeedsMain`), and
  that a tick in flight is in a process whose scheduler runs
  (`TicksHaveScheduler`).  These two are what makes the sweep safe: while a
  process sweeps, no scheduler runs (`NoTickDuringSweep`).  `SweepIsComplete`
  says that the rows selected by a sweep include all its process left behind.
- `DeletionsAlwaysWin` (`RunsHaveOwnersAlways`, `LateTicksAreInert`)
  unconditionally.
- `LiveRunsStayOpen` and `RunLogImplemented` if `FLASK_DEBUG` is set, to either
  value: with it unset two processes schedule and the child's sweep does close
  a live run of the parent's.
- `RunsAlwaysMatchProcesses` and `RunningIsAlwaysAccounted` if, moreover, writes
  do not fail (`~DbFaults`): a failed closing UPDATE leaves `running` behind
  until the next start, as the code intends.
- `JobsAreAlwaysInSync` under both assumptions and one more, that requests do not
  overlap: two toggles at once do disagree with the scheduler (section 5), and run
  `scheduling_live` has one handler for the same reason.  `SyncInv`: a job is that
  of an active row unless the one request under way has written the row and has
  still to tell the scheduler (`JobsFollowRows`); what it will tell is what it
  wrote (`RequestsAreCurrent`); and it runs in the process that serves
  (`RequestsAreServed`).

`Forms_proofs`.  `FormsAreAlwaysTyped` is about the three modules that `Forms` puts
side by side.

For `PasswordReset` it assumes that `Nobody` is no user and that
there is a token.

- `TypeCorrect`: with it, that a request that sets a password has claimed its
  token, which is what the conditional UPDATE is for.
- `LinksResetOnce`: `OnceInv` adds that a request about to set a password holds
  a claim no other request has, on a token no password was set with
  (`ClaimsAreFresh`), and that passwords were set with used tokens only
  (`PasswordsAreUsed`); used tokens never become active.
- `ChangesEndOlderLinks`: `DieInv` adds that a superseded token that is still
  active has a request at work that will end it (`WillEnd`).
- `LatestLinkAlwaysWorks`: while requests do not overlap, a link that is not the
  latest has been ended or its request is about to.
- `LinksAreAlwaysSound` is all of these together.

For `Login` it assumes finitely many threads and an address.
`LockoutsAreAlwaysSound` rests on `LockoutInv`: the failures that count and the
requests that are past the check stay together below the threshold plus the number
of threads (`RoomForThoseInFlight`), and the table holds no failure from before
the last login (`StreakCoversAll`).  `PurgesKeepLockouts` needs that the purge's
cut-off lies before the window's.

For the connection's forms, its readers and the key.

- `SecretsAlwaysStayReadable`; for secrets of another process the property itself
  excludes that the key cannot be written (`writable`) and that two processes
  generated one together (`together`).  `KeyInv`: of the threads of a process one at
  most is past the lock, and it finds no key in memory (`OneLoads`); every key in use
  is the one the files lead to (`OneKey`).
- `EditorTypeCorrect` and `EditsAreAlwaysSound`: while edits have not overlapped, the
  stored DSN is the one that the edit under way read or has written
  (`DsnIsAsExpected`), whether or not earlier ones have died.
- `ReadersAlwaysAgree`: a reader whose row has not changed under it asks for what its
  rules make of that row (`AsksForTheRow`), and what is remembered of its answer is
  what it would be told now (`ToldNow`).

`Projects_proofs`, for `ProjectAccess`, assumes that there are users, projects and invitations,
and what each id and token is for (`ConstantsAssumption`).

- `TypeCorrect`, `OneOwnerAlways` and `AuthorityAlwaysHolds` rest on `AInv`.  It
  adds to the types that the owner of a project that exists is its creator
  (`OwnerKnown`), that no two requests insert one project (`InsertersDiffer`),
  and that each request fits its project (`Fit`): one that passed the check is
  the creator's, and one about to overwrite or remove a row has found that it is
  not the creator's (`Aimed`).  So the check need not be repeated: ownership
  never changes hands.
- `InviteAdmitsOneAlways` and `UsedInviteAlwaysAdmits` add `IInv`: an invitation
  that was claimed is held by one request, which the owner's role or a deletion
  cannot refuse, until it has made its user a member.
- `OwnersAlwaysReachTheirs` needs the UNIQUE constraint only (`SlugsUnique`).
- `ProjectsAreAlwaysSound` and `InvitesAlwaysAdmit` are these together.

`SessionsAreAlwaysSound`, for any number of tabs and users.
It rests on the invariant of `ProjectAccess` and `SessionInv`: what a page under
way shows is one project and among those its request has met as its user's
(`mine`), and these include all that the user has now.

`Collection_proofs`.

- `RunsAlwaysAddUp`, for `CollectorTick`.  `TickInv` says where the tick is in its
  namespace and what is left of it (`Scope`): a table is outstanding, or settled.
  While the tick was not cut short, an outstanding table has no row yet, every other
  one of a listed namespace exactly one (`Accounts`), and the counters are the sums
  over these rows, up to the table in hand (`Totals`, `Claims`); what was scanned is
  what the settings admit (`Load`), and all of that (`Collects`).  A step either
  settles one outstanding table (`Settles`) or leaves rows and counters alone
  (`Quiet`).
- `MeasuresAreAlwaysSound`, for `TableReads`.  By `MeasureInv` what a tick has in hand
  of a table that holds still is what the table is (`HeldStill`), if its metadata tells
  (`TellsRows`), and measurements that were saved as exact are (`IsExact`).  That the mean of the columns' rates is a
  rate is a bound on a sum over a finite set.
- `PagesAreAlwaysConsistent` and `EventsAlwaysStay`, for `History`.  They assume, as
  the defaults of 14, 30 and 90 days do, that what is shown is less than the window
  of a verdict, and that no more than what is kept.  By `HistoryInv` the upsert keeps the primary key of
  the verdicts (`VerdictsOK`), and what a tick has computed and a report says is
  founded on samples (`TicksOK`, `ReportsOK`).  One verdict is shown for a day
  (`OneVerdictShown`), a growth between the last two checks is a spike
  (`GrowthsAreSpikes`), and a spike stays (`SpikeStays`): the check that it is
  compared with has not left the window, since windows are nested, and nothing comes
  between them, since ticks come in order.
- `ReadsAlwaysStayHome`.  By `ReadsInv` the context
  variables of a thread are those that its block has set and, outside of one, unset;
  what a block saved to restore is unset, too, and a worker sees what its caller does.
- `JobsAreAlwaysSound`: `JobsInv` says that as long as no database was missed, what
  a job owes is done or still ahead: in a later stage, a project left, or a table to
  do (`Unsettled`).
- `TransfersAreAlwaysComplete`: the tables behind the run are settled, those ahead
  of it open, and of the one it is at, each record is settled, sent in a batch not
  yet committed, or unread (`TransferInv`).
- `SchemaIsAlwaysComplete` and `RowsAlwaysSurvive` rest on `StoreInvariance`: the two
  locks leave one thread at the plan (`Exclusion`); the steps behind it have brought
  about what they are for, and nothing undoes it (`Standing`, `Behind`); rows without
  an owner are in tables that lack the column, no table has a column of another, and
  an existing table is left as it is by a CREATE (`Ownership`).  That nothing undoes a
  step is where the order of the plan matters.  `StoresAreAlwaysComplete` puts them
  together with the copy.

`Serving_proofs`.

- `RegistryInvariance` says that what a command has established (the checks its
  version has passed, the files written so far, that what it will point at is
  published and admissible) stays true while others stage, activate, fail and die.
  `RegistryIsAlwaysSound`: a version that is visible is whole and was staged by the
  checks of its own command, and an active one was admissible and loads wherever the
  library of its training is installed (`PointersAreServable`), until its bytes go
  bad.  `RegistryImplementsStore` is the refinement of `VersionStore`: a
  version's rename maps to its appearance, everything before to a stutter.
- `ServiceIsAlwaysSound` and `ModelsAlwaysLoadOnce` rest on `ServiceInvariance`.  A
  lock found through its weak reference is that of one version, and some thread has
  it (`LocksAreApart`); one thread holds it (`OneHolder`); one that loads without the
  cache holds the lock of a version that is not in the cache, and one about to store
  has found it fit (`RequestIsSound`).  The cache never holds a version twice, since
  a version is moved, not added, when it is there.

`PublishedInference_proofs`: `AlertsAreAlwaysNews` rests on `AlertInv`: the floor
a call has computed is at least the horizon, what was processed or too old when
it began, and an anomaly that a call has claimed was claimed by no other and has no
alert yet.  `LoneCallsAlwaysAlert` adds `LoneInv`: a call that is
alone finds the scores of its version to precede what is left to do, so that
what it owes is its candidate and stays it until the alert (`Careful`, `Owes`).

`Results_proofs`.

- `SchemasAreAlwaysSound`: replaying a difference on its old snapshot gives the new
  one, whatever the order of its events; a tick that is about to store a snapshot has
  recorded how it differs from a stored one, or found none (`SchemaInv`).
- `ExplanationsAreAlwaysSound`: what is cached for an owner rests on what fed it
  (`CacheSound`), and so does what a request has in hand (`RequestSound`).
- `AlertsAreAlwaysSound`: a job that has settings has those of its project's chat
  (`Private`); every counted message is behind the throttle's stamp or is the one
  that its job is about to stamp (`Spaced`).
- `DriftsAreAlwaysAnnounced` speaks of turns that are regular (`TurnsAreRegular`: none
  is as long as the interval, and their collections differ by no more than the slack)
  and of drifts that the first window after a start can reach.  While that holds, a
  turn begins when it is due and is not held back by the stamp of the turn before
  (`Punctual`), since a throttle no longer than the interval less the slack has
  passed (`RegularBefore`); a drift that somebody waits for is announced, within the
  window of a turn to come (`Covers`), or ahead of the turn under way
  (`DriftsAwaited`).
- `ModelsAreAlwaysSound`: what a worker holds was fitted to the past, and, unless it is
  the line that stands in for a file, not across a severe drop that is not old
  (`WorkerSound`); what a worker that nothing disturbs
  has read is still so, and its file is its own (`QuietSound`); the files being
  written are those of workers at that step (`OpenFiles`).
- `ShiftsAreAlwaysSound` and `StrongerAlwaysWins`: the two are one induction over the
  points of a transaction.  `SavedOver(base)` are the results that keep one point of
  a shift and have lost a point of `base` only to a saved one; each turn of the loop
  stays in it (`SaveOneKeeps`).

How folds are reasoned about (`Induction_proofs`).  The library's induction theorems
take an operator as a parameter and cannot be cited; `WFMin` (a well-founded relation
has minimal elements) takes sets, and from it follow induction over a set of numbers
(`NaturalInduction`), over the subsets of a finite set (`FiniteInduction`), that a
recursive function over `0 .. n` exists (`FoldExists`), and that what each of its
steps keeps it keeps (`FoldKeeps`).  A loop of the code is therefore written as such
a function where its result is proved about (`Emitted`, `SaveChangepoints`,
`Claimed`).  A sum over a finite set is a fold over its subsets: it exists
(`FoldOverSubsets`), grows by each element (`SumIsFunction`), and is bounded by its
summands (`SumBound`).

Every invariant and action property of a passing run is stated by one of these
theorems.  Model-checked only is liveness (`RunsClose`, `ActiveGetsScheduled`, `TicksEnd`,
`StoreComesUp`, `ResultsArrive`), which needs ENABLED, and the disagreements that
have runs of their own, which are single behaviours.

## 5. Disagreements between code and documentation

With a run of their own (quoted under "findings" in `PROJECT.json`): the purge
that a tick survives, the budget that does not free its tick, the tenants that
are not retrained, the failed tick that is shown as calm.

Seen while modelling, without a run of their own.

*Connections*

- Two toggles at once: the row is flipped by what an earlier read said and the
  scheduler is told afterwards, so they may end up disagreeing
  (`connections.py:780`, 784); `JobsAreInSync` holds for one request at a time.
- An edit that is refused has already changed name, DSN and dialect
  (`connections.py:563`, 595).
- With `FLASK_DEBUG` unset, the local default, `app.run` enables the reloader by
  its own default but `app.debug` is false inside `create_app`, so that parent and
  child both start a scheduler, against "only start the scheduler in the child
  (worker) process" (`app.py:400`); the child's boot sweep then closes runs that
  ticks of the parent are working on (`metrics_storage.py:3089`).
- `max_tables_per_tick` is a "hard cap" in the schema, but is applied per
  namespace (`per_project.py:426`).
- `skip_size` and `statement_timeout` are stored for every dialect
  (`connections.py:594`); `metadata_only` stays when a DSN becomes Postgres, and
  no form can clear it then (614); edits that overlap can leave a token on a
  Postgres row (614, against the comment at 611).
- The probe that follows an edit of the DSN uses the old row's namespace and
  warehouse and no token (`connections.py:638`); the ClickHouse probe counts at
  most ten tables, and views; a probe's result may be stored for a DSN that was
  edited meanwhile.
- No probe knows of `iceberg_namespace_allowlist`: with one, a tick lists its
  namespaces and nothing else (`per_project.py:172`), so a test can succeed on a
  namespace that no tick visits, and say nothing of those that it does.  The sources
  of predictions keep the namespace beside the allowlist (`inference_adapter.py:126`).
- A tick uses `iceberg_namespace` for every dialect, although the comment says
  "for Iceberg, iceberg_namespace overrides" (`per_project.py:363`).  The dashboard's adapter ignores an
  Iceberg connection's namespace, warehouse and token.
- A ClickHouse table whose engine keeps no `total_rows` (a view, a `Distributed` or a
  `Merge` table) is reported as empty (`db.py:490`).  The rows of an Iceberg table
  with equality deletes are approximate, as its comment says, and clipped at zero
  (`db.py:614`); `StillTablesAreExact` is about the other tables.
- An edit that dies after `update_connection_safety` has changed the DSN and leaves the
  old one's probe with it (`connections.py:634`, 641).
- Two processes that generate a key at the same moment each keep their own in
  memory, and the file's last line wins (`crypto.py:46`).

*Accounts and projects*

- "Window is sliding - recording a new attempt extends the lockout"
  (`auth.py:404`): refused attempts are not recorded.
- Two overlapping `forgot_password` requests leave two links alive, against "only
  the latest email should resolve" (`auth.py:273`).
- `get_project_by_slug` prefers an owned project, so a member of another project
  with that slug is led to the own one, also right after accepting an invitation
  (`projects.py:426`).
- `create_project` looks a slug up among shared projects, too: a member of a
  project cannot create one of the same slug, against "(user_id, slug) is already
  used" (`metrics_storage.py:2305`).  `scripts/add_project_member.py` finds shared
  projects "under owner", too (59).
- An acceptance that overlaps a change of role replaces the newer role
  (`metrics_storage.py:2452`).  One that overlaps a removal or a deletion ends in
  a 500, since `get_project_by_id` then returns nothing (`projects.py:404`, 422).
- "New users get a Default project auto-created on register" (`projects.py:18`):
  `register` does not call `create_default_project_for`; the tests do.

*Results*

- An editor's prediction by another version moves the high-water mark, so the
  bound version's first anomaly there is not notified
  (`inference_adapter.py:263`).  `_alert_new_event` checks that its event is the
  newest and sends later (285), so overlapping calls can notify twice of "one
  current event".
- A delivery that Telegram limited is not repeated, although the recorded reason
  says it will be (`telegram.py:76`).  The throttle is read before sending and stamped
  after it (180): overlapping senders both pass.  Drift whose project throttles
  for longer than the job's window may never be announced; an anomaly of the last
  day is announced again in every throttle period.
- "Schema drift notifications — runs unconditionally" (`scheduler.py:121`), but they come
  at the end of `collect_all_tables`: after a collection and a sweep of any length, so
  that turns whose lengths differ by more than five minutes can leave a gap between
  their windows, and not at all when `list_tables` raises for want of a global database
  (`scheduler.py:107`), or for a legacy project with settings and no metrics (196), which
  costs the other projects their alerts.  Drift in tables without metrics, as
  with `metadata_only`, is never announced (193).
- An upgrade of scikit-learn makes every model version unloadable, the active one too,
  until the recorded release is back ("restore the recorded scikit-learn version",
  `model_registry.py:135`); a service that has it in its cache goes on serving it.
- "commit source changes before recorded candidate training"
  (`scripts/model_versions.py:62`): the nightly `train_candidates` stages candidates
  from whatever tree it runs in, under the commit an environment variable names
  (`inference_adapter.py:411`).
- "Use post-CP points to capture the new regime" (`forecast.py:236`): when the trained
  file cannot be read back, the forecast is a line through all the points, across the
  change-point, a recent severe drop included, and without the override
  (`forecast.py:334`).  (The
  model takes joblib for installed; without it no file is ever read back.)
- A change-point stored at the very instant of one of the other direction
  replaces it.
- The identity of a series lacks its connection: two connections of a project
  with a table of the same name share a history, and two of their ticks within
  one second a "run".
- The freshness of a model file compares the newest change-point's instant only;
  after training the file is loaded without another check, and a failed dump
  leaves what there was.
- An explanation of a project-level result is resolved twice and may be cached
  under the project's key after a connection has come back (`llm.py:302`);
  fallback texts are cached for a day like answers.
- A failed tick keeps its metrics but does not refresh the drift report; two
  refreshes at once may leave the older reading.  The growth insight compares the
  last two checks only.
- Null counts stay behind when a table is switched to sampling or estimates,
  against the docstring of `get_latest_null_counts`; a page divides counts and
  rows of different ticks, so that a rate can exceed 100 %.

*Store*

- "stale destination rows from earlier runs do not survive"
  (`migrate_metrics_to_timescale.py:11`): a repeated copy overwrites rows whose
  keys it meets and deletes none, so rows that the source has lost meanwhile stay
  (148).
- The backfill of owners "runs AFTER the schema CREATE so the table exists"
  (`metrics_storage.py:577`), but the boot that introduces `project_members`
  creates it afterwards: owners are backfilled at the second start only.
- `purge_old` has no caller but tests; only an operator
  removes old metrics.

## 6. Not modelled

- Offline models and research code (`ml/course_experiments.py`, `features.py`, the
  numbers of `forecast.py`, `drift.py` and `anomaly_detector.py`): fitting by libraries.  What is
  modelled of them is when they read, write and load.
- Templates and the API's rendering, masking, logging, Sentry, Prometheus, health
  checks: they render or report and change nothing.
- Rate limits per address and CSRF: libraries.  The promotion of `ADMIN_EMAIL` at
  start, renaming of a project and the default project: single statements without
  an interplay.
- Scripts for backup, restore, recovery, reset and warm-up, demo and seed data,
  benchmarks: operators run them one at a time, around the program rather than in
  it.  The copy to Timescale and the operators' two scripts that change live rows
  are modelled.
- The metrics store is one database whose transactions are atomic.  SQLite's
  single writer and busy timeout are not modelled: they forbid interleavings that
  the modules allow.
- In `History` time is coarse (two moments a day), rows of equal time are read in
  one fixed order, and `EventsStay` speaks of ticks that come in order.

## 7. Plan

1. `StoreBootstrap`: an abstract schema that only grows, implemented by the guarded
   phases.
2. `Alerts` with `PublishedInference`: one throttle for all kinds of event.
3. `CollectorTick` inside `ConnectionScheduling`: its run as the one of `RunLog`.
