# A formal model of the import/export orchestrator

TLA+ modules, TLC configurations and TLAPS proofs for the service in `src/app`:
a FastAPI application that stores job definitions, triggers their runs by hand
or by cron, hands the runs to workers through a message queue, and exports rows
to files or imports files into tables. All references of the form `file:line`
are to the repository; paths are under `src/app` unless they start with
another directory.

## 1. The system

| Part | State it keeps | Operations |
|---|---|---|
| Job API and `services/job_service.py` | none of its own | create, update, delete, clone a job; trigger a run |
| `services/scheduler_service.py`, `infrastructure/scheduling` | the entries of an in-memory APScheduler, per process | schedule, unschedule, reload at startup, fire |
| `infrastructure/db` | `job_definitions`, `job_runs`, the sample tables | one transaction per repository call |
| `infrastructure/queue` (SQS, Azure, Pub/Sub) | messages, visibility, receipts | send, receive, extend, delete |
| `services/job_runner.py` | worker tasks, an in-memory fallback queue | the worker loop, visibility extension, the bodies of exports and imports |
| `infrastructure/saas` | the sample tables | `import_data` in sub-batches of 100 rows, one transaction each |
| `services/import_validator.py` | none | preview validation, streaming validation |
| `infrastructure/query` | none | filters as SQL or in memory, offset pagination |
| `api/imports.py`, `api/exports.py`, `infrastructure/storage` | objects in cloud storage, temporary files | request an upload, confirm it, execute; download a result |
| `core/rate_limit.py` | two lists of timestamps per client | check a request |
| `auth/jwks.py` | a cache of keys | look a key up, refresh |
| `core/config.py`, `core/dependency_injection.py`, `main.py` | settings, singletons | startup and shutdown |

**Interactions.** The API and the cron triggers insert a row in `job_runs` and
then send a message with the ids. Workers of any instance receive messages,
read the job and the run, mark the run running, execute it, write the result
and only then delete the message, while a background task extends the
visibility of the message. Jobs can be deleted, with their runs, at any time.
Updates of a job go to the database and then to the scheduler of the process
that served the request; the other processes do not hear of it.

**What is hard.** There is no lock and no transaction across the database, the
queue, the scheduler and the storage; everything rests on the order of the
calls. Every `await` lets another task in. Instances crash and restart, calls
fail before or after they took effect, messages come twice and late, and
receipts go stale. `PROJECT.json` lists these hazards at their lines, with the
properties that would catch each of them.

**What makes each part correct.**

- Runner: no queued run is lost; a message is deleted only over a settled row;
  a result is final once acknowledged; every run settles and the queue drains.
  Each of them only as long as no two workers have the run at once, which the
  extensions of the visibility prevent while the body runs and at no other time.
- Schedules: the scheduler of a process has the entry the row calls for; it
  never runs a job on a schedule nobody saved; deleted jobs stay deleted; a
  process that is started comes up.
- Imports: the counters reported agree with the rows committed; a success has
  imported the whole file; a file of upserts and deletes can be imported twice;
  concurrent imports do not overwrite each other's new rows and do not hang.
- Exports: every row that exists throughout is in the file once; a result
  points to a file that exists, from the instance that can have it.
- Filters and orders: SQL and in-memory evaluation agree, so that an export is
  what its preview showed.
- Rate limiter: a client never exceeds either window.
- Import validation: the readers that judge a file before its import agree.
- Uploads: the rows imported were checked, whatever happens to the object after
  it was confirmed; requests that share a temporary file do not judge half of it.

## 2. Modules

| Module | What it is |
|---|---|
| `RunLifecycle` | abstract: what the service promises about a run |
| `JobRunner`, `MCJobRunner`, `JobRunnerProofs` | triggers, run rows, queue and worker loop |
| `Visibility` | the clock of one message, and the task that renews it (theorem included) |
| `Scheduler`, `MCScheduler`, `SchedulerProofs` | job rows against the in-memory schedulers of several instances |
| `ImportFile`, `MCImportFile`, `ImportFileProofs` | the body of an import: validation, batches, sub-batches, the session and the table |
| `ImportChecks`, `ImportChecksProofs` | what each of four readers says of the same file |
| `ImportUpload`, `MCImportUpload`, `ImportUploadProofs` | an uploaded object and the temporary files made of it |
| `ExportQuery` | filters and orders, as SQL and in memory: operators and functions without state |
| `Export`, `MCExport`, `ExportProofs` | extends `ExportQuery`: previews, pages, the file, its upload, results and downloads |
| `RateLimiter`, `RateLimiterProofs` | both windows of the rate limiter |

The `MC` modules give the constants their values for TLC; the modules without
one take numbers only. The `Proofs` modules hold the theorems of section 4.

The bodies meet the runner at its actions: `ImportFile`, `ImportUpload` and `Export`
each let several executions of a run overlap, because `JobRunner` has them (a
receipt may expire at any time), and `ReportSuccess`, `ReportFailure` and
`BodyRaises` of `JobRunner` are the ends those bodies may have. They are checked
apart: their product exceeds what TLC enumerates, and the runner depends on a body
for its end only.

### JobRunner

One action per call that changes state or ends in an `await`; `PROJECT.json`
gives the lines of each. A run goes `CheckJob` or `FireSchedule` (the two ways
in), `CreateRun`, `SendMessage`; a worker goes `Receive`, `NextMessage`,
`FetchJob`, `FetchRun`, `MarkRunning`, then `ReportSuccess`, `ReportFailure` or
`BodyRaises` and `MarkFailed`, then `DeleteMessage`. `CallFails` is the
`except` of the loop: any database or queue call raises and the message stays.
A write of the status may have been committed all the same (the reply of the
commit is lost), in `CallFails` as in `BodyRaises`: a body whose SUCCEEDED is
committed and then raises is overwritten with FAILED by its handler.
`RowGone` is the `scalar_one` of `update_status` on a deleted row. `Crash` is a
dying process as well as `stop()`, which cancels the worker: both leave the row
as it is. `DeleteJob` removes the job and its rows in one transaction.

The queue is the external part. `message` says where the run's message is, `lease`
whose receipt the queue still accepts. `Expire` is the visibility timeout; it may
come at any step of a worker that holds the receipt (waiting in a batch, looking up
the job and the run, executing, deleting), which counts as a fault, since how long
each takes is no matter of this module. `ExtendVisibility` appears only for a queue
whose receipt changes at each extension (`RotatesReceipt`, Azure): the adapter drops
the new receipt, so the lease is lost, a fault as well. For a stable receipt an
extension changes nothing that is modelled here and is no action. `DeadLetter` is
the redrive policy of `infra/aws/terraform/queue.tf`, after `MaxReceiveCount`
receives.

`overlapped` is a history variable: two executions of the run, or an execution
and a stale receipt, existed together. The code promises nothing about such a
run, and says so nowhere; the properties about results are stated for the
others, and so exclude what a second execution does to a run that is over
(`NoStrandedRun`, a violation, is what it can do).

The bodies are abstract here: they end in a success, a reported failure or an
exception. Of the row only the status is kept: `update_status` accepts any
status over any other. Its error message and result are left out (an error
message is written only when there is one, so it survives a later success of the
same run). `RunLifecycle` is implemented by the mapping that takes the message
for the debt of the service (`Duty`) and `overlapped` for `contested`. It lets a
failure replace a result (the lost reply), allows nothing but a deletion once the
debt of an uncontested run is discharged, and of a contested run asks only that it
was queued before it is touched.

### Visibility

The clock that `JobRunner` leaves out: one message, the seconds it stays hidden
(`left`), the receipt the queue accepts (`holder`), and where each worker is. The
extension task lives only while a worker is inside `_execute_job_run`
(`job_runner.py:173-188`): `BeginBody` starts it, `EndBody` stops it; before
that, the worker is "held" by its lookups or by the rest of its batch, and
"after" that it is about to delete the message, for any time. `Extend` is due when
the task has slept `Interval`, half the extension or ten seconds (`MinSleep`), and
is at most `Lag` late, as the event loop may be (CSV validation runs on it
synchronously). A call that fails is repeated only after another sleep
(`ExtendFails`). `Tick` is a second.

`covered` says that the body began with more time left than one sleep takes, that
an extension lasts longer than one sleep, and that no extension has failed.
`HiddenWhileExecuted` is what the task achieves then, and there is nothing it
achieves otherwise: an extension of ten seconds or less is over before the task
wakes, a slow lookup uses the time up, and a slow delete comes after the task is
gone. So it does not follow that a run has one execution at a time, and no module
says so.

### Scheduler

`row` and `def` are the database; `schedule` the entries of each process. A
request has a next step `pc` and the `JobDefinition` it carries, `copy`. Create
is `InsertRow`, `ScheduleCreated`; update is `ReadJob` (with the merge of the
fields the request names: the merged definition may be any), `WriteJob`,
`Reschedule`; delete is `FindJob`, `UnscheduleJob`, `RemoveRow`. The existence
check of `update_job` is part of `WriteJob`: a deleted row never returns, so the
check tells nothing the write does not. The scheduler calls never suspend, so
unscheduling and scheduling again is one step. `CallFails` ends a request at a
database call, with or without the effect of the commit. Startup is `LoadRows`
and `ScheduleLoaded`; a start that fails is repeated, as the container
orchestrator does. In `Init` a job may be stored already, by a service that ran
before, so that an instance can also start over a row that it cannot schedule.

`coherent` is a history variable, per instance and job: since the instance
loaded its rows, the job was changed only through it, one request at a time,
and no write was left half done. It is the hypothesis of `ScheduleMatchesRow`
and every part of it is needed: the violation run shows another instance, and
dropping any other part makes TLC find a counterexample.

### ImportFile

Several executions of imports on one table of one client: different jobs, or
deliveries of the same run (`JobRunner` shows that they can overlap).

| Action | Code |
|---|---|
| `Start` | the first phase of `_stream_import_csv`; a JSON file is not validated |
| `RejectRow` | the early `continue`s of the loop of `import_data` |
| `AddKeyless` | a row without a match key: `handler.create` with no lookup |
| `ApplyRow` | the lookup answers; create, update, delete or skip |
| `LookupFails`, `CannotConnect` | the `except` of the loop |
| `Flush`, `FlushFails` | the session sends its changes, before a query or a commit |
| `Commit`, `RollBack` | `Database.transaction` |
| `BatchRaises` | the `except` of `_stream_import_csv` |
| `ConnectionLost`, `Crash` | faults |
| `Finish` | the totals decide SUCCEEDED or FAILED |

`import_data` never writes to the database itself. The handlers change objects
of the session (`pending`); the session writes them (`overlay`, `flushed`) just
before its next query, or at the commit. So a row is counted before the
database has seen it, and an error of one row surfaces at a later one. When a
flush fails, the session refuses everything but a rollback: the remaining rows
of the sub-batch fail, their `except` counts them, and the commit raises, which
discards those counters. This is one step, `FlushFails`. When a *lookup* fails,
the session does not notice, but PostgreSQL has aborted the transaction: later
lookups fail and the commit rolls back without an error (`session =
"aborted"`).

The database is the external part: READ COMMITTED (`View`), the unique
constraint on the external id, locks on the keys a transaction has changed
(`Waits`) and deadlock detection (`Deadlocked`), which may pick any transaction
of a cycle.

Abstractions: the match key is `external_id`; all other columns are one value;
a row that lacks a required field, or has one the validator rejects, is
"incomplete"; a JSON file is one batch, whose run fails with the exception
(counted as if all its rows failed, since it reports no counters at all). An id
match, the lookups of referenced vendors and projects, the export that feeds the
fallback without a source file, progress statistics and error files are left
out. `before` and `applied` are history variables.

`CountedIsCommitted` is the strongest relation the code keeps between counters
and rows; the violation run shows that the simpler one a reader would expect
does not hold. `RedeliveryConverges` needs its hypotheses: a row without a
key, or a creation, is not repeatable, and an execution that is still running
or has crashed in the meantime may leave an older row.

### ImportChecks

A file is judged by the confirmation of the upload (`validate_import_file`), the
preview (`preview_with_validation`), the streaming validation of a run, and at last
by `import_data`, which refuses rows one at a time: four pieces of code. In the
program they run at different times. The module lets them read the same file side by
side: `NoHeader`, `Header` and `OpenJson` are what each does before the first row,
`ReadRow` is a row for each of them, `Unreadable` and `EndOfFile` the end. A state
then relates their verdicts on the rows read so far. `ConfirmErrors`,
`PreviewErrors`, `StreamErrors` and `Refused` are the checks of one row.

Of a file are kept: the format, whether its size is allowed, the `_action`
column, where the one required column is (under its own name, under the one the
job's mapping renames, nowhere), the column that the job matches on, and per row
the action, the two match columns and whether the other cells are sound. Four
properties state where the readers agree; the conditions in them are the
differences the code has. (`invalid` of the streaming validation counts errors of
the file among those of records, as the code does.)

### ImportUpload

One object, uploaded through a presigned URL that stays valid after the object
was confirmed (`PutObject`); requests to confirm and to preview it; executions of
the run that imports it. Each of these *actors* downloads the object to a
temporary file named after the client and the object, or after the run: `Spot`
is that path, and actors of one kind on one instance share it. `path` says which
file is at a path and `content` what is in it, so that a file that was replaced
or removed can still be read by whoever has it open, as on any Unix file system.

The adapters differ and both are modelled: S3 puts a finished download in place
in one step, Azure opens the file, which truncates it, and fills it
(`StartDownload`, `FinishDownload`; in between its content is `Partial`).
`file_exists` of Azure takes every failure for absence (`CheckFails`). `Confirm`
and `Settle` remove what is at the path, `Show` does not. A CSV import opens the
path twice, for the validation and for the rows (`Validate`, `Open`); a JSON
import parses it once and validates nothing (`ImportJson`).

The API and the workers are one process. `Stop` ends it, with every request and
execution on the instance; what is on its disk stays. `Cancel` ends one of them
at an `await` of its adapter: the client hung up, or `stop()` cancelled the
worker. Of `confirm_upload` only the `finally` runs then, and only if the `try`
was entered, which is at the download; the worker's `finally` is around what comes
after its download (`CancelImport`). The thread of an S3 download goes on and may
put its file in place when nobody waits for it (`OrphanDownload`); Azure's has its
file closed by the coroutine, so it is filled already or not at all.
`NothingLeftBehind` says that these are the only ways, with a download that fails
on Azure, in which a file of a confirmation or an import stays at its path. The
files under other names that boto3 fills before it renames them are not modelled.

`alone` is a history variable: no other actor used the path while this one was
at work. `seen` holds the contents the object had since a confirm began. The
order of the worker's own status writes is in `JobRunner`.

### ExportQuery and Export

`ExportQuery` translates the two halves of `query/engine.py`: `Matches` is
`_matches_filters` with its recursion over groups; `SqlFilter` and `SqlGroup` are
`_translate_filter_group` with the conditions it drops and three-valued logic,
and `Answer` adds the vendors that a nested field pairs each row with;
`MemoryArrangements` and `SqlArrangements` are the sorts. A row has a
field of each kind that the two treat differently: a key, a number, a text, a
field of another table, and one the column map lacks.

Texts are numbers in the order of their code points, which is Python's, each
contained in the later ones, with one that is a wildcard to LIKE. The database
orders them by its collation, any permutation (`Collation`, `Place`); that the two
are one order for the texts at hand (`Alike`) is a condition of the properties
that compare orders, and the instance has rows and filters where they are not. A value
of a condition may be null: `= NULL` becomes `IS NULL` in SQL and selects nothing
in memory, an order comparison with null makes SQLAlchemy raise (`Raises`), and a
null in a list or a bound is unknown. `relative` marks a relative date: an unknown
word is dropped by SQL and satisfies nothing in memory; a known one is resolved on
both sides as a single value, but as a bound of `between` by SQL alone, while in
memory the words stay. What a known word resolves to is one value here; in the
program each side reads the clock, so the properties that compare an export with
its preview exclude single relative values. A filter's value has the type of its
field: bounds that are plain strings for a date column, or one date and one word,
are refused by the database driver, which no module has.

`Groups` are the filters of the requests and the groups in them, and `Depth` says
how deep each nests: a filter is a finite JSON document. A row names no vendor or
one that exists (`db/models.py:173`, a foreign key).

`Export` has a preview and the executions of one run. An execution counts the
rows, reads them page by page with one transaction each, writes them, uploads the
file and records the result (`StartCsv`, `Page`, `Upload` or `KeepLocal`,
`Record`); imports may insert, delete or change rows between
any two pages; a call may fail at any step, before or after it took effect (an upload
that raises may have stored the object, a SUCCEEDED that raises may be
committed before the handler writes FAILED), and an instance may stop, while the
thread of an upload goes on (`OrphanUpload`).

Each execution has an instance, `host`, whose disk keeps its local file; it may be
gone after a stop. `Served(i)` is what instance `i` answers to a download: a local
file is served by the instance that wrote it alone (`api/exports.py:405`), and by
nobody once that disk is gone, though the run is SUCCEEDED. `SucceededIsServed`
states just this; with cloud storage and an upload that works, every instance
serves. History: `since` holds the changes made since an execution began, `gone` the
executions whose instance stopped since, `overlapped` that two were at work at once.
`CountIsOfTheFile` is stated for runs whose executions follow each other, whatever
faults made them follow; of executions that overlap a second upload may replace the
object whose count is recorded. JSON exports fetch all rows in memory, and their
count is the total before the slice.

### RateLimiter

The requests of one key. `kept` is the list of timestamps (by the index of the
admission; filtering keeps the order), `admitted` the history of all requests
that passed. `is_allowed` has no `await`, so that a request is one step: `Admit`,
`RefuseMinute` or `RefuseHour`. `OtherKey` is a request of another key, which may
run the cleanup that is due. Time is counted in ticks, several to the second,
because `int()` truncates the waiting time (`Truncated`). The clock is assumed
not to step back (`time.time()` is not monotone; the code does not handle a step).
The middleware runs before the authentication, so that the key is an address,
and every process has its own lists: the limits are per address and instance.

`retryAfter` is the number that `is_allowed` computes. The client does not see it:
the `HTTPException` of `rate_limit.py:183` is raised inside the `dispatch` of a
`BaseHTTPMiddleware`, outside the middleware that turns such exceptions into
responses, so that the handler of all exceptions (`main.py:213`) answers 500, with
no Retry-After. `RetryAfterSuffices` is about the computation.

## 3. Runs

| Run | Module | What it shows |
|---|---|---|
| `JobRunner_fair` | `MCJobRunner` | batches of two, rotating receipts, dead letters, two faults of any kind, fairness: the refinement of `RunLifecycle`, no message deleted before its row is settled, results final, every queued run settles unless contested, the queue drains |
| `JobRunner_stranded` | `MCJobRunner` | violation: a run stays running with no message left |
| `Visibility_clock` | `Visibility` | the message stays hidden while a covered body runs, with slow lookups, late and failed extensions, slow deletes |
| `Scheduler_safe` | `MCScheduler` | schedules against rows, saved schedules, deletions, starts that complete |
| `Scheduler_stale_instance` | `MCScheduler` | violation: a disabled job fires at another instance |
| `ImportFile_all` | `MCImportFile` | any two of eight files on one table: counters, success, inserts; two deliveries of one file converge; imports end, deadlocks included |
| `ImportFile_lost_rows` | `MCImportFile` | violation: rolled back rows counted as imported |
| `ImportChecks_agree` | `ImportChecks` | the four readers on every file of at most three rows |
| `ImportUpload_shared` | `MCImportUpload` | any three of six actors on one instance that may stop, with cancellations, S3 or Azure, CSV or JSON: checked rows, whole files, true verdicts, who leaves files behind |
| `Export_all` | `MCExport` | every filter and order against its preview; overlapping executions, faults, stops and imports between the pages; downloads from two instances |
| `Export_nested` | `MCExport` | violation: a filter on a nested field repeats and adds rows |
| `RateLimiter_windows` | `RateLimiter` | both limits, the length of the list, the Retry-After |

**Bounds.**

- *Runner.* Two runs of one job, two workers: overlap needs two workers on one
  run, a batch needs two runs, and a deletion takes both rows at once. Two
  faults (`MaxFaults`): a late extension and a crash of one of the two
  executions, a crash after a crash, or a failed write of a failure, are the
  shortest ways to lose a run. Three receives before the
  dead letters: a message gets there after two faults and a deletion, so that most
  behaviours must drain the queue without it.
- *Visibility.* Three workers (an old receipt, a good one and one that polls);
  a timeout of six ticks, extensions of four, sleeps of two and a lag of one: a body
  may begin in time or too late, and two extensions fit into a timeout; the clock
  needs no bound. The
  theorem has any numbers.
- *Schedules.* One job (jobs do not interact, except that a bad row of one keeps
  the others from being loaded, which one job shows as well), new or stored
  before; two instances, two requests that may overlap, one fault, one tick of a
  trigger, two good cron expressions (an old and a new one), one bad.
- *Imports.* Two executions, two keys and two values, files of at most five rows
  with batches of four and sub-batches of two, so that a file has two batches, a
  batch has two sub-batches, and the last of each is short; two keys are enough
  for a cycle of locks. `MCImportFile` says what each file is for. One fault: the
  first of two deliveries fails.
- *Checks.* Files of at most three rows: a header that is excused by actions, a
  row that spoils it and one more. The proofs are for every length.
- *Uploads.* Two uploads (a good file replaced by a bad one or conversely), three
  begun actors (two that share a path and one between them), one fault: a failed
  call, a cancellation or a stop (3.7 million states).
- *Exports.* Two or three rows, pages of two, so that the last page is short; two
  changes between pages (the shortest way to move a row twice); two executions on
  two instances and one fault. Values 1..3 with a tie, missing values and missing
  vendors, null values, relative dates, a collation that swaps two texts; groups
  nested once. The filter and order scenarios run without faults, the fault
  scenarios with few filters: neither depends on the other.
- *Limiter.* Two requests a minute of three ticks, three an hour of nine ticks,
  sixteen ticks in all: hours that overlap, and a list with entries older than
  the hour.

Deadlock is not checked: when all requests are served, all imports have ended or
the clock has run out, the system rests; `ImportsEnd` excludes a cycle of imports.

**Fairness.** Weak fairness of the steps of a request and of a worker: the event
loop runs every task that can run. Weak fairness of `Expire`, for receipts that no
worker uses any more, and `DeadLetter`: a queue keeps its timeouts. Strong fairness
of `Receive` for each run: a queue that is asked again and again hands out a message
that becomes visible again and again, and the loop of the worker asks for ever. Weak
fairness of `LoadRows` and `ScheduleLoaded`: the orchestrator restarts what is down.
Weak fairness of the steps of each running import: the event loop resumes it, and
the database executes a statement that waits for no one. No client, cron tick,
deletion or fault has to come, and faults come finitely often: with `MaxFaults` the
liveness is that of a service whose failures end. Receipts that rotate count as faults,
so nothing is said of an Azure queue whose every long run loses its receipt (it has
no redrive policy here). The modules of uploads, exports,
checks and the limiter state safety only; that every run ends is a matter of
`JobRunner`.

**Symmetry** is used in `ImportUpload_shared`, `Export_all` and
`Export_nested`, where nothing but safety is checked: requests
and executions of a kind, or the two executions (and instances), are
interchangeable there.

Every property was also checked against a mutant, a small change of a modelled
definition that the property finds; the mutants stand beside the definitions
they change, and `PROJECT.json` lists them.

## 4. Theorems

Checked with TLAPS for every value of the constants that satisfies the
assumptions named in its module.

*JobRunnerProofs.* `TypeCorrect`. `AtLeastOnce` and `ResultIsFinal` hold in every
configuration; the invariant is `DeliveryInv`. `SettledBeforeDelete` is not
inductive: the step that deletes the message must know that the worker has
written a result and that no one else rewrote the row, which is `SoleDelivery`;
that in turn needs to know which rows and messages can exist (`RowsAndMessages`)
and what a worker can hold (`Holdings`). `RunnerImplementsLifecycle` has no further
assumption: every step, faults and lost replies included, maps to a step of
`RunLifecycle` or to none. `Begun` shows there that a result is never written over
a run that is still pending.

*Visibility.* `ExtensionHides`, for all timeouts, extensions and delays. The
invariant `AheadOfTime` compares the clock of the message with that of the task:
what is left and what was slept are together more than a sleep, so that an
extension is due before the message shows.

*SchedulerProofs.* `TypeCorrect`. `SavedFirst`: a request schedules what it wrote
or what it loaded, and both were saved (`SavedInv`). `CoherentSchedule`: the
invariant `CoherenceInv` says what a lone request on a coherent job knows at
each of its steps (`StageInv`), for instance that a delete has already removed
the entry of the row it is about to remove; steps elsewhere do not disturb it
(lemma `Elsewhere`) or end the coherence (lemma `Unseen`). `DeletedForGood`.

*ImportFileProofs.* `TypeCorrect`, with the invariant `Position`: it is needed
because `BatchRaises` jumps to the end of the batch, which must be within the
file. `CountsAreExplained` and `SuccessIsCommitted`: `OpenTransaction` says that
what is pending or flushed belongs to rows of the current sub-batch, that every
row of it counted as done is among them, and that an aborted transaction has a
row that failed to be looked up; `Commit` then hands this to the closed rows. A
success has no failed row, so no such excuse. The lemma `OwnStep` treats each
action, `Bystander` the other executions. `InsertsNeverOverwrite`: `LockInv` says
that no two transactions hold a key and that a transaction whose row differs from
the committed one has deleted that one; `Accepts` is the unique constraint, and
the proof shows that it is enough together with the locks.

`DeliveriesConverge` states `RedeliveryConverges`, for any
number of executions, files and faults. It needs no comparison of whole outcomes:
only the last row of a key counts, and the invariant speaks of that one.
`Settled`: an execution that is past the row, and has no failed row, has put the
key right or will with the change it has pending (`Right`), unless another one
interferes; an interferer was not over when the first began, and is going to fail
or still has the row to commit (`Spoiled`, `Owes`). While its transaction is open,
an execution that holds the key has it right or, if its update saw nothing to
write, as the table has it. The locks do the rest: whoever commits the key
publishes a right row, or what was there. When every execution has succeeded or
was over before, nobody is left to interfere. One lemma per action
(`ApplySettles`, `FlushSettles`, `CommitSettles`, ...) treats the executions that
do not fail; a failure is an excuse for all the others (`ExcuseSettles`).

*ImportChecksProofs.* All five invariants, for files of any length. Four lemmas
compare the readers on one row and know nothing of the state; the invariant adds
what the header left (`Opening`, `HeaderKept`) and that the counts are bounded by
the rows read, and carries the comparisons through the counts. They need the
header because errors of the file and of the rows are counted together.

*ImportUploadProofs.* All five invariants, for any requests, executions,
instances and contents. `Files`: the files of one path are written by actors of
that path only, and an open file has some content. `Solitude`: whoever is alone
shares its path with no active actor. From these `Own`: whoever is alone finds
at the path what it downloaded, and reads what it validated; `Seen` adds that a
confirm downloads what the object holds when the request is sent. `Kept` says
who will remove the file at a path, or that whoever created it was cut short,
which gives `NothingLeftBehind`.

*ExportProofs.* For any requests, rows, executions and sizes of pages.
`TypeCorrect` includes that no file has more records than the limit of its
request: every page is cut to what is left of it. `SuccessIsServed` and
`CountIsTrue`, by `ServingInv`: the object at the remote path is the file of an
execution that does not write any more (`ObjectIsWhole`); a result is of an
execution that is over, whose local file is kept, unless its instance stopped, if
the result names it (`ResultIsKept`); and as long as executions follow each other,
the object and the result of a success are of the same one (`OneAtATime`). These
hold for any answer of the queries.

The others are about the rows themselves. `PagesAreMonotonic`: the filter is on
the rows' own columns and the order tells any two rows apart, so each row has a
position and every arrangement lists the rows by it (`Positions`); imported rows
move the others on (`InsertMoves`), deleted ones back (`DeleteMoves`); `PagesInv`
says for an execution between two pages that the rows it lacks are still ahead of
its offset if rows were only imported, and that the rows it has are behind it if
rows were only deleted. `QuietPagesAreExact` does not depend on the filter: when
rows are paired with vendors, several of an answer rank alike and the database may
arrange each page differently, but two lists of a set in the order of some ranks
have the same rank at each place (`SortedAlike`, by counting what is listed before
it), and what ranks alike is of one row. So `PagesInv` compares the file with
every arrangement at once (`Exact`), and how long it is with the number of rows
(`Counted`).

`PreviewSelectsRight`, `PreviewIsExported` and `PreviewOrdersRight` relate the
export to its preview, which lists the rows selected in memory as they are now
(`PreviewInv`). The first two are inductions over groups in groups, to any depth.
The induction theorems of the library take an operator as a parameter; the proofs
use well-founded minimality instead: if every group of a set has a group of the set
in it, the set is empty (`Shallowest`), applied to the set of counterexamples. The
same lemma shows that a function defined by recursion over groups exists
(`Recursion`), hence that `Kept`, `Raises`, `Matches`, `SqlGroup` and the others
satisfy their defining equations. `Meaning`: a filter without vendors, wildcards,
relative dates, equality with null and missing values under a NOT, whose ordered
texts the collation orders as Python does, is true in SQL exactly if it is true
in memory; it needs to know as well that it is neither true nor false only where a
value is missing, because of NOT, and that a NOT that does not raise has one part.
`Weaker`: a filter of ANDs that is true in memory is true in SQL for the row and
its own vendor. For the orders, `MemoryAsked` goes through the directions
`_apply_sorting` ends up with, and `SortedAlike` compares the two lists.

*RateLimiterProofs.* For every limit, length of the windows and cleanup interval.
The invariant says that the list forgets only admissions older than an hour and
that each admission had fewer than the limit before it in its window; so a window
with more than the limit would have a last admission that should have been
refused (`AtMostPerMinute`, `AtMostPerHour`, together `WithinLimits`). `Bounded`
and `WaitIsEnough`: a refusal has a witness in the list whose age its Retry-After
is computed from, and a second more covers what `int()` cuts off.

Only model-checked: liveness (`QueuedRunSettles`, `QueueDrains`,
`StartCompletes`, `ImportsEnd`), as fairness is out of the prover's reach. All
other properties of the passing runs are proved. TLC also checked every inductive
invariant before it was proved.

## 5. What disagrees with the documents

Four runs end in a violation, each of a sentence of the repository; the details
are under `findings` in `PROJECT.json`.

1. The comment at `job_runner.py:211` relies on the message being still there;
   after a redelivery another execution may have deleted it.
2. A disabled job is fired by other instances, or by one that was starting
   (`ui/src/pages/jobs/JobDetail.tsx:580`).
3. A lookup that the database refuses (a NUL character in an external id, for
   instance) takes the rows before it along; they stay counted as imported
   (`docs/IMPORT_PRODUCTION_FLOW.md:209`).
4. A filter on a nested field selects every pair of a row with a vendor that
   satisfies it, since the query does not join them
   (`docs/EXPORT_FILTER_DSL.md:98`).

Other differences that were met while the modules were written. Those marked
with a star are in a model, as the code has them; the others were read only.

- \* Azure: the extension drops the new pop receipt, so that a long run is
  delivered again while it is executed (`queue/interface.py:67`).
- \* `SCHEDULER_ENABLED=false` keeps the service from starting when a scheduled
  job exists (`docs/ENVIRONMENT_VARIABLES.md:82`).
- \* A batch that raises counts rows as failed that an earlier sub-batch has
  committed (`job_runner.py:659`).
- \* The in-memory sort of several keys of which one is a descending text does
  not order as the docstring at `query/engine.py:477` says.
- \* The preview of an export in memory and its SQL differ on missing values under
  a NOT, on wildcards, on conditions without a column, on equality with null
  (`query/engine.py:271`), on relative dates as bounds of `between` (resolved by SQL
  only), and on the order of texts wherever the collation is not that of the code
  points; an OR with a condition
  that cannot be translated selects fewer rows than the preview showed.
- \* Pages without a sort, or with ties, may repeat and skip rows even when nothing
  changes, as each page is a query of its own (`saas/base.py:180`).
- \* The count of a JSON export is the number of rows that match, not of the
  records in the file (`job_runner.py:340`).
- \* A preview of an import never removes its temporary file; a failed download
  leaves half a file on Azure; a stop, or a cancelled request whose download goes
  on, leaves the file of a confirmation.
- \* A run that succeeded with a local file is answered 404 by every other instance,
  and by its own if the disk does not survive a restart (`api/exports.py:471`).
- \* A run whose SUCCEEDED is committed and then raises is recorded as FAILED, with
  the result of the success (`job_runner.py:394`, `:253`).
- \* With a visibility extension of ten seconds or less the message shows before
  the first extension (`job_runner.py:95`).
- A client over a limit is answered 500 without Retry-After (`rate_limit.py:183`,
  `main.py:213`).
- \* A generation that fails leaves its partial file in the export directory.
- Nested or aliased columns are looked up by their names in the CSV writer
  (`file_generator.py:132`).
- A result names an error file even when the upload of that file failed.
- A client that waits exactly for Retry-After may be refused again, because the
  wait is truncated (this is why `RetryAfterSuffices` adds a second).

## 6. Not modelled

- *The in-memory queue* of the runner: a put, a get without an acknowledgement and
  one execution per run. A stop loses its runs, which nothing denies.
- *Authentication and the key cache* (`auth/`): verifying a token is a pure
  function of a library, and the cache is one cell that each fetch assigns as a
  whole. Nothing relates it to other state.
- *Error files and progress statistics*: written once, read by nobody in the
  program.
- *Listing, health and schema endpoints*: read only.
- *Layout of files*: the selection, aliases and order of columns.
- *What a relative date resolves to* (a fixed value here), *column types* and
  *lookups of referenced rows* in imports: data that no property distinguishes. All
  columns of an imported row other than the key are one value, hence a row is
  written whole or not at all (an update of a bill that fails half-way writes its
  first columns).
- *Google's adapters* have no module of their own: the storage downloads as Azure
  does and reports errors as S3 does, and the queue has stable receipts.
- *Configuration, logging, middleware*: settings are CONSTANTS; the rest keeps no
  state of interest.
- *The web interface* polls and submits the requests of the API modules; *the
  infrastructure code* matters by its redrive policy only.
