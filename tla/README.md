# Verification of image-resizer-goravel

TLA+ modules, TLC model-checking configurations and TLAPS proofs for the
image-resizing service: an HTTP server that takes an uploaded image and a list
of sizes, generates one WebP per size *inside the request*, keeps everything in
three tables and two disks, and recovers what a dead process left behind with a
sweep that runs every minute.

    tlc -workers 2 -config Concurrent.cfg MCImagePipeline     # a run
    tlapm ImagePipelineProofs.tla                             # the proofs

`PROJECT.json` lists the components, runs, mutants, findings, hazards, theorems
and, for every definition, the lines of the code it models.

## 1. Inventory

| Component | State | Operations | Modelled |
|---|---|---|---|
| `app/jobs/process_image_request_job.go` | locals of `Handle` | `Handle` and its helpers, the heartbeat goroutine | `ProcessImageRequestJob` |
| `app/services/image_request_service.go` | `processingSemaphore` | create, retry, run synchronously | `ImagePipeline` |
| `app/services/stale_request_sweeper.go`, `bootstrap/schedule.go` | – | the sweep, every minute | `ImagePipeline`, `StaleSweep` |
| `app/models` | tables `image_processing_requests`, `..._sizes`, `image_outputs` | – | `ImageTables` |
| `app/storage` | disks `images` (uploads) and `s3` (outputs) | put, delete directory, exists, delete | `ImageTables` and the actions that call it |
| `internal/imageprocessing` | – | `Inspect`, `ProcessSizes`, `processOne` | outcomes in the pipeline; dimensions in `ResizeGeometry` |
| `app/http` | – | Store, Show, Retry, `loadRequestDetail`, `RequestDetail` | `ImageApi`; the checks of Store in `StoreUpload` |
| `app/support/imageconfig`, `config/image.go` | settings | parsing, clamping | `ImageSettings` |
| `app/jobs/cleanup_expired_images_job.go`, `bootstrap/queue_runners.go` | – | delete expired outputs | `CleanupExpiredImagesJob` |
| `database/migrations`, `bootstrap/migrations.go` | schema, log of migrations | `Up` and `Down` of nine migrations | `SchemaMigrations` |
| `third_party/goravel-s3` | bucket | put, paged delete | outcomes of `Put` only |
| `public/frontend` | history in `localStorage` | submit, poll | no |

How they interact.  An HTTP goroutine runs `Store` or `Retry`, which calls the
service, which blocks on the channel `processingSemaphore` and then calls
`Handle` itself; there is no queue.  `Handle` starts a second goroutine that
refreshes `last_heartbeat_at`.  The scheduler runs the sweep in another one.
All of them meet only in the tables and on the disks: no transaction spans more
than one step of `Handle`, no row is locked, and every UPDATE selects by id
alone, whatever the status.  The framework abandons the *response* of a handler
that takes too long but not the handler (`config/http.go:38-48`).

What is hard: attempts that overlap (two retries, or a retry while the worker
that the sweep gave up on still runs), the death of the process between two
statements, statements that fail where the code ignores the error, state read at
the start of `Handle` and used at its end, and the clock race between heartbeat
and sweep; answers put together from three reads while the request goes on;
migrations cut short between statements; numbers at the edge of a limit.

What makes each part correct:
- *job*: an output is served only if it is stored, and then for ever; one
  attempt fills a row; the terminal status tells what the size rows tell; the
  upload is kept until the terminal write and gone afterwards;
- *service*: the cap holds, every slot comes back, a request settles;
- *sweep*: it takes the request of a worker only when its heartbeats were lost for
  a whole timeout, and every request left behind in time;
- *API*: an answer tells of one state of the request, names every size, gives
  only urls that resolve (while nothing fails), and once it says "completed" it
  never changes;
- *Store's numbers*: what is admitted obeys every limit and is served, whatever
  the settings are, and the output is what its mode promises;
- *migrations*: what is logged is applied, a cut run can be run again, and the
  schema at the end is the one the models use;
- *cleanup*: it removes what expired and nothing else, file before row.

## 2. Modules

    RequestLifecycle          abstract: what the service promises of a request
          ^ implemented by (refinement mapping in ImagePipeline)
    ImagePipeline             goroutines, semaphore, sweep, time, crash
      EXTENDS ProcessImageRequestJob      Handle, one action per statement
        EXTENDS ImageTables               tables, disks, budgets
    MCImagePipeline           symmetry, for TLC
    ImagePipelineSteps        proofs: types, locals, what each step does
      ImagePipelineProofs     proofs of every behaviour of the pipeline
        OneAttemptProofs      proofs of attempts one at a time; refinement
    StaleSweep                heartbeat against sweep, on a clock
    StaleSweepProofs          proofs about it

    ImageApi                  handlers, readers and their answers
      EXTENDS ImagePipeline
    ImageApiProofs            proofs: implements the pipeline; its answers

    StoreUpload               one upload: checks, rows, outputs, in numbers
      EXTENDS ImageSettings, ResizeGeometry
    MCStoreUpload             the inputs, for TLC
    ResizeGeometryProofs, StoreUploadProofs

    CleanupExpiredImagesJob   the job in every process, beside the migrations
      EXTENDS SchemaMigrations
    MCCleanupExpiredImagesJob symmetry, for TLC
    UpkeepProofs              proofs about the job and the migrations

**ImageTables.**  `row` is the request table (status, kind of error message,
whether `source_file_path` is set, `output_hash`, whether `started_at` is set, age
of `last_heartbeat_at`), `sizeStatus` the size rows, `output` the output rows
(none, empty path, or the hash in the path), `upload` the uploaded original by
how it decodes, `bucket` the stored objects.  A hash is a number that is never
drawn twice for a request.  `completed_at`, source dimensions and pixel sizes
control nothing and are left out.

**ProcessImageRequestJob.**  `pc[h]` is the next database statement or storage
call of goroutine `h`, `call[h]` its locals.  What the code computes between two
calls belongs to the action of the first.  Each action has the branches of the
code: success, the early return, and the failing call, which costs one unit of
the fault budget.  Errors the code drops (`markSizeFailed`, `markSizeCompleted`,
the rollback, `fail`, `cleanupSource`, a tick, the lookup in `persistOutput`)
leave their effect out and go on; errors it returns end the attempt.  A failing
statement has no effect, except that a failing `PutOutput` may have stored the
object.  Deferred calls run in Go's order: cleanup, stop of the heartbeat, the
receive from the semaphore.  The unique index on
`image_outputs.image_processing_request_size_id` is a branch of `CreateOutput`.
`Finish` leaves an old `error_message` alone, as the UPDATE does.

**ImagePipeline.**  `CreateRequest`, `PutUploadedFile`, `RecordSourcePath` and
`CheckRetryable`, `ResetRequest` are the two service functions up to
`ProcessImageRequestSync`; `Acquire` is the send, `Return` the deferred receive.
The transactions that create or reset a request are one step each.
`SweepStaleProcessingRequests` is one UPDATE.  `Lapse` is the passage of
`StaleProcessingTimeout` without a beat; while a job beats for the request it
takes a `Stall` (every tick of the timeout lost), which is budgeted.  `Crash`
takes every goroutine and the semaphore, keeps tables and disks.

**StaleSweep.**  One run of `Handle`, time in seconds (the resolution of the
columns).  A statement reads the clock first and takes effect up to
`WriteLatency` later, or fails: the error of a tick is dropped (`Beat`), a failed
sweep leaves the rows to the next minute (`Sweep`), and a terminal write that
fails, like the early returns after `MarkProcessing`, leaves the row "processing"
with nobody working on it (`ReturnUnfinished`).  The deferred stop waits for the
heartbeat under way (`StopHeartbeat`).  Server, worker and scheduler are one
process: `Die` ends all of them, and until `Restart` nothing sweeps.  The
ticker's channel holds one tick; the sweep computes its threshold before its
UPDATE.  `missed` and `lost` count the ticks and sweeps that failed in a row.
The module says what `Lapse` and `Stall` stand for: how many ticks a stall has to
lose, and when a lapse is acted upon.

**ImageApi.**  `view[g]` holds the locals of `loadRequestDetail` of goroutine
`g`, with the read that comes next; `reply[g]` the last answer its client got.
`Submit`, `Refuse`, `ServiceStatement` and `ReturnAndLoad` are Store and Retry
around the service: `ServiceStatement` answers 500 where the service returns an
error before the run, `ReturnAndLoad` drops the error of the run and reads the
row, as the controller does.  `LoadRow`, `LoadRequestSizes`, `LoadOutputs` are
the three SELECTs: a failing first one answers 404 (Show) or 500, the errors of
the other two are dropped and leave an empty slice.  `RequestDetail` lists a size
as an image if its *own* status is completed and as an error if it is failed.
The timeout middleware may discard an answer (`AnswerInTime`); the handler goes
on.  `view[g].reset`, `reply[g].reset` are history: a retry reset the request
after its row was read.

**ImageSettings, ResizeGeometry, StoreUpload.**  A setting is a number, unset, or
a text that is no number, which `GetInt` and `toInt64` both read as 0.  `Store`'s
checks are one action each, in order; `CreateRows` is the transaction (mode
default, quality clamped, `ALLOW_UPSCALE`); `TakeSlot` is the semaphore and the
start of the heartbeat, at a capacity or an interval that may be 0 or negative;
`ResizeNext` is one size of the loop.  `Dimensions` is `processOne`: which of
libvips' options it picks per mode, with `Thumbnail` the integer arithmetic of
`vips_thumbnail` (external: read off its documentation and its use here, to
rounding at halves).  A source has the dimensions of its header, and `rotated`
says that EXIF turns it on its side.

**SchemaMigrations.** The schema is the set of tables, columns and indexes that
exist. An `Up` is a list of statements, each with the guard of the block it stands
in (`HasTable`, `HasColumn`), a `Down` a list without guards; a blueprint of a new
table is one statement for the table and one per index. No statement before a
guard changes what it asks, so all are looked at when the `Up` begins:
`command.left` holds the statements still to be executed. The framework's runner
(external) takes one migration at a time and logs it afterwards. MySQL commits
statement by statement; on PostgreSQL the statements of one migration are undone
together. `Interrupt` ends the command anywhere, between the last statement and
the log included. `cut` remembers what was cut, and is what the properties are
conditioned on; `RerunIsAccepted` says that the statement due of an `Up` is
accepted, whatever was cut before, `Down`s excepted.

**CleanupExpiredImagesJob.**  `job[w]` is the call that worker `w` makes next:
SELECT, then per row `Exists`, `Delete` of the file, DELETE of the row; each may
fail or find what another worker left.  Rows are of two kinds, those from the time
outputs expired (on disk `images`) and those of today (no expiry, on `s3`).
`HasNulls` is how rows meet the migrations: a `Down` that must forbid NULL is
refused by them.  Rows are numbered by the table (`nextId`): dropped by a rollback
and made again, it starts from 1, and a worker that read its list before may
delete another row by the same id.  `job[w].stale` is history: the table was
dropped since the SELECT of this run.  `Exists` of the local disk has no error to report and is
assumed not to fail.

**RequestLifecycle.**  Status, sizes asked for, recorded and served, and nothing
else: pending -> processing -> terminal, only a retry of a failed or partially
completed request goes back, outputs appear while processing, "completed" needs
every size recorded.  `Interrupt` gives up the work of several requests at once:
one sweep may take as many as a crash left behind.

## 3. Runs

| Run | Instance | Shows |
|---|---|---|
| `Concurrent` | 1 request, 2 sizes (1 over the pixel limit), 3 goroutines, 2 slots, 1 fault, 1 crash, 1 stall | `TypeOK`, `ServedIsStored`, `SemaphoreCounts`, `ProcessingIsDated`, `OneWriterPerRow`, `CompletedIsRecorded`, `NoLeftoverUpload`, `UrlsArePermanent` |
| `Sequential` | 1 request, 3 sizes (1 over), all kinds of image, 1 goroutine, 2 faults, 2 crashes | `SharedHash`, `StatusAgreesWithSizes`, `SourceKeptUntilDone`, `ImplementsLifecycle` |
| `Liveness` | 1 request, 1 size, 2 goroutines, 1 slot, 1 fault, 1 crash, 1 stall, fairness | `ProcessingEnds`, `CallsReturn`, `PendingSettles` |
| `StaleSweep` | interval 2, timeout 7, period 3, latency 1, 19 s; any number of failures, deaths and restarts | `OnlyTheSilentAreSwept`, `RecoveredInTime` |
| `Api` | 1 request, 2 sizes (1 over), 1 handler, 1 reader, 1 fault, 1 crash | `ApiTypeOK`, `UrlsResolve`, `CompletedAnswerIsWhole`, `NothingIsUnaccounted`, `StoreAnswersWithOutcome`, `CompletedIsFinal` |
| `Admission` | sources 4 x 5, boxes 5 x 4, 5 modes, turned or not, enlarging or not; 11 settings at 11 values, 7 files, 10 lists of sizes; fairness | `TypeOK`, `OutputsDoNotCollide`, `BoxIsRespected`, `NeverEnlarged`, `LimitsHold`, `FailsClosed`, `AdmissibleIsServed` |
| `Upkeep` | both databases, deployed at 0 or 7 of 9 migrations, 1 interrupt, 4 rollbacks, 2 workers, 2 old rows, ids up to 3, 1 fault | `TypeOK`, `LoggedIsApplied`, `MigratedServesProgram`, `RerunIsAccepted`, `CleanRunClears`, `PermanentOutputsStay`, `NoOrphanOnImages` |
| `PendingStuck`, `DoubleRetry`, `EmptyPathAfterCrash`, `RetryWithoutSource`, `TwoHashes` | smallest that fail | violated: see section 5 |

Why these bounds.  Requests share only the semaphore, so one request with
several goroutines meets every interleaving on its rows; the semaphore property
does not depend on which request a goroutine works on.  Three goroutines on one
request are the attempt the sweep gave up on and two retries; with two slots one
of them waits.  Two sizes, one over the limit, reach all three terminal
statuses; three sizes add a partial loop over two outputs.  A fault budget of two
reaches a failing put followed by a failing rollback.  Two crashes cut an
attempt and its successor.  In `StaleSweep` the timeout leaves
room for one failed tick (interval + 2 * latency + one interval is 6) and not for
two, after which the sweep does take the row of a worker that lives; 19 seconds
cover the marking, ticks that fail, a row left behind and swept, and a restart
and a sweep that fails on the way, in every phase of the schedule.

In `Api` the one handler also reads, so two readers interleave with one attempt
at a time; with overlapping attempts "completed" is not final (section 5, 2), so a
second handler would refute what is asked here.  One fault is enough to lose any
one read; two sizes give every terminal status.  A stall is left out: it
matters only to overlapping attempts.  In `Admission` sides up to 5 contain every
order of source and box on either axis, rounding up, down and at halves, and
an axis that would vanish; the values of a setting lie on both sides of every
comparison, at it, and beyond libvips' and WebP's limits.  Rows are resized in
any order, which is more than the loop does.  In `Upkeep` the versions are the
empty database, from which every other is reached, and the first on which outputs
are permanent.  Four rollbacks from there take back the nullability of
`expires_at`, four columns and then `image_outputs` itself.  Only all four would drop
the table with rows without an expiry in it, if the first were not refused, and
only all four drop it, without such rows, under a worker whose next DELETE meets
the table made again.  Old row 1 expires
within the time of the run and row 2 does not; id 3 is that of a permanent row
beside them, and in a table made again ids 1 to 3 are.

Deadlock is not checked (`CHECK_DEADLOCK FALSE`): the number of requests is a
constant and a completed request cannot be retried, so all goroutines may rightly
be idle for ever; in `StaleSweep` and `Upkeep` the clock stops (in `StaleSweep` the
server may also be down when it does); a `StoreUpload`
that was answered, or waits for a slot that does not exist, does nothing more.

Attempts one at a time.  `SharedHash` and `ImplementsLifecycle` do not hold when
attempts overlap (section 5), and `StatusAgreesWithSizes`, `SourceKeptUntilDone`
do not either; the `Sequential` run has one goroutine and no stalls.  `UrlsResolve`
is among them: beside another attempt, an answer may list a row that is still
without its path, as the bare bucket.  The
properties that a failing statement may break say `Faultless` or `Undisturbed`
themselves, those of `Api` say `AllRead` for "and no read failed".

Fairness.  `WF(Progress(h))`: a goroutine that can make its next call makes it.
`SF(Acquire(h))`: senders blocked on a Go channel are served in the order in
which they arrived, so one that sees room again and again gets it.
`WF(Lapse(r))`: time passes.  `WF(SweepStaleProcessingRequests)`: the scheduler
fires every minute.  Nothing is assumed of clients, ticks, faults, stalls or
crashes.  `Admission` takes `WF(Next)`: it is a single goroutine, which goes on
while it can; blocking for ever on a channel without capacity disables `Next`.
`Api` and `Upkeep` assume none.

Every property of a passing run has a mutant: an operator next to the definition
that a plausible mistake would turn it into (a token kept on return, a missing
unique index, a row dated by `started_at` only, a timer instead of a ticker...),
with which TLC finds the property violated.

## 4. Proofs

All theorems are for any number of requests, sizes, goroutines, workers and rows,
any capacity and any number of failures.  Assumed are `TablesAssumption` (bounds
are naturals), `PipelineAssumption` (capacity positive, finitely many goroutines,
`NULL` is no request or size), for the sweep `TimingAssumption`, for the upkeep
`MigrationsAssumption` (the databases are MySQL or PostgreSQL, a deployed version
is one of the nine or none) and `CleanupAssumption` (no more old rows than ids, and
`None` is no time); that old row `i` expires at time `i` is part of `Init`.  Every invariant and every action
property of the passing runs is the property of a theorem.

*Types* (`StateTyped`).  `TypeOK` is not inductive: an action that indexes a table
by `call[h].req` needs it to be a request.  `LocalsOK` adds, by `pc`, which locals
are set: a goroutine that is not idle has a request, one that works on an output
has a size, and one whose heartbeat runs is inside `Handle`.

*Counting* (`SemaphoreIsSound`).  The set of goroutines between send and receive
grows by one when `tokens` does and shrinks likewise; every other step leaves it
alone, `Crash` empties both.

*Dating* (`ProcessingIsAlwaysDated`).  Only `MarkProcessing` writes "processing"
and it dates the row in the same UPDATE; only `ResetRequest` removes dates, and it
writes "pending" in the same transaction.  A late tick or a zombie's terminal
write only adds a date or ends the status.

*Storage* (`OneWriter`, `NoDanglingUrl`, `UrlsStay`).  The inductive invariant is
`OneWriterPerRow` (a goroutine past `CreateOutput` owns an empty row, alone),
`PathHasObject` (one that is about to record the path has stored the object) and
`ServedIsStored`.  The first rests on the unique index alone: it is what keeps the
rollback of an attempt from removing another's row, and with it urls permanent.

*Recorded outputs and uploads* (`CompletedHasAllRows`, `UploadsAreRemoved`).  These
hold of overlapping attempts too.  `AskedInv`: an attempt works only on sizes its
request was created with, and only those have output rows.  `RecordedInv`: while
no statement fails nothing is rolled back, so what an attempt counts as a success
keeps its row, whoever wrote it.  `UploadInv`: while nothing fails and nobody dies,
every upload has an owner, which is a goroutine that will remove it: the only one
on a pending request, or any past `MarkProcessing` with the path in its copy of
the row.

*Attempts one at a time* (`OneAttemptProofs`).  The code lets two retries run side
by side (section 5, 2), and then `SharedHash`, `StatusAgreesWithSizes`,
`SourceKeptUntilDone` and the refinement are false.  The theorems therefore read
`Spec /\ []OneAttempt => ...`: of every behaviour in which no two goroutines work
on *one* request, with any number of requests side by side, crashes, failing
statements, sweeps, and retries one after the other.  Clients whose retry is sent
after the handler of the attempt before has returned produce such behaviours;
with one goroutine all are (`LoneHandlerIsAlone`).  `AloneInv` ties locals to
tables: the status of the request to the step (`StatusOf`), the copy of the hash
to the row (`HashOf`), what is counted to the output rows (`WonOf`), the sets of
sizes to the size rows (`SizesInv`), and the heartbeat to the age the sweep sees
(`BeatOf`).

*Refinement* (`ServiceImplementsLifecycle`, `LoneServerImplementsLifecycle`).
With `AloneInv` each step of the service is a step of `RequestLifecycle` or leaves
its four variables alone: `MarkProcessing` is `Begin`, `CreateOutput` `Record`,
`Rollback` `Forget`, `RecordStoragePath` `Serve`, `Finish` and `Fail` `Finish`,
`ResetRequest` `Retry`, the sweep `Interrupt`.  It also takes that no heartbeat is
lost for a whole timeout (`Unstalled`, which `MaxStalls = 0` implies): if one is,
the sweep ends a request whose worker goes on to write outputs and a second
terminal status.  The second theorem has one goroutine and `MaxStalls = 0` instead
of hypotheses on the behaviour, and is what `Sequential` checks.

*How work ends* (`WorkIsAccountedFor`, `LoneAttemptsEnd`).  `WritingInv`, of every
behaviour: while nothing fails and nobody dies an output row without a path has a
goroutine about to write it; while no statement fails a size is marked completed
only with a row.  `EndInv`, of lone attempts: a run that returns left a terminal
status, and only failed requests carry an error.

*Sweep* (`NoFalsePositive`, `Recovery`), for any interval, timeout, period and
latency up to the period.  `Punctual` bounds the age of the heartbeat of a worker
at work by interval + latency, one more gap for each tick that failed, and the
statement under way, whether the next tick is due, waiting or being written.
The second theorem follows a row left behind through the sweep that comes first
after it is stale and the server is up, and through those that come when it fails.
With the defaults (15 s, 120 s, every minute) the sweep takes the request of a
worker at work after seven ticks failed in a row, or fewer when statements are
slow: with none failed a statement may take up to 52 s, with one up to 35 s.
Nothing bounds how long the server is down; it counts from the restart.

*API* (`ApiRefinesPipeline`, `AnsweredPathsResolve`, `ApiTyped`).  Every step of
the API is a step of the pipeline or leaves it alone, so its theorems carry over.
A url that was made of a recorded path resolves, in every behaviour: the path was
in a row when it was read, the row's object was stored then (`ServedIsStored`),
and no action shrinks the bucket; `ApiInv` carries that in `reply`, and that a
reader past its first read has a request.

*Answers* (`AnswersResolve`, `AnswersAccountForAll`, `CompletedAnswersAreWhole`,
`CompletedAnswersAreFinal`, `ServicesAnswerWithOutcome`).  An answer is put together
from three reads.  A terminal row changes only by a retry, and a retry is noted by
whoever has read the row (`ResetIsSeen`); so what has been read of an outcome, and
what was answered, agrees with the tables unless noted (`AnswersInv`).  "Completed"
cannot be retried, so such an answer stays what the tables say for ever.  A size
read as completed had its path by then, unless something failed or died, and the
outputs are read after the sizes: so no answer gives the bare bucket
(`AnswersResolve`).  They
take `[]OneAttempt`; "completed" takes `[]Unstalled`; that Store and Retry answer
with the outcome of their own run takes `[]LoadsAlone` (nobody works on a request
while the handler that did loads its detail).  With one handler, any number of
readers and `MaxStalls = 0` there are no hypotheses left (`LoneServerAnswers`);
that is the `Api` run.

*Geometry* (`ModesKeepTheirWord`).  The scale taken for both axes is the tighter
of two fractions (the looser when the rest is cropped), so the other axis is at
most (at least) the box before rounding, and an integer bound survives rounding
to the nearest; the axis the scale came from is the box exactly.

*Store's numbers* (`AdmittedInvariance`, `BoxAlwaysRespected`, `NoOutputEnlarged`,
`PathsAreDistinct`, `LimitsAlwaysHold`, `UnreadableLimitAdmitsNothing`,
`UploadTyped`), for any set of inputs.  The inductive invariant `Admitted` says
which checks are behind each stage, that rows exist only if all passed and each
is the row of some size asked for, and that an output is `Produced` of a row
within the pixel limit.  The properties follow from it by arithmetic: they say
nothing of how Store got there.  Assumed are `SettingsAssumption` (the three odd
values differ from numbers) and `InputsAssumption` (what a request may hold).

*Migrations* (`LoggedMigrationsAreApplied`, `MigrateCanBeRerun`,
`SchemaServesProgram`).  `AllSound` is what the nine have in common: each makes
parts of its own (`Owner`), the part its guard asks for first, in a table that it
or an earlier one makes, and its `Down` takes these away and nothing of an earlier
one.  From there on the proof does not look at single migrations.  `FitsIn` says of
each how the schema stands to it: logged, its guards are there, and the rest unless
a cut on MySQL left it out; not logged, its parts are absent unless an `Up` was cut,
and then none is there without its guard.  `UnderWay` says what the command under
way has done and left.  A statement due is accepted because its guard was missing
when the `Up` began, and with the guard everything behind it.

*Cleanup* (`CleanRunsClear`, `FilesGoFirst`, `PermanentRowsStay`, `UpkeepTyped`),
beside the migrations, for any number of workers.  `RowsInv`: only old rows expire
and only they have files; no two rows share an id, and none has one to come.
`JobIsSound`, of each worker: the rows it took had expired by then, the file of the
row it is about to delete is gone, and, if no statement of the run failed, the
rows behind it are gone too; and as long as the table it read is there, each id on
its list is that of the row it read or of none (`IsThat`).  None of it is
disturbed by the other workers, who only remove; a table that is dropped ends the
last part, and with it what keeps the DELETE off a permanent row of the next one.
That no rollback drops the table over a permanent row (`TableStays`) is the
refusal of `Down` of 20260902000002, which comes before.

What proving changed in the models:
- `Create` of `RequestLifecycle` read `SUBSET Sizes \ {{}}` as the subsets of
  `Sizes \ {{}}`, which let a request ask for nothing;
- `RequestLifecycle` had no `Interrupt`: with more than one request a sweep is not a
  step of one of them;
- `StoreAnswersWithOutcome` excused crashes and need not;
- `RerunIsAccepted` was stated over a record of refusals, which a completed `Down`
  could leave behind: with more than two rollbacks it was false of a database that
  had recovered.  It is now about the statement that is due.

Only model-checked, because liveness and fairness are out of the prover's reach:
`ProcessingEnds`, `CallsReturn`, `PendingSettles`, `AdmissibleIsServed`.  The
violations of section 5 are TLC's too.

## 5. Where the code and its comments disagree

1. `PendingStuck`: a request whose process dies before `MarkProcessing` (while it
   uploads, waits for a slot, or just after a reset) is pending for ever.  The
   sweep looks at "processing" only, a retry refuses it.
2. `DoubleRetry`: the status check of a retry and its reset are two statements;
   two concurrent retries both pass, and the second resets a request that is being
   processed or is completed.
3. `EmptyPathAfterCrash`: a crash between creating the output row and recording its
   path leaves an empty path; the next attempt takes the row for a finished output.
4. `RetryWithoutSource`: `source_file_path` outlives the file, so a retry after
   normal cleanup is reported as "invalid image".
5. `TwoHashes`: overlapping attempts assign two hashes to one request.

Seen while modelling and not kept as runs: a retried partially completed request
whose source is gone ends "failed" although it has outputs
(`README.md:121-122`); a failing terminal UPDATE returns with the row still
"processing" until the sweep (`image_request_service.go:44-46`); a crash between
the terminal write and the deferred cleanup leaks the upload of a completed
request for good; the deferred cleanup of a finishing attempt can take the source
from a retry that has already reset the row; `Store`'s comment (line 104) speaks
of a unique index on `image_processing_request_sizes` that no migration creates.

Further:
- A partially completed request that is retried after its source is gone ends
  failed with every size pending: its outputs are still stored and recorded, but
  no answer lists them, as images or as errors, any more.
- `README.md:116-118` says quality overrides "are clamped", but one out of range is
  rejected with 422 (all but 0, which the validator takes for absent).
- GET under a database error answers 404, and an error of the second or third read
  answers 200 with images or sizes missing (the properties of `Api` therefore
  assume that no read fails).
- A row with an empty path (`EmptyPathAfterCrash`) is answered with the url of the
  bare bucket, for good if its size counts as completed.  Another client's answer may be older than a "completed" one, from a
  row read before.
- `fill` without upscaling compares with the dimensions in the header, not with the
  turned image, and enlarges a source that EXIF turns on its side.
- The limit of a side is libvips' 100,000,000, but WebP ends at 16383: with
  `MAX_IMAGE_WIDTH` raised, a size is accepted that no run can produce
  (`image_controller.go:65-71` says it could not be demanded).
- `MAX_CONCURRENT_IMAGE_JOBS=0` lets every upload wait for ever, a negative value
  panics at start; a heartbeat interval of 0 or less panics in a goroutine.  A
  garbled `IMAGE_QUALITY_MAX` reads as 0 and lowers every quality to it.
- On MySQL an interrupted migration is logged by the next run without its second
  column or its indexes, the unique index on
  `image_outputs.image_processing_request_size_id` among them, on which
  `OneWriterPerRow` rests.  A rollback cut before its log makes a later `Up` or
  `Down` fail.
- The cleanup deletes rows by ids that it read before
  (`cleanup_expired_images_job.go:49-50`): if `image_outputs` is dropped by a
  rollback and made again under a worker, it may take a permanent row
  (`PermanentOutputsStay` leaves out this case, and no more).
- The model's tag says `expires_at` is not null and its comment that it is computed
  (`image_output.go:8-13,24`); the job never sets it.  The cleanup deletes from disk
  `images`, outputs are on `s3`.  `persistOutput` takes an expired row for a
  finished size, which the cleanup may remove later.

## 6. Not modelled, and the plan

Left to do:
1. **Cleanup with the pipeline**: expired rows and the retry that takes them for
   finished, in one module.
2. **Proofs**: which clients keep attempts apart (`[]OneAttempt` as a consequence of
   an assumption on the clients, in place of a hypothesis).

Left out for good:
- the S3 driver, a vendored fork: the application calls only its `Put`, which
  `PutOutput` is; its directory operations have no caller here;
- the browser client: a form, a poll that every answer with an outcome ends, and
  a history in `localStorage` without a lock, which leaves no property to check;
- how the framework keeps and reserves queued jobs (nothing dispatches any);
- image data and codecs, column types and defaults, wording of messages, logging,
  views, wiring (facades, providers, other configuration files), scaffold routes
  and tests.
