# A verification of the reporting-operator

The reporting-operator (`src/pkg/operator`) turns Prometheus metrics and AWS billing data into
reports.  It is a Kubernetes controller: users write `Report`, `ReportQuery`, `ReportDataSource`,
`StorageLocation`, `HiveTable` and `PrestoTable` objects, informers copy them into caches, work
queues feed their keys to workers, and the workers run SQL in Presto and Hive and write statuses
back.  This directory holds TLA+ models of it, the TLC configurations that check them on small
instances, and TLAPS proofs of the properties that matter most.

`PROJECT.json` lists the components, the hazards line by line, and the source lines of every
definition.

## The system

| Component | State | Operations | Talks to | Module |
|---|---|---|---|---|
| Report controller (`reports.go`, `report_generator.go`) | the Report's spec and status, the report table | `syncReport`, `handleReport`, `runReport` and its Updates, `GenerateReport` | API server, listers, Presto, table controllers, its own queue | `ReportPeriods`, `ReportController` |
| Prometheus importer (`prestostore/`, `promsum.go`, part of `datasources.go`) | last timestamp, import status, the metrics table | time ranges, chunked queries, batched stores, imports on demand | Prometheus, Presto | `TimeRanges`, `PrometheusImporter` |
| ReportDataSource controller (`datasources.go`), ReportQuery controller (`reportquery.go`), dependency resolver (`reporting/dependencies.go`, `validate.go`) | TableRef, finalizers, map of importers | one handler per kind of data source, resolution of a query's inputs, queueing of dependents | listers, table controllers, Report queue | `DependencyResolver`, `DataSourceViews` |
| HiveTable and PrestoTable controllers (`hivetables.go`, `prestotables.go`) | statuses, finalizers, tables, partitions | create, wait for, drop, alter | Hive, Presto, owners | `TableLifecycle`, `HivePartitions` |
| StorageLocation controller (`storagelocations.go`, `storage.go`) | status, finalizer, the Hive database | create, drop, choose a default, queue dependents | Hive, all who store tables | `StorageLocations` |
| Work queues and informer handlers (`queues.go`) | queued and delayed keys, retry counters | add, update and delete handlers, `processResource`, `handleErr` | every controller | in each controller's module |
| Operator process (`operator.go`) | contexts, lease, queues, servers | start, elect, work, drain, end | all | `OperatorProcess` |
| HTTP API (`http.go`) | a request's progress | read reports in three ways, start an import, push metrics | listers, Presto, importer | `ReportsAPI` |

What is hard here: several workers and a user act on the same objects through stale copies; a sync
makes several writes, any of which may conflict; results are stored in Presto before the status that
accounts for them; an object that waits is kept alive only by a timer in memory, by a resync or by
the controller of another object; dependents are queued before the status they will read has been
written; retries are bounded; a crash may fall between any two steps.

What makes it correct: each period and each sample is stored once and none is lost; a period is
stored only when it is over and its data is there; what a status says exists does exist; what is
deleted goes away; whoever waits is woken; one process works at a time and ends when told to.

## The modules

All controllers are modelled alike.  An action is the code between two points at which another actor
can interfere: a call of the API server, of Presto, Hive or Prometheus, or the end of a sync.  The
API server's store (`api` or `obj`), the informer's copy (`cache`) and the copy a worker holds are
separate, an Update is refused when the worker's copy is not the stored version, and watch events are
actions of their own (`deliver`, `receive`).  `callFails` ends a sync with an error at any call,
`restart` loses what the process keeps in memory; both are limited by a bound on faults.

Several modules have a variable that says which installation is the case (`setup`, `KindOf`,
`EnableFinalizers`): it is chosen in Init and nothing changes it, so that one run covers several
installations.

An operator whose name is another one's with a suffix (`nextChunkStart_noStep`) is a faulty variant
of it, the change a plausible bug would make.  Nothing uses these; put in place of the original they
make a property fail, which shows that the property notices the difference.

### Reports

**`ReportPeriods`** is the pure part of the Report controller: the Report object, `isReportFinished`,
the validity of a spec, and `getReportPeriod` with `getNextReportPeriod` and
`getRunOnceReportPeriod`.  Instants are naturals, an unset pointer is `Null`, and the cron library is
the operator `NextTime`.  The five schedule periods of `getSchedule` all end in such an operator, so a
spec's schedule is "none", "cron" or "malformed".

**`ReportController`** is the state machine.

| Code | Actions |
|---|---|
| `processResource`, `syncReport` | `syncReport` (takes a key, reads the lister) |
| `handleReport`, `addReportFinalizer`, `removeReportFinalizer` | `addReportFinalizer`, `removeReportFinalizer` |
| `runReport`, in the order of its calls | `runReport`, `setReportStatusInvalidReport`, `createTable`, `putTable`, `decide`, `putWaiting`, `putUnmet`, `putRunning`, `renderAndDelete`, `insertResults`, `putFailed`, `putFinal` |
| informer handlers, delaying queue | `deliver`, `fireTimer` |
| `handlePrometheusMetricsDataSource`, as Reports see it | `importMetrics`, `publishImport` |
| users | `createReport`, `editReport`, `deleteReport`, `createReportQuery` |
| time, process | `tick`, `restart` |

State: `api`, `cache` and `obj` are the three copies of a Report; `cacheCur` and `cur` say whether a
copy still has the stored resourceVersion (versions are only compared for equality).  `queue`,
`timer` and `requeues` are the rate-limited work queue, `rows` the report table, `imported` and
`coverage` what the importer stored and what its status says.  `read` is what `runReport` has read at
its start (reports.go:353-361): the clock, the LastReportTimes of the sub-reports and the import
status.  It decides on these copies only after it has created the table and stored `TableRef`, which
may take a while.  `redone`, `rescoped`, `wiped`, `first`
and `dropped` are history that no guard reads.

Simplifications, and why they lose nothing the properties tell apart:
- the work queue never gives one key to two workers, so the position of a sync is `pc` of its key;
- the watch may skip intermediate versions: `deliver` brings the stored object;
- a failed API call has no effect, a failed insert stores nothing (a Presto INSERT is atomic);
- back-off delays (5 to 80 ms) are shorter than a unit of the clock;
- the condition message is not kept, so "unchanged message, skip the update" is a choice whenever the
  reason is unchanged;
- the branch of reports.go:497 (condition True with reason ReportingPeriodWaiting) is never taken,
  because that reason is only ever stored with status False;
- a deleted Report is not created again under the same name.

**`ReportLedger`** is the abstract specification: a ledger of rows that continues where it was last
recorded.  `ReportController` implements it with `last` the stored LastReportTime
(`ImplementsLedger`), checked by TLC and proved.

**`MCReportController`** gives the instances.  The schedule fires at even instants, so that
reportingStart and reportingEnd can fall inside a period; where that is not the point
(`report_catch_up`) it fires at every instant.

### Importing metrics

**`TimeRanges`** is `getTimeRangesChunked`; `truncateToSecond` truncates to a minute, as in the code.
**`TimeRangesCheck`** compares it with a reference: which instants an import is meant to reach.

**`PrometheusImporter`** has one job per data source for the worker that syncs it and one for a
request on demand.

| Code | Actions |
|---|---|
| `handlePrometheusMetricsDataSource` | `syncReportDataSource`, `createTable`, `ImportFromLastTimestamp`, `putImportStatus` |
| `ImportFromTimeRange`, `StorePrometheusMetrics`, `ImportFromLastTimestamp`'s end | `step`: `queryPrometheus`, a batch stored, `endImport` |
| `importPrometheusForTimeRange` | `importPrometheusForTimeRange` |
| `updateReportDataSource` handler, resync, `AddAfter`, `handleErr` | `deliver`, `resync`, `fireDelayed`, the end of each sync |
| environment | `callFails`, `insertSeemsToFail` (an INSERT that is stored although the call fails), `recreateDataSource`, `restart`, `tick` |

Samples are `[series, at]` records; values are not told apart.  Prometheus is given the samples it
will ever hold: one series from the beginning with a gap of two minutes, in which queries find
nothing, and one that appears later.  A status Update that fails makes the error message read a nil
pointer (datasources.go:303), and no worker recovers from a panic: that failure is `restart`.

**`MetricsTable`** is what Reports rely on: samples are appended newest last, each once, and the
published window only grows and never covers an instant whose samples are missing.  The importer
implements it (`ImportsAsPromised`) while it is `Undisturbed`: one data source per name, no imports
on demand, no deletion, a fresh cache, and INSERTs that hold a whole query.  Each of these conditions
is needed; see the known deviations.

### Tables, partitions, storage

**`TableLifecycle`** follows a table from its owner (a ReportDataSource) through HiveTable and
PrestoTable to Hive and Presto and back, for three kinds: a Hive table, a view, and a
`createTableAs` table that a user creates.

| Code | Actions |
|---|---|
| informers | `receive`, `handleHiveTableEvent`, `handlePrestoTableEvent` (with the eager drop), `resync` |
| `syncHiveTable`/`handleHiveTable`, `syncPrestoTable`/`handlePrestoTable` | `syncTable`, `addFinalizer`, `createHiveTable`, `handlePrestoTable`, `putHiveTableStatus`, `putPrestoTableStatus`, `createPrestoTable`, `dropForDeletion`, `removeFinalizer` |
| owner's sync | `syncOwner`, `createHiveTableCR`, `createPrestoTableCR`, `waitForHiveTable`, `waitForPrestoTable`, `waitTimesOut`, `removeOwnerFinalizer` |
| users, Kubernetes | `createOwner`, `deleteOwner`, `createTableResource`, `deleteTableResource`, `collectGarbage` |

Watch events are a queue per object, because a deletion followed by a creation is seen as both.  The
owner reads its own object fresh; what a stale one does is in `DataSourceViews`.

**`HivePartitions`** has a HiveTable with `managePartitions`, whose wanted partitions its `owner`
writes: a user (`editPartitions`), or the AWS billing sync (`AwsStep`), from the manifests of a bucket
and with the keys `start` and `end` that `getDesiredPartitions` gives each PartitionSpec.  The
HiveTable worker (`WorkerStep`) drops and adds partitions and records them.  Partition values are
sequences of tokens because the code joins them with "-" to tell partitions apart.  Quoting in
`FmtPartitionSpec`, and whether Hive takes what it yields, is left out.  So is that
`updateAWSBillingPartitions` sets the spec in the informer's own object before the Update
(aws_usage_hive.go:124): when that Update is refused, the cache shows the wanted partitions early.

**`StorageLocations`** has the database of each StorageLocation, the choice of one (`getStorage`),
and the users that wait for it.  The run has a Prometheus data source and a view; the other two kinds
of users, `aws` and `report`, are in the module, and the known deviations say what they run into.
A StorageLocation without a Hive part, or with a spec that `sync` rejects before any call
(storagelocations.go:95-100, 117-118), is left out; two StorageLocations never name one database.

### Data sources that depend on each other

**`DependencyResolver`** is `ResolveDependencies` as a function of the objects that exist, with its
memory of what is resolved and its depth limit.  The Go functions call each other; here each is given
the results of the nested `resolveQuery` calls, a recursive function over calls (`queriesResolved`),
and the loop over a query's inputs is a recursive function over their positions (`inputsResolved`).
**`DependencyResolverCheck`** compares it with the transitive closure of the reference graph, for
every graph of up to three queries with one input, or two with two, a data source and a Report.

**`DataSourceViews`** has the syncs of all kinds of data sources but Prometheus, views of queries,
ReportQueries and the validation of Reports.

| Code | Actions |
|---|---|
| `syncReportDataSource` and its handlers | `syncReportDataSource`, `addReportDataSourceFinalizer`, `handleReportDataSource`, `createTable`, `putTableRef`, `queueReports`, `queueDataSources`, `removeReportDataSourceFinalizer` |
| `handleReportQuery` | `syncReportQuery` |
| `validateReport` of `runReport` | `validateReport` |
| informers and users | `deliver...`, `resync`, `create...`, `deleteDataSource` |

`stripped` is there because `removeReportDataSourceFinalizer` changes the informer's own object.
No query reads a Report here (`ViewsAssumption`), so `ValidateQueryDependencies` has only data sources
to look at; a Report that waits for the table of another one is in `ReportController` (`IsValid`).

### The process and its API

**`OperatorProcess`** is `Reporting.Run`: `setup`, the Presto probe, informers, election, the final
`select`, and the shutdown, with the goroutines it starts: servers, workers (`startWorker`, `runWorker`,
`processResource`), `shutdownQueues` and the vendored elector.  `waitGroup` and the end of the process
(`endProcess`) are two steps: OnStartedLeading may still add workers to the group in between.

The elector's `tryAcquireOrRenew` reads the lease (`observe`, or the read that goes with the Update)
and sends an Update; `applyUpdate` is the API server, which refuses an Update of a lease that has
changed since it was read; `acquire` and `renew` are the answer, which may come at any time after
that, and `updateFails` a refusal or a lost request or answer.  `renew` gives up at its deadline, with
its call still under way; `acquire` has no deadline (leaderelection.go:206-217).  The clock is kept as
ages: ticks since a process knew that it had renewed the lease, saw it change, or had its Update take
effect.  An answer that comes more than `AnswerTime` after that is `late`.  `tick` waits for a process
that has to give the lease up (`InTime`): the elector's deadline is half the lease after a retry
period, which leaves it the rest of the lease to end.  There is one worker per queue.

**`ReportsAPI`** has a request of any endpoint and format (`getReport`, `getQuery`, `getTable`,
`getReportResults`; `findDataSources`, `startImport`, `storeBatch`, `endImport`, `receiveResult`,
`finishImport`) and the `world` that edits the query and the Report and makes, fills, empties, drops and lists the table between two of
its steps.  Of a row it keeps the map columns that are not NULL, the only values
`writeResultsAsCSV` cannot write, and the columns with a string that breaks a table: text/tabwriter
sends what it has when a line has a single cell or a form feed, and csv.Writer writes a quoted line
break as it is.  An import of a collect request keeps its slot of the semaphore until the handler has
received its result (`sending`).  A range to collect is a number of chunks, of which an import takes
`MaxTimeRanges` (`Total`; query.go:36-40, promsum.go:306).  One request suffices: requests share nothing but the world.  The fetch endpoint
only reads the metrics table and is left out, as are parse errors of a request body.

## The runs

| Run | What is in it | Properties |
|---|---|---|
| `report_kinds` | scheduled specs whose reportingEnd is moved, run-once, forced, overwriting, malformed and unbounded ones, edited into one another by three user writes; a query that comes late, finalizers, one fault or restart, clock to 3 | `TypeOK`, `ExactlyOnce`, `WaitingReportHasWakeup`, `NoLostPeriod`, `FinishedReportHasRows`, `LastReportTimeAdvances`, `ImplementsLedger` |
| `report_rollup` | a roll-up and a sub-report on two workers, the roll-up's query arriving late; the sub-report may report between what the roll-up reads and what it decides | `RollupReadsReportedPeriods` |
| `report_catch_up` | one scheduled Report that reads metrics, fair; a period at every instant, a first import that reaches one unit back, clock to 2, one user write (reportingEnd or a deletion), one fault or restart | `RowsBackedByData`, `ScheduledReportsCatchUp` |
| `importer` | an undisturbed installation (a gap in the samples, clock to 12, two faults, give-ups, restarts) and a busy one (on demand, re-creation, laggy cache, batches of one), of which only the types are checked; every import of up to six minutes | `NoDuplicates`, `RangesCoverOnce`, `ImportsAsPromised`, `CatchesUp` |
| `tables` | one table of each kind, up to four objects of its name one after the other, finalizers, one fault | `StatusMeansTable`, `AnnouncedTableIsDropped`, `OwnerGetsTable` |
| `partitions` | the AWS billing sync of two billing periods, or a user's list of two partitions; two locations, three changes, manifests and partitions that disappear, one fault, fair | `TypeOK`, `SpecNeverReverts`, `PartitionsArrive` |
| `partitions_periods` | two billing periods, two changes of the bucket, fair, no faults | `OnePartitionPerPeriod` is **violated**: with the keys that are written all billing periods are one partition (aws_usage_hive.go:152) |
| `storage` | two StorageLocations, one unmanaged, both default; two users; with and without finalizers; one fault | `StatusMeansDatabase`, `UsersGetTables`, `DeletedStorageGoes` |
| `views` | a data source, and a view and a Report whose query reads it: an AWS or PrestoTable source with a late query and a fault, and finalizers without faults; every small graph of references | `TypeOK`, `ResolvesEverything`, `FailsWithReason`, `ViewsReadTables`, `ViewsGetTables`, `ReportsGetValid`, `DeletedDataSourceGoes` |
| `process` | one process with two servers and a queue, told to stop at any time and restarted; servers that fail, lease Updates that fail or are late; lease of 4 ticks; fair | `CleanExitWaits`, `StopsWhenTold`, `ServerFailureEnds`, `LeadsOrEnds` |
| `process_lease` | two processes that work one queue each; lease of 6 ticks, answers late after 1 | `OneWorks` |
| `api` | all endpoints and formats against a changing query and table, with rows that cannot be written or break a table; collect and store requests over three data sources with two slots, ranges of up to three chunks of which two are taken, a Presto error; fair | `TableLeavesHiddenOut`, `TabularAnswersAreWhole`, `AcknowledgedIsStored`, `QuietAfterAnswer`, `EveryRequestAnswered` |

Where a run has no `TypeOK` of its own, the first invariant of its module includes it.

Bounds.  For Reports, two consecutive periods, one fault and two or three user writes are enough for every
pair of adjacent steps of one sync to be separated by a conflict, a restart or an edit, for a sync to
start from a stale copy left by the previous one, and for a period cut short by reportingEnd to follow
a full one.  For the importer, six minutes with chunks of two and a limit of four per import give
several imports of several chunks, the second series begins inside a chunk, a gap of two minutes makes
a query that finds nothing, a backfill of five units starts inside a minute, and two faults allow a
failure of the recovery from the first.  A table needs an object, its deleted predecessor and the pair
of HiveTable and PrestoTable.  Retry limits are 0 or 1 instead of 5 or 20: keys are then given up
sooner, which only adds behaviours.  Two slots for three imports fill the semaphore; one row per CSV
buffer puts an error before and after the first flush.  In a lease of six ticks the
leader's deadline and a timely answer fit (`Slack`); the code's is 60 s with a deadline of 2 + 30 s,
which leaves an answer up to 28 s.  `process_lease` is too large
for liveness: that a standby takes over an expired lease is a step of it, not a promise that is checked.
`ScheduledReportsCatchUp` excuses a Report whose reportingStart lies before what the first import
reaches (`StartsBeforeMetrics`).  The resolver's depth limit is 4 instead of
50 and longer than every path of the graphs without a cycle.

Deadlock is checked where something can always happen (the importer's and the manifests' periodic
work); the other systems come to rest when all objects are settled and the bounds are used up.
There, that work which can go on does go on is what the liveness properties check.

Fairness.  Every fair specification asks for what goroutines, watches and timers give: a started
sync goes on, a queued key is taken, events are delivered, informers resync, delayed keys become due,
Kubernetes collects garbage, and, where the clock matters, time passes.  Users, faults, restarts,
signals and lease renewals owe nothing.  `syncReport` is strongly fair because another key's sync may
hold the last worker, and `applyUpdate` and `acquire` because of a process that tries for the lease
again and again not every attempt fails; everything else is weakly fair.  That resyncs are fair is what makes retry
limits harmless for data sources and tables; Reports ignore them (queues.go:35), which is why their
liveness needs the importer.

## The proofs

Each theorem holds for every value of the constants that satisfies the named ASSUME of its module,
and TLC evaluates that ASSUME in the run of the module.  Some hypotheses are stated in the theorems
themselves:

- The Report theorems assume `ScheduleAdvances`: the cron library's `Next` returns an instant later
  than its argument.  It quantifies over all instants, so TLC cannot evaluate it.
- The table theorems assume `EnableFinalizers`.  Without finalizers the statement is false: the
  delete handler may drop the table of a new object of the name (queues.go:255, below).
- The importer theorems assume `MinuteSteps`: the step size is the minute that `truncateToSecond`
  truncates to, as by default (operator.go:59).  With other steps they are false (query.go:169 and
  198, below).  `ImportsKeepPromise` also assumes that samples are taken at whole minutes
  (`SamplesAtMinutes`), which minutes is left open, and `StartStays`: either `ImportFromTime` is set,
  or a backfill finds a sample in its first range.  A backfill that finds nothing has no position to
  resume from (importer.go:112, below).
- `ElectionInvariant` and `OneProcessWorks` assume `Slack`: the leader's deadline and the time after
  which an answer is late fit in the lease together.
- The theorems about the resolver assume `NamesAgree`: inputs of one name have one type and default
  in all queries.  Without it they are false (dependencies.go:122, below).  `WellFormed` says that
  input definitions are lists; `ViewsAssumption` implies it for the controllers.

An invariant of the runs is never inductive by itself; the list says what has to be carried along.

Reports (`ReportControllerProofs`), for any number of Reports and workers and any dependency
relation:

- `TypeCorrect`: `Spec => []TypeOK`, one step per action, with one lemma
  per helper (`Release`, `Fail`, `Succeed`, `UpdateAccepted`, `UpdateRefused`, `Outdate`,
  `DependentsQueued`).
- `LedgersInvariant`: `Spec => [](TypeOK /\ Ledgers)`.  What keeps a period
  from being stored twice is that the copy a worker generates from was accepted by the API server at
  the Running update.  `Ledgers` therefore says, for each Report, that a copy with the stored version
  agrees with the stored object (`CopiesSound`), that a run-once Report which has reported is finished
  (`RunOnceOnce`), that the chosen period starts at the copy's LastReportTime and that from the
  Running update on this is the stored one (`PeriodSound`), and then the two ledger facts themselves
  (`Once`, `Covered`).  `ReportsExactlyOnce` and `ReportsLoseNoPeriod` follow from it.
- `ControllerImplementsLedger`: `Spec => ImplementsLedger`.  Every action is a
  step of `ReportLedger` or leaves its variables alone; that a row stored continues from the stored
  LastReportTime, and that what is recorded is the last row, come from `PeriodSound`.
- `StatusesInvariant` adds `Statuses`: the published import status promises no
  more than what is imported (`ImportSound`); a period that has passed the checks of runReport stays
  backed by the metrics until it is stored (`RowsBacked`); between the Running update and the final
  one the stored condition is not Finished, and no copy under way brings it back
  (`FinishedBacked`); the stored and the cached LastReportTime are reached by a row (`LastReached`);
  a period ends after it starts or at reportingEnd (`PeriodEnds`).  The steps of a worker are first
  sorted by what they do to the Report (`Quits`, `Plans`, `Decides`, `Writes`...).  What a worker read at
  its start was so once, and what is imported or stored only grows (`ReadSound`, `ReadReached`).  From
  it follow
  `ReportsRowsBackedByData`, `FinishedReportsHaveRows`, `ReportsLastReportTimeAdvances` and
  `RollupsReadReportedPeriods`.
- `WaitingReportsWake`: `Spec => []WaitingReportHasWakeup`, for Reports that neither imports nor
  sub-reports wake (`OnItsOwn`).  The danger is a sync from an old copy that ends without a timer
  after the one of a newer copy has fired.  `BlockedSound` excludes it: while the cached copy is one
  that ends a sync early, the stored condition is not Waiting, because whatever a sync wrote came from
  a copy that does not, and later copies have it.  `LivesSound` orders the copies along the life of
  the object, and `WakeupSound` carries the wake-up itself through the last updates of a sync.

Importing metrics (`PrometheusImporterProofs`), for any data sources, samples, chunk sizes, limits and
batches:

- `ImportsCoverOnce`: `CoversOnce` for every import that allows incomplete chunks, as the operator's
  do.  The recursive function of `getTimeRangesChunked` is shown to satisfy its equation, from the
  well-foundedness of the distance left to the end; a second induction shows that its ranges are
  contiguous (`ContiguousFrom`), from which the four parts of `CoversOnce` follow.
- `NeverTwice`: `Spec => []NoDuplicates`.  `ImporterInv` says what a job has at hand (`JobsInv`), that
  nobody else imports while the installation is `Undisturbed` (`OthersIdle`), and that every row is
  before the first range still to be queried and not after the importer's position (`ImportSound`): a
  failed call loses that position, and the newest row gives back one that is good enough.
- `ImportsKeepPromise`: `Spec => ImportsAsPromised`.  `PromiseInv` adds, for each data source, how the
  published window, the table, the ranges under way and the status about to be written follow each
  other (`WindowSound`): the table is complete over the window although nothing may have been found in
  parts of it, and after a lost position the next range starts inside the window or before its
  samples (`Extends`, `Anchored`).  Every action is then a step of `MetricsTable` or a stutter.

Tables, partitions and storage:

- `LifecycleInvariant` and `TablesOutliveTheirStatus` (`TableLifecycleProofs`), for any number of
  tables and of objects created one after the other under one name.  The danger is a worker that
  drops the table on behalf of a predecessor of the object.  `NothingOlder` excludes it: once the
  stored object has been seen by the informer, no event of an older one is still under way, and once
  its status is set, the worker can only be busy with it.  With that go `CopiesLag` (a copy is not
  ahead of its object, and no uid is used before it is given out), `WorkFits` (drops are made from
  copies marked for deletion), `TableSound` (the table is there before the status is stored), and
  `NoHiveTable` (only one of the two objects of a table manages it).  The lemmas about one key
  (`KeyUpdated`, `KeyDeleted`, `KeyCreated`, `KeyReceived`, `KeyWorked`) are about plain values;
  every action is then one of them, framed by `OneKey` or `NoKey`.
- `PartitionsInvariant`, `PartitionsTypes` and `WantedPartitionsNeverRevert`
  (`HivePartitionsProofs`): copies of the HiveTable have an older version or are the stored object
  (`CopySound`), and what the AWS billing sync has read is not older than what is stored
  (`ChangesSound`).  That `getPartitionChanges` only looks up what is in one of its lists needs a last
  element of a finite set of positions (`LastPosition`, from the well-foundedness of the naturals).
- `StorageInvariant` and `DatabasesOutliveTheirUse` (`StorageLocationsProofs`), with finalizers and
  without: copies are never ahead of the object in its life (`CopiesSound`), the database is there
  before the status says so (`DatabaseSound`) and under every table (`TablesSound`).

Data sources that depend on each other (`DataSourceViewsProofs`), for any number of objects, inputs
and levels:

- `ResolvesExactly`, `ResolvesWhatExists`, `CyclesFail`: a resolution that succeeds returns the least
  collection that holds what the query's inputs refer to and is closed under references, and nothing
  that does not exist; a query whose references exist and are less than `maxDepth` levels deep is
  resolved; one on a circle, or that leads to one, never is.  Both recursive functions are first shown
  to satisfy their equations, `inputsResolved` by induction over the inputs and `queriesResolved` from
  the deepest call up.  The hard part is the memory of what is resolved: a context is handed on from
  one input to the next, so the argument is about contexts that are `Complete`, closed under
  references and with every remembered input accounted for, and that this is kept (`Kept`).  On a
  circle, the first query that would be remembered as resolved refers to another one on it that is
  not (`NoneIsFirst`).
- `ViewsTypes` and `ViewsReadOnlyTables`: `Spec => []TypeOK` and `Spec => ViewsReadTables`.  The types
  need that the resolver returns existing data sources only.  `TablesReady` is what a view rests on:
  a tableRef in the informer is also in the stored object, it is never taken off, and what the worker
  of a view is about to read has one.

The process and its API:

- `ElectionInvariant`, `OneProcessWorks` and `CleanExitsWait` (`OperatorProcessProofs`), for any
  number of processes, servers and queues.  `LeaseSound` follows the lease from the moment an Update
  takes effect: until its answer, and from a timely answer until the process gives up, that process
  holds the lease, and no other candidate has seen it unchanged for longer than that, nor has an
  Update under way that would be accepted (`Owns`); so the next one to send an accepted Update finds
  nobody leading (`AsksAlone`).  `InStep` ties the goroutines to where `Run` is, and `Drained` says that
  a worker started after the wait group was waited for stops at once.
- `APIInvariant` (`ReportsAPIProofs`), and from it `HiddenColumnsStayOut`, `TabularAnswersWhole`,
  `AcknowledgedImportsStored` and `AnsweredRequestsAreQuiet`, for any number of requests, columns,
  data sources and slots: what has been hidden so far is hidden in the handler's copy of the query
  (`HiddenSound`), a tabular answer is written whole or not at all, unless a string breaks its table (`TabularSound`,
  with lemmas about `writeResultsAsCSV`), a job that is done has stored `Total`, and no import of a request is under way once it is answered (`JobsSound`).
  `AcknowledgedIsStored` is about named data sources that exist: a collect request may name one that
  does not, because its handler never reads the name (http.go:499).

Only model-checked:

- all liveness properties (`ScheduledReportsCatchUp`, `CatchesUp`,
  `AnnouncedTableIsDropped`, `OwnerGetsTable`, `PartitionsArrive`, `UsersGetTables`,
  `DeletedStorageGoes`, `ViewsGetTables`, `ReportsGetValid`, `DeletedDataSourceGoes`,
  `StopsWhenTold`, `ServerFailureEnds`, `LeadsOrEnds`, `EveryRequestAnswered`): liveness under fairness
  is out of the prover's reach;
- `RangesCoverOnce` as far as it goes beyond `ImportsCoverOnce`: imports of full chunks only, and
  steps of other sizes than a minute;
- `ResolvesEverything` and `FailsWithReason` as the run states them, with a transitive closure that is
  computed by iteration and with inputs given to the outermost query; what they say without given
  inputs is what the three theorems about the resolver prove.

## Known deviations

What the code does and a comment, a message or the documentation says otherwise, found while
modelling.  The runs stay clear of these situations, except `partitions_periods`, which shows one; in brackets is
what has to be added to an instance to see the others.

Reports
- queues.go:476: a key is dropped after five errors, and `AddRateLimited` has by then replaced the
  timer of the period; a scheduled Report without metrics stays unsynced until an edit or a restart,
  although "always running" (reports.md:9).  [the code's five retries; `dropped` not excused]
- reports.go:333: periodEnd is cut at reportingEnd after the check at reports.go:329 that panics when
  "periodStart should never come after periodEnd".  [reportingEnd before the first period]
- reports.go:551: a sub-report that never ran counts as met, although sub-reports "have reported on
  the current reportPeriod" (reports.go:547).
- reportquery.go:46: a new ReportQuery does not queue Reports that wait for it
  (metering-architecture.md:125: "or Reports").
- reports.go:694: with runImmediately only the first period is not waited for (reports.md:247).
- reports.go:729: a finished sub-report queues its roll-ups right after its last Update; a roll-up that
  is synced before that status is in the lister is marked unmet, and then neither a queue nor a timer
  holds it or the sub-report: the roll-up stays behind, although "always running" (reports.md:9).  It
  concerns roll-ups over Reports that read no Prometheus ReportDataSource: where one does, its imports
  queue all dependents time and again.  [liveness of the roll-up of `report_rollup` with both
  reportingEnds at 2, a period at every instant and no faults]
- reports.go:506: a Report over metrics that is edited while its dependencies are unmet, and then
  synced from the copy before the edit, may wait without a timer until the next import queues it.
  [`report_kinds` with a `Metered` Report and a clock to 4; `WaitingReportHasWakeup` without `OnItsOwn`]

Importer
- prestostore/query.go:172: a final chunk of a single instant is never queried (comment at line 29).
- prestostore/query.go:198: with a StepSize below a minute the last instant of every chunk is queried
  and stored twice (comment at line 196).  [`StepSizes` with 1]
- prestostore/query.go:169: with a StepSize above a minute the last range may run backwards.
  [`StepSizes` with 3]
- datasources.go:200: importers are kept by name without namespace and never removed: two data sources
  of one name share a position and a table, and a re-created one is not backfilled.
- prestostore/prometheusmetric.go:115: after a restart the importer resumes from the newest sample,
  which an import on demand may have moved past a gap.
- prestostore/importer.go:112: while no import has found a sample, a failed call or a restart forgets
  where the importer was; without `ImportFromTime` it then starts at now - `MaxBackfill`, and the
  published window, which had grown over the empty time, may cover instants that were never queried,
  although it "will query the next time range starting from where it left off if paused or stopped"
  (importer.go:94).  [`Present` without samples in the first `MaxBackfill`]
- prestostore/prometheusmetric.go:177: when a batch fails in the middle of a timestamp, the rest of
  that timestamp is never stored.
- datasources.go:246 and 218: when the first status update fails, or a sync works from an outdated
  copy, ImportDataStartTime moves forward (report_datasource.go:94: "first time range queried").
  [`Undisturbed` without the condition concerned]

Tables and storage
- hivetables.go:407: a HiveTable deleted between CREATE TABLE and its status leaves its table behind.
  [`AnnouncedTableIsDropped` for tables not announced]
- hivetables.go:186: the PrestoTable is created only in the sync that stores the status; after a crash
  there the owner waits for ever.  [`Fragile` with `createPrestoTable`]
- hivetables.go:369: an existing HiveTable of a deleted owner is taken for one's own.
- queues.go:255: without finalizers the delete handler may drop the table of a new object of the name.
  [`EnableFinalizers` FALSE]
- prestotables.go:144: CREATE TABLE AS without IF NOT EXISTS can never be repeated when its status
  update failed.
- hivetables.go:267: what to drop is computed from Status.Partitions, which is written after the last
  statement; a partition that was added before a failure, and is then taken out of the list, stays in
  Hive, although "the Table partitions match those specified" (hivetables.md:27).  [`PartitionsArrive`
  the other way round: what is in Hive is wanted]
- aws_usage_hive.go:152: the run `partitions_periods`.
- storagelocations.go:128: Reports are queued before the StorageLocation's status is in the lister and
  may use up their retries.  [a user of kind "report"]
- hive/query.go:94: CREATE DATABASE without a location cannot be repeated.  [`WithLocation` empty]
- aws_usage_hive.go:73: checks Spec.Hive.DatabaseName, reads Status.Hive.DatabaseName, and panics
  while the database is not created.  [a user of kind "aws"]

Data sources and queries
- datasources.go:63: a failed removal of the finalizer leaves the informer's object without it, and
  the data source is never removed.  [`enableFinalizers` with a fault]
- datasources.go:440: a PrestoTable data source queues nobody (comment at line 486); `ReportsGetValid`
  therefore excludes it.
- datasources.go:629: dependent views are looked up by the data source's name instead of its query's.
  [`NamedLike` Null]
- datasources.go:657: the first Report that cannot be resolved ends the queueing of the others.
- datasources.go:475: `spec.reportQueryView.inputs` has no effect (reportqueries.md:40).
- reporting/dependencies.go:122: inputs are remembered by name across queries, so a nested query's
  input of the same name is passed over.  [`NameOf` that gives two objects one name]

Process and API
- operator.go:629: a shutdown also cancels lostLeaderCtx, against the comment at line 609; the
  process may end without waiting for its workers.
- operator.go:585: WaitForCacheSync may come before the factory has started and return at once.
- operator.go:638: the lease expires while the queues are drained, and a second process works;
  `OneWorks` therefore excludes processes told to stop.
- operator.go:638: a process whose lease Update is answered late leads on a lease that others have
  seen run out, as the elector's package comment warns (leaderelection.go:21); `OneWorks` therefore
  excludes processes answered late.  [`OneWorks` without `late`]
- operator.go:740: OnStartedLeading may add to the wait group while `wg.Wait` returns, which
  sync.WaitGroup does not allow; the workers it adds stop at once.
- http.go:456: the full endpoint drops hidden columns from csv and tabular answers
  (reportqueries.md:183).  The v1 endpoint does so too, in JSON as well.
- http.go:264: a CSV row that cannot be written after the first flush leaves a cut answer with status
  200; `TabularAnswersAreWhole` speaks of tabular answers only.
- http.go:336: a tabular answer may be cut likewise when it has one column, or when a string with a
  line break or a form feed makes tabwriter send the rows before `Flush`; `TabularAnswersAreWhole`
  excuses both.
- prestostore/query.go:36: a collect request for more than MaxQueryRangeDuration (ten minutes by
  default) or more than MaxTimeRanges chunks is answered 200 after that much was stored;
  `AcknowledgedIsStored` asks for no more.
- http.go:499: the data source of a collect request is read from a parameter that the route does not
  have, so every data source is imported; `AcknowledgedIsStored` asks for the named ones at least.

## Not modelled, and the plan

Left out: rendering of SQL text and reporting utilities (pure text, no state); the thin Hive, Presto
and AWS clients; readiness and liveness handlers, profiling and flags; deployment charts and
generated code.  Within the modelled parts: the target-namespace filter and informer tombstones,
`DisablePrometheusMetricsImporter`, an INSERT still under way in Presto when a new process starts, and
StorageLocations and data sources created a second time under one name in `StorageLocations` and
`DataSourceViews`.

What is left to do: `ReportController` composed with `PrometheusImporter` instead of its own
`importMetrics`, and the resolver theorems for inputs that are given to the outermost query.
