------------------------- MODULE PrometheusImporter -------------------------
(***************************************************************************)
(* Importing Prometheus metrics into Presto tables: the sync of a          *)
(* PrometheusMetricsImporter ReportDataSource (pkg/operator/datasources.go)*)
(* the importer it keeps in memory (pkg/operator/prestostore), and imports *)
(* on demand over HTTP (pkg/operator/promsum.go).  An action is the code   *)
(* between two calls to Prometheus, Presto or the API server.              *)
(*                                                                         *)
(* A job is a thread of the operator importing for one data source: the    *)
(* worker that syncs it, or a request for an import on demand.             *)
(***************************************************************************)
EXTENDS TimeRanges, FiniteSets

CONSTANTS
  Null,                    \* an unset pointer
  DataSources,             \* the ReportDataSources, each in its namespace
  NameOf,                  \* their names; equal in two namespaces, perhaps
  Present,                 \* the samples Prometheus scrapes, [series, at]
  StepSize,                \* cfg.StepSize
  ChunkSize,               \* cfg.ChunkSize
  MaxQueryRangeDuration,   \* cfg.MaxQueryRangeDuration, 0 for no limit
  MaxBackfill,             \* cfg.MaxBackfillImportDuration
  ImportFromTime,          \* cfg.ImportFromTime, or Null
  MaxRequeues,             \* of runReportDataSourceWorker (20 in the code)
  Setups                   \* the installations considered

Sample == [series : {x.series : x \in Present}, at : Nat]

(***************************************************************************)
(* An installation: its data sources, how many samples fit into the buffer *)
(* of an INSERT, the ranges users ask to import, whether a sync may start  *)
(* from an outdated cached object, and the bounds on the clock, on data    *)
(* sources users delete and create again, and on failed calls and restarts.*)
(***************************************************************************)
Setup == [ sources : SUBSET DataSources, batchSize : Nat \ {0},
           onDemand : SUBSET [start : Nat, end : Nat], laggy : BOOLEAN,
           maxTime : Nat, maxRecreations : Nat, maxFaults : Nat ]

ASSUME ImporterAssumption ==
  /\ Null \notin Int \cup Window \cup DataSources
  /\ NameOf \in [DataSources -> {NameOf[d] : d \in DataSources}]
  /\ Present \subseteq Sample /\ IsFiniteSet(Present)
  /\ StepSize \in Nat \ {0} /\ ChunkSize \in Nat \ {0}
  /\ MaxQueryRangeDuration \in Nat /\ MaxBackfill \in Nat
  /\ ImportFromTime \in Nat \cup {Null}
  /\ MaxRequeues \in Nat
  /\ Setups \subseteq Setup

VARIABLES
  setup,      \* the installation, one of Setups
  now,        \* op.clock
  api,        \* the stored ReportDataSources
  cache,      \* the copies of reportDataSourceLister
  queue,      \* reportDataSourceQueue
  delayed,    \* keys added with AddAfter or AddRateLimited, not due yet
  requeues,   \* reportDataSourceQueue.NumRequeues
  importers,  \* op.importers: name -> the importer's configuration and lastTimestamp
  importLock, \* the data source whose sync holds the lock of an importer
  work,       \* the state of every job
  rows,       \* the samples in each Presto table
  twice,      \* the samples that were inserted again (history)
  recreated,  \* data sources deleted and created again so far (bound)
  faults      \* failed calls and restarts so far (bound)

queueVars  == <<queue, delayed, requeues>>
memVars    == <<importers, importLock>>
tableVars  == <<rows, twice>>
boundVars  == <<recreated, faults>>

vars == <<now, api, cache, queueVars, memVars, work, tableVars, boundVars>>

-----------------------------------------------------------------------------
(* Types                                                                   *)

OptTime == Int \cup {Null}

(* PrometheusMetricsImportStatus without LastImportTime.                   *)
ImportStatus == [start : OptTime, end : OptTime, earliest : OptTime, newest : OptTime]

NoStatus == [start |-> Null, end |-> Null, earliest |-> Null, newest |-> Null]

(* A ReportDataSource: whether Status.TableRef is set, the import status.  *)
DataSourceObject == [table : BOOLEAN, status : ImportStatus]

NewDataSource == [table |-> FALSE, status |-> NoStatus]

Names == {NameOf[d] : d \in DataSources}

NoImporter == [cfg |-> Null, last |-> Null]

Jobs == {"periodic", "onDemand"} \X DataSources

Steps == {"idle", "createTable", "import", "query", "store", "endImport", "putStatus"}

(***************************************************************************)
(* pc is where the job is, status the import status it started from, table *)
(* the table it imports into, ranges the queries it has still to make,     *)
(* pending the samples of the current one it has still to insert, done and *)
(* metrics the extent of ProcessedTimeRanges and of Metrics.               *)
(***************************************************************************)
Work == [ pc : Steps, status : ImportStatus, table : DataSources \cup {Null},
          ranges : Seq(Window), pending : SUBSET Present,
          done : Window \cup {Null}, metrics : Window \cup {Null} ]

NoWork == [ pc |-> "idle", status |-> NoStatus, table |-> Null, ranges |-> << >>,
            pending |-> {}, done |-> Null, metrics |-> Null ]

(* Every variable holds a value of the kind the code keeps there.          *)
TypeOK ==
  /\ setup \in Setups
  /\ now \in Nat
  /\ api \in [DataSources -> DataSourceObject]
  /\ cache \in [DataSources -> DataSourceObject]
  /\ queue \subseteq DataSources /\ delayed \subseteq DataSources
  /\ requeues \in [DataSources -> 0..MaxRequeues]
  /\ importers \in [Names -> [cfg : DataSources \cup {Null}, last : OptTime]]
  /\ importLock \in [Names -> DataSources \cup {Null}]
  /\ work \in [Jobs -> Work]
  /\ rows \in [DataSources -> SUBSET Present]
  /\ twice \in [DataSources -> SUBSET Present]
  /\ recreated \in 0..setup.maxRecreations /\ faults \in 0..setup.maxFaults

-----------------------------------------------------------------------------
(* The API server, the informer and the work queue                         *)

Fault == faults < setup.maxFaults /\ faults' = faults + 1 /\ UNCHANGED recreated

(* updateReportDataSource of queues.go: an update of nothing but the       *)
(* import status does not queue the data source.                           *)
deliver(d) ==
  /\ cache[d] # api[d]
  /\ cache' = [cache EXCEPT ![d] = api[d]]
  /\ queue' = IF cache[d].status = api[d].status THEN queue \cup {d} ELSE queue
  /\ UNCHANGED <<now, api, delayed, requeues, memVars, work, tableVars, boundVars>>

(* The periodic resync of the informer queues unchanged objects.           *)
resync(d) ==
  /\ queue' = queue \cup {d}
  /\ UNCHANGED <<now, api, cache, delayed, requeues, memVars, work, tableVars, boundVars>>

fireDelayed(d) ==
  /\ d \in delayed
  /\ delayed' = delayed \ {d}
  /\ queue' = queue \cup {d}
  /\ UNCHANGED <<now, api, cache, requeues, memVars, work, tableVars, boundVars>>

(* handleErr without and with an error.                                    *)
forgetKey(d) == requeues' = [requeues EXCEPT ![d] = 0]

handleErr(d) ==
  IF requeues[d] < MaxRequeues
  THEN /\ requeues' = [requeues EXCEPT ![d] = @ + 1]
       /\ delayed' = delayed \cup {d}
  ELSE /\ forgetKey(d)
       /\ UNCHANGED delayed

(* updateReportDataSource of datasources.go gets the stored object, changes *)
(* it and tries again on a conflict: the change is made to what is stored.  *)
updateReportDataSource(d, new) == api' = [api EXCEPT ![d] = new]

Goto(j, w) == work' = [work EXCEPT ![j] = w]

-----------------------------------------------------------------------------
(* The sync of a data source                                               *)

newPromImporter(n, d) == importers' = [importers EXCEPT ![n] = [cfg |-> d, last |-> Null]]

(* The configuration changes between two imports, never during one.        *)
UpdateConfig(n, d) ==
  /\ importLock[n] = Null
  /\ importers' = [importers EXCEPT ![n].cfg = d]

(* op.importers is keyed by the name of the data source alone.             *)
configureImporter(d) ==
  LET n == NameOf[d]
  IN  /\ IF importers[n].cfg = Null THEN newPromImporter(n, d) ELSE UpdateConfig(n, d)
      /\ UNCHANGED importLock

syncReportDataSource(d) ==
  LET j == <<"periodic", d>>
  IN  /\ d \in queue /\ work[j].pc = "idle"
      /\ setup.laggy \/ cache[d] = api[d]
      /\ queue' = queue \ {d}
      /\ \/ /\ ~cache[d].table
            /\ Goto(j, [NoWork EXCEPT !.pc = "createTable"])
            /\ UNCHANGED memVars
         \/ /\ cache[d].table
            /\ configureImporter(d)
            /\ Goto(j, [NoWork EXCEPT !.pc = "import", !.status = cache[d].status])
      /\ UNCHANGED <<now, api, cache, delayed, requeues, tableVars, boundVars>>

(* The table of a new data source: the HiveTable and PrestoTable exist,    *)
(* Status.TableRef is stored and the first import is put off.              *)
createTable(d) ==
  LET j == <<"periodic", d>>
  IN  /\ work[j].pc = "createTable"
      /\ updateReportDataSource(d, [api[d] EXCEPT !.table = TRUE])
      /\ delayed' = delayed \cup {d}
      /\ forgetKey(d)
      /\ Goto(j, NoWork)
      /\ UNCHANGED <<now, cache, queue, memVars, tableVars, boundVars>>

LatestTime(S) == CHOOSE t \in {x.at : x \in S} : \A x \in S : x.at <= t

GetLastTimestampForTable(d) == IF rows[d] = {} THEN Null ELSE LatestTime(rows[d])

(* Where the import of an empty table starts.                              *)
firstStartTime ==
  IF ImportFromTime # Null THEN ImportFromTime ELSE now - MaxBackfill

importStartTime(last) ==
  IF last # Null THEN last + StepSize ELSE firstStartTime

(* newPromImporterCfg                                                      *)
MaxTimeRanges == MaxQueryRangeDuration \div ChunkSize

timeRangesBetween_fullChunks(start, end) ==
  getTimeRangesChunked(start, end, ChunkSize, StepSize, MaxTimeRanges, FALSE)

(* The first part of ImportFromTimeRange; imports allow incomplete chunks. *)
timeRangesBetween(start, end) ==
  LET cut == IF MaxQueryRangeDuration # 0 /\ end - start > MaxQueryRangeDuration
             THEN start + MaxQueryRangeDuration ELSE end
  IN  getTimeRangesChunked(start, cut, ChunkSize, StepSize, MaxTimeRanges, TRUE)

(* importLock.Lock() of ImportFromLastTimestamp.                           *)
canImport(d) == importLock[NameOf[d]] = Null

(***************************************************************************)
(* ImportFromLastTimestamp up to its first query.  An import that is too   *)
(* early, or that has no range to query yet, is over at once and the data  *)
(* source is queued for its next one.                                      *)
(***************************************************************************)
ImportFromLastTimestamp(d) ==
  LET j     == <<"periodic", d>>
      n     == NameOf[d]
      table == importers[n].cfg
      last  == IF importers[n].last # Null THEN importers[n].last
               ELSE GetLastTimestampForTable(table)
      start == importStartTime(last)
      todo  == IF start > now THEN << >> ELSE timeRangesBetween(start, now)
  IN  /\ work[j].pc = "import" /\ canImport(d)
      /\ importers' = [importers EXCEPT ![n].last = last]
      /\ \/ /\ todo = << >>
            /\ delayed' = delayed \cup {d}
            /\ forgetKey(d)
            /\ Goto(j, NoWork)
            /\ UNCHANGED importLock
         \/ /\ todo # << >>
            /\ importLock' = [importLock EXCEPT ![n] = d]
            /\ Goto(j, [work[j] EXCEPT !.pc = "query", !.table = table, !.ranges = todo])
            /\ UNCHANGED <<delayed, requeues>>
      /\ UNCHANGED <<now, api, cache, queue, tableVars, boundVars>>

-----------------------------------------------------------------------------
(* ImportFromTimeRange, by either kind of job                              *)

(* The job's state once the current range has been processed.              *)
rangeProcessed(w) ==
  LET r == Head(w.ranges)
  IN  [w EXCEPT !.done = [start |-> IF w.done = Null THEN r.start ELSE w.done.start,
                          end   |-> r.end],
                !.ranges = Tail(w.ranges),
                !.pending = {},
                !.pc = IF Len(w.ranges) = 1 THEN "endImport" ELSE "query"]

QueryRange(r) == { x \in Present : x.at \in Instants(r, StepSize) /\ x.at <= now }

queryPrometheus(j) ==
  LET w   == work[j]
      got == QueryRange(Head(w.ranges))
  IN  /\ w.pc = "query"
      /\ Goto(j, IF got = {} THEN rangeProcessed(w)
                 ELSE [w EXCEPT !.pc = "store", !.pending = got])
      /\ UNCHANGED <<now, api, cache, queueVars, memVars, tableVars, boundVars>>

(* The next INSERT: as many samples as the buffer holds, oldest first; the *)
(* order of samples of the same instant is that of an unstable sort.       *)
Batches(S) ==
  { B \in SUBSET S :
      /\ Cardinality(B) = IF Cardinality(S) < setup.batchSize THEN Cardinality(S)
                          ELSE setup.batchSize
      /\ \A x \in B, y \in S \ B : x.at <= y.at }

Insert(table, B) ==
  /\ rows' = [rows EXCEPT ![table] = @ \cup B]
  /\ twice' = [twice EXCEPT ![table] = @ \cup (B \cap rows[table])]

(* The extent of the metrics of an import with those of S added.           *)
MetricsWith(m, S) ==
  LET times == {x.at : x \in S}
      first == CHOOSE t \in times : \A u \in times : t <= u
  IN  [start |-> IF m = Null THEN first ELSE m.start, end |-> LatestTime(S)]

StorePrometheusMetrics(j) ==
  LET w == work[j]
  IN  /\ w.pc = "store"
      /\ \E B \in Batches(w.pending) :
           LET new == [w EXCEPT !.metrics = MetricsWith(@, B), !.pending = @ \ B]
           IN  /\ Insert(w.table, B)
               /\ Goto(j, IF new.pending = {} THEN rangeProcessed(new) ELSE new)
      /\ UNCHANGED <<now, api, cache, queueVars, memVars, boundVars>>

-----------------------------------------------------------------------------
(* The end of an import                                                    *)

finishImport_atClock(d) ==
  LET n == NameOf[d]
  IN  /\ importers' = [importers EXCEPT ![n].last = truncateToSecond(now)]
      /\ importLock' = [importLock EXCEPT ![n] = Null]

finishImport(d) ==
  LET n == NameOf[d]
  IN  /\ importers' = [importers EXCEPT ![n].last = work[<<"periodic", d>>].done.end]
      /\ importLock' = [importLock EXCEPT ![n] = Null]

(* ImportFromLastTimestamp returns to the sync; an import on demand ends.  *)
endImport(j) ==
  /\ work[j].pc = "endImport"
  /\ IF j[1] = "periodic"
     THEN /\ finishImport(j[2])
          /\ Goto(j, [work[j] EXCEPT !.pc = "putStatus"])
     ELSE /\ Goto(j, NoWork)
          /\ UNCHANGED memVars
  /\ UNCHANGED <<now, api, cache, queueVars, tableVars, boundVars>>

Earlier(t, u) == u = Null \/ t < u
Later(t, u)   == u = Null \/ t > u

(* The import status after the import of w, from the copy it started with. *)
newImportStatus(w) ==
  LET s == w.status
      m == w.metrics
  IN  [ start    |-> IF Earlier(w.done.start, s.start) THEN w.done.start ELSE s.start,
        end      |-> IF Later(w.done.end, s.end) THEN w.done.end ELSE s.end,
        earliest |-> IF m # Null /\ s.earliest = Null THEN m.start ELSE s.earliest,
        newest   |-> IF m # Null /\ Later(m.end, s.newest) THEN m.end ELSE s.newest ]

(* The import returned data older than any before: the sync ends without   *)
(* recording it and without a next import.                                 *)
olderDataImported(w) ==
  w.metrics # Null /\ w.status.earliest # Null /\ w.metrics.start < w.status.earliest

(***************************************************************************)
(* updateReportDataSource sets the import status of whatever object is     *)
(* stored by then, and the next import is queued.  The Reports that depend *)
(* on the data source have been queued before (see ReportController).      *)
(***************************************************************************)
putImportStatus(d) ==
  LET j == <<"periodic", d>>
      w == work[j]
  IN  /\ w.pc = "putStatus"
      /\ IF olderDataImported(w)
         THEN UNCHANGED <<api, delayed>>
         ELSE /\ updateReportDataSource(d, [api[d] EXCEPT !.status = newImportStatus(w)])
              /\ delayed' = delayed \cup {d}
      /\ forgetKey(d)
      /\ Goto(j, NoWork)
      /\ UNCHANGED <<now, cache, queue, memVars, tableVars, boundVars>>

-----------------------------------------------------------------------------
(* Errors and restarts                                                     *)

resetImporter_kept(d) ==
  /\ importLock' = [importLock EXCEPT ![NameOf[d]] = Null]
  /\ UNCHANGED importers

(* An error while importing: "we cannot be sure what is in Presto and what *)
(* isn't, so reset our importer.lastTimestamp".                            *)
resetImporter(d) ==
  /\ importLock' = [importLock EXCEPT ![NameOf[d]] = Null]
  /\ importers' = [importers EXCEPT ![NameOf[d]].last = Null]

(* The error reaches handleErr, or the caller of the import on demand.     *)
abortJob(j) ==
  /\ Goto(j, NoWork)
  /\ IF j[1] = "periodic" THEN handleErr(j[2]) ELSE UNCHANGED <<requeues, delayed>>
  /\ IF j[1] = "periodic" /\ work[j].pc \in {"query", "store"}
     THEN resetImporter(j[2])
     ELSE UNCHANGED memVars

(* A call to the API server, to Prometheus or to Presto fails; but when the *)
(* import status cannot be stored, the error message reads the name of the *)
(* data source from a nil pointer (datasources.go:303), which is a restart. *)
callFails(j) ==
  /\ work[j].pc \in {"createTable", "import", "query", "store"}
  /\ work[j].pc = "import" => canImport(j[2])
  /\ Fault /\ abortJob(j)
  /\ UNCHANGED <<now, api, cache, queue, tableVars>>

(* An INSERT is reported as failed although its samples were stored.       *)
insertSeemsToFail(j) ==
  /\ work[j].pc = "store"
  /\ \E B \in Batches(work[j].pending) : Insert(work[j].table, B)
  /\ Fault /\ abortJob(j)
  /\ UNCHANGED <<now, api, cache, queue>>

(* A new process lists the data sources and knows no importer.             *)
restart ==
  /\ Fault
  /\ importers' = [n \in Names |-> NoImporter]
  /\ importLock' = [n \in Names |-> Null]
  /\ work' = [j \in Jobs |-> NoWork]
  /\ cache' = api
  /\ queue' = setup.sources
  /\ delayed' = {}
  /\ requeues' = [d \in DataSources |-> 0]
  /\ UNCHANGED <<now, api, tableVars>>

-----------------------------------------------------------------------------
(* Users and time                                                          *)

(* importPrometheusForTimeRange: no lock is taken and no status written.   *)
importPrometheusForTimeRange(d, r) ==
  LET j    == <<"onDemand", d>>
      todo == timeRangesBetween(r.start, r.end)
  IN  /\ work[j].pc = "idle"
      /\ api[d].table
      /\ todo # << >>
      /\ Goto(j, [NoWork EXCEPT !.pc = "query", !.table = d, !.ranges = todo])
      /\ UNCHANGED <<now, api, cache, queueVars, memVars, tableVars, boundVars>>

(* A user deletes a data source, its table is dropped with it, and creates *)
(* it again; op.importers is not told.                                     *)
recreateDataSource(d) ==
  /\ recreated < setup.maxRecreations /\ recreated' = recreated + 1
  /\ \A j \in Jobs : j[2] = d => work[j].pc = "idle"
  /\ api' = [api EXCEPT ![d] = NewDataSource]
  /\ cache' = [cache EXCEPT ![d] = NewDataSource]
  /\ rows' = [rows EXCEPT ![d] = {}]
  /\ queue' = queue \cup {d}
  /\ UNCHANGED <<now, delayed, requeues, memVars, work, twice, faults>>

tick ==
  /\ now < setup.maxTime
  /\ now' = now + 1
  /\ UNCHANGED <<api, cache, queueVars, memVars, work, tableVars, boundVars>>

-----------------------------------------------------------------------------
Init ==
  /\ setup \in Setups
  /\ now = MaxBackfill
  /\ api = [d \in DataSources |-> NewDataSource]
  /\ cache = api
  /\ queue = setup.sources
  /\ delayed = {}
  /\ requeues = [d \in DataSources |-> 0]
  /\ importers = [n \in Names |-> NoImporter]
  /\ importLock = [n \in Names |-> Null]
  /\ work = [j \in Jobs |-> NoWork]
  /\ rows = [d \in DataSources |-> {}]
  /\ twice = [d \in DataSources |-> {}]
  /\ recreated = 0 /\ faults = 0

step(j) ==
  \/ queryPrometheus(j)
  \/ StorePrometheusMetrics(j)
  \/ endImport(j)

worker(d) ==
  \/ createTable(d)
  \/ ImportFromLastTimestamp(d)
  \/ putImportStatus(d)
  \/ step(<<"periodic", d>>)

Next ==
  /\ \/ \E d \in setup.sources :
          \/ deliver(d)
          \/ resync(d)
          \/ fireDelayed(d)
          \/ syncReportDataSource(d)
          \/ createTable(d)
          \/ ImportFromLastTimestamp(d)
          \/ putImportStatus(d)
          \/ recreateDataSource(d)
          \/ \E r \in setup.onDemand : importPrometheusForTimeRange(d, r)
     \/ \E j \in Jobs :
          \/ step(j)
          \/ callFails(j)
          \/ insertSeemsToFail(j)
     \/ restart
     \/ tick
  /\ UNCHANGED setup

Spec == Init /\ [][Next]_<<vars, setup>>

(* The watch delivers, the informer resyncs, delayed keys become due and a *)
(* worker goes on with what it took; users, faults and the clock owe       *)
(* nothing.                                                                *)
Fairness ==
  \A d \in DataSources :
    /\ WF_vars(deliver(d))
    /\ WF_vars(resync(d) /\ d \in setup.sources)
    /\ WF_vars(fireDelayed(d))
    /\ WF_vars(syncReportDataSource(d))
    /\ WF_vars(worker(d))

FairSpec == Spec /\ Fairness

-----------------------------------------------------------------------------
(* Properties                                                              *)

Imported(d) == api[d].status.start # Null

(* Every data source has its importer to itself, nobody imports on demand  *)
(* or deletes a data source, a sync sees what the last one stored and one  *)
(* INSERT holds the samples of a query.  The README lists what happens     *)
(* otherwise.                                                              *)
Undisturbed ==
  /\ \A d, e \in setup.sources : NameOf[d] = NameOf[e] => d = e
  /\ setup.onDemand = {} /\ setup.maxRecreations = 0 /\ ~setup.laggy
  /\ setup.batchSize >= Cardinality(Present)

(* No sample is inserted a second time, by a retry or after a restart      *)
(* (importer.go:124).  All variables keep their types.                     *)
NoDuplicates ==
  /\ TypeOK
  /\ Undisturbed => \A d \in DataSources : twice[d] = {}

(***************************************************************************)
(* Unless disturbed, the table and the published window behave as          *)
(* MetricsTable says, whatever failed and whenever the operator was        *)
(* restarted.  Reports trust the import status: every sample between       *)
(* ImportDataStartTime and ImportDataEndTime is in the table               *)
(* (importer.go:92), and a Report that was covered stays covered           *)
(* (datasources.go:239).  A backfill that finds nothing may break this: see *)
(* the known deviations in README.md.                                      *)
(***************************************************************************)
Promise == INSTANCE MetricsTable WITH
  table  <- IF Undisturbed THEN rows ELSE [d \in DataSources |-> {}],
  window <- [ d \in DataSources |->
                IF Undisturbed /\ Imported(d)
                THEN [start |-> api[d].status.start, end |-> api[d].status.end]
                ELSE Null ]

ImportsAsPromised == Promise!Spec

(* Whatever fails, and even when handleErr has given the data source up,   *)
(* the table catches up with Prometheus time and again, but for a last     *)
(* instant that would make a range by itself (importer.go:85).             *)
CatchesUp ==
  []<>(Undisturbed => \A d \in setup.sources :
         \A x \in Present : x.at <= truncateToSecond(now) - Minute =>
           \E y \in rows[d] : x.at <= y.at)
=============================================================================
