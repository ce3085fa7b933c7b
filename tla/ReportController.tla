-------------------------- MODULE ReportController --------------------------
(***************************************************************************)
(* The Report controller of the reporting-operator: syncReport, runReport  *)
(* and the work queue, informer cache and API server they run against.     *)
(* One action is the code between two points at which another actor can    *)
(* interfere: a call to the API server, a call to Presto, or the end of a  *)
(* sync.                                                                   *)
(*                                                                         *)
(* A resourceVersion is only ever compared for equality with the stored    *)
(* one, so it is represented by that comparison: cacheCur[r] and cur[r]    *)
(* say whether the cached copy and the worker's copy still carry the       *)
(* stored version.  Every write that changes the object makes the other    *)
(* copies stale, and an Update of a stale copy is a conflict.              *)
(***************************************************************************)
EXTENDS ReportPeriods, Sequences, FiniteSets

CONSTANTS
  Reports,           \* names of the Reports in the namespace
  DependsOn,         \* r -> the sub-reports its query reads
  Metered,           \* the Reports whose query reads a Prometheus ReportDataSource
  LateQueries,       \* the Reports whose ReportQuery does not exist at first
  UserSpecs,         \* the specs users write
  EnableFinalizers,  \* op.cfg.EnableFinalizers
  Workers,           \* goroutines running runReportWorker (8 in the code)
  MaxRequeues,       \* maxRequeues of runReportWorker (5 in the code)
  MaxBackfill,       \* how far the first import reaches back
  MaxTime,           \* bound on the clock
  MaxEdits,          \* bound on user writes of a Report
  MaxFaults          \* bound on API, Hive and Presto errors and restarts

ASSUME ControllerAssumption ==
  /\ DependsOn \in [Reports -> SUBSET Reports]
  /\ Metered \subseteq Reports
  /\ LateQueries \subseteq Reports
  /\ UserSpecs \subseteq ReportSpec
  /\ EnableFinalizers \in BOOLEAN
  /\ Workers \in Nat \ {0}
  /\ MaxRequeues \in Nat /\ MaxBackfill \in Nat /\ MaxTime \in Nat
  /\ MaxEdits \in Nat /\ MaxFaults \in Nat

VARIABLES
  now,         \* op.clock
  api,         \* the stored Report objects
  cache,       \* the informer's copy, read through reportLister
  cacheCur,    \* the informer's copy has the stored resourceVersion
  queue,       \* reportQueue: the keys marked dirty
  timer,       \* reportQueue: when the delayed add of a key is due
  requeues,    \* reportQueue.NumRequeues
  pc,          \* where the sync of a key is; "idle" when no worker has it
  obj,         \* the worker's copy of the Report
  cur,         \* the worker's copy has the stored resourceVersion
  period,      \* reportPeriod of runReport
  read,        \* what runReport has read: lines 356 and 361
  rows,        \* the report table in Presto, in insertion order
  imported,    \* the metrics the Prometheus ReportDataSource has stored
  coverage,    \* its import status as reportDataSourceLister shows it
  queryReady   \* the Report's ReportQuery exists

(* Bounds and history; no guard of the code reads them.                    *)
VARIABLES
  edits,       \* user writes so far
  faults,      \* errors and restarts so far
  redone,      \* a stored period was not recorded, or ran backwards
  rescoped,    \* a user turned a Report that had reported into a run-once one
  wiped,       \* the table was emptied by overwriteExistingData
  first,       \* the start of the first period ever recorded
  dropped      \* the keys handleErr gave up on since their last good sync

apiVars    == <<api, cache, cacheCur>>
queueVars  == <<queue, timer, requeues, dropped>>
workVars   == <<pc, obj, cur, period, read>>
importVars == <<imported, coverage>>
tableVars  == <<rows, wiped>>
histVars   == <<redone, rescoped, first>>
envVars    == <<now, queryReady, edits, faults>>

vars == <<apiVars, queueVars, workVars, importVars, tableVars, histVars, envVars>>

-----------------------------------------------------------------------------
(* Types                                                                   *)

Steps == { "idle", "addFinalizer", "removeFinalizer", "run", "createTable",
           "putInvalid", "putTable", "decide", "putWaiting", "putUnmet",
           "putRunning", "generate", "insert", "putFailed", "putFinal" }

Row == [start : Nat, end : Nat, forced : BOOLEAN]

Import == [start : OptTime, end : OptTime]

NoImport == [start |-> Null, end |-> Null]

(* The clock, and of the dependencyResult of validateReport the            *)
(* LastReportTime of each sub-report and the import status.                *)
Read == [now : Nat, last : [Reports -> OptTime], coverage : Import]

NothingRead == [now |-> 0, last |-> [s \in Reports |-> Null], coverage |-> NoImport]

NoSpec == [ start |-> Null, end |-> Null, schedule |-> "none",
            runImmediately |-> FALSE, overwrite |-> FALSE ]

NoReport == [ phase |-> "absent", spec |-> NoSpec, last |-> Null, next |-> Null,
              cond |-> "New", table |-> FALSE, finalizer |-> FALSE ]

NoPeriod == [start |-> 0, end |-> 0]

(* The value of every variable is of the kind the code keeps there.        *)
TypeOK ==
  /\ now \in Nat
  /\ api \in [Reports -> ReportObject]
  /\ cache \in [Reports -> ReportObject]
  /\ cacheCur \in [Reports -> BOOLEAN]
  /\ queue \subseteq Reports
  /\ timer \in [Reports -> OptTime]
  /\ requeues \in [Reports -> 0..MaxRequeues]
  /\ pc \in [Reports -> Steps]
  /\ obj \in [Reports -> ReportObject]
  /\ cur \in [Reports -> BOOLEAN]
  /\ period \in [Reports -> Period]
  /\ read \in [Reports -> Read]
  /\ rows \in [Reports -> Seq(Row)]
  /\ imported \in Import
  /\ coverage \in Import
  /\ queryReady \in [Reports -> BOOLEAN]
  /\ edits \in 0..MaxEdits
  /\ faults \in 0..MaxFaults
  /\ redone \in [Reports -> BOOLEAN]
  /\ rescoped \in [Reports -> BOOLEAN]
  /\ wiped \in [Reports -> BOOLEAN]
  /\ first \in [Reports -> OptTime]
  /\ dropped \subseteq Reports

Init ==
  /\ now = 0
  /\ api = [r \in Reports |-> NoReport]
  /\ cache = [r \in Reports |-> NoReport]
  /\ cacheCur = [r \in Reports |-> TRUE]
  /\ queue = {}
  /\ timer = [r \in Reports |-> Null]
  /\ requeues = [r \in Reports |-> 0]
  /\ pc = [r \in Reports |-> "idle"]
  /\ obj = [r \in Reports |-> NoReport]
  /\ cur = [r \in Reports |-> FALSE]
  /\ period = [r \in Reports |-> NoPeriod]
  /\ read = [r \in Reports |-> NothingRead]
  /\ rows = [r \in Reports |-> << >>]
  /\ imported = NoImport
  /\ coverage = NoImport
  /\ queryReady = [r \in Reports |-> r \notin LateQueries]
  /\ edits = 0
  /\ faults = 0
  /\ redone = [r \in Reports |-> FALSE]
  /\ rescoped = [r \in Reports |-> FALSE]
  /\ wiped = [r \in Reports |-> FALSE]
  /\ first = [r \in Reports |-> Null]
  /\ dropped = {}

-----------------------------------------------------------------------------
(* The work queue: processResource, handleErr and the delaying queue       *)

(* An error of a call the code cannot foresee; MaxFaults bounds them.      *)
Fault == faults < MaxFaults /\ faults' = faults + 1

(* The delaying queue keeps one entry per key, the earliest.               *)
Sooner(old, new) == IF old = Null \/ new < old THEN new ELSE old

Delay(r, at) == timer' = [timer EXCEPT ![r] = Sooner(@, at)]

(* AddAfter of the delaying queue: what is already due is added at once.   *)
enqueueReportAfter(r, at) ==
  IF at <= now
  THEN queue' = queue \cup {r} /\ UNCHANGED timer
  ELSE Delay(r, at) /\ UNCHANGED queue

(* queue.Done and the end of the handler: the worker's locals are gone.    *)
Release(r) ==
  /\ pc' = [pc EXCEPT ![r] = "idle"]
  /\ obj' = [obj EXCEPT ![r] = NoReport]
  /\ cur' = [cur EXCEPT ![r] = FALSE]
  /\ period' = [period EXCEPT ![r] = NoPeriod]
  /\ read' = [read EXCEPT ![r] = NothingRead]

(* handleErr(nil).                                                         *)
Forget(r) ==
  /\ requeues' = [requeues EXCEPT ![r] = 0]
  /\ dropped' = dropped \ {r}

(* Defect: one retry too many.                                             *)
handleErrLate(r) ==
  \/ /\ requeues[r] <= MaxRequeues
     /\ requeues' = [requeues EXCEPT ![r] = @ + 1]
     /\ Delay(r, now)
     /\ UNCHANGED dropped
  \/ /\ requeues[r] > MaxRequeues
     /\ requeues' = [requeues EXCEPT ![r] = 0]
     /\ dropped' = dropped \cup {r}
     /\ UNCHANGED timer

(* handleErr(err): AddRateLimited until maxRequeues, then give the key up. *)
(* The back-off (5ms to 80ms) is shorter than a unit of the clock.         *)
handleErr(r) ==
  \/ /\ requeues[r] < MaxRequeues
     /\ requeues' = [requeues EXCEPT ![r] = @ + 1]
     /\ Delay(r, now)
     /\ UNCHANGED dropped
  \/ /\ requeues[r] >= MaxRequeues
     /\ requeues' = [requeues EXCEPT ![r] = 0]
     /\ dropped' = dropped \cup {r}
     /\ UNCHANGED timer

(* The sync of r ends with an error.                                       *)
Fail(r) == Release(r) /\ handleErr(r) /\ UNCHANGED queue

(* The sync of r ends well and leaves the queue alone.                     *)
Succeed(r) == Release(r) /\ Forget(r) /\ UNCHANGED <<queue, timer>>

-----------------------------------------------------------------------------
(* The API server                                                          *)

(* What is stored for an accepted write: an object that is being deleted   *)
(* goes away with its last finalizer.                                      *)
Stored(o) ==
  IF o.phase = "terminating" /\ ~o.finalizer THEN [o EXCEPT !.phase = "gone"] ELSE o

(* Defect: no optimistic lock.                                             *)
UpdateWithoutVersion(r) ==
  /\ api' = [api EXCEPT ![r] = Stored(obj[r])]
  /\ cacheCur' = [cacheCur EXCEPT ![r] = @ /\ Stored(obj[r]) = api[r]]
  /\ UNCHANGED <<cache, faults>>

(* An accepted Update.  A write that changes nothing keeps the version.    *)
UpdateAccepted(r) ==
  /\ cur[r]
  /\ api' = [api EXCEPT ![r] = Stored(obj[r])]
  /\ cacheCur' = [cacheCur EXCEPT ![r] = @ /\ Stored(obj[r]) = api[r]]
  /\ UNCHANGED <<cache, faults>>

(* A refused Update: a conflict, a vanished object, or an API failure.     *)
UpdateRefused(r) ==
  /\ IF cur[r] THEN Fault ELSE UNCHANGED faults
  /\ UNCHANGED apiVars

(* A write by somebody else: every copy of the object becomes stale.       *)
Outdate(r) ==
  /\ cacheCur' = [cacheCur EXCEPT ![r] = FALSE]
  /\ cur' = [cur EXCEPT ![r] = FALSE]
  /\ UNCHANGED <<cache, pc, obj, period, read>>

-----------------------------------------------------------------------------
(* Dependencies                                                            *)

(* getReportDependencies of q succeeds.                                    *)
Resolves(q) == queryReady[q] /\ \A s \in DependsOn[q] : Exists(cache[s])

(* The sets that queueDependentReports* may enqueue out of wanted.  The    *)
(* first Report in the lister whose dependencies do not resolve ends the   *)
(* loop, and the lister has no order.                                      *)
DependentsQueued(wanted) ==
  LET listed == {q \in Reports : Exists(cache[q])} IN
  IF \A q \in listed : Resolves(q)
  THEN {listed \cap wanted}
  ELSE SUBSET {q \in listed \cap wanted : Resolves(q)}

Dependents(r) == {q \in Reports : r \in DependsOn[q]}

(* validateReport: the spec, the query, and the tables of the sub-reports. *)
IsValid(r) ==
  /\ SpecIsValid(obj[r].spec)
  /\ Resolves(r)
  /\ \A s \in DependsOn[r] : cache[s].table

(* The clock and the dependencies as runReport reads them; what it decides *)
(* after it created the table and stored Status.TableRef is decided on     *)
(* these copies.                                                           *)
ReadNow(r) ==
  [ now      |-> now,
    last     |-> [s \in Reports |-> IF s \in DependsOn[r] THEN cache[s].last ELSE Null],
    coverage |-> IF r \in Metered THEN coverage ELSE NoImport ]

(* Defect: only the upper bound of the period is compared.                 *)
DataReached(r) ==
  read[r].coverage.end # Null /\ period[r].end <= read[r].coverage.end

(* The import status of the Prometheus ReportDataSource covers the period. *)
DataCovered(r) ==
  LET status == read[r].coverage IN
  /\ status.start # Null /\ status.start <= period[r].start
  /\ status.end # Null /\ period[r].end <= status.end

DataUnmet(r) == r \in Metered /\ ~DataCovered(r)

(* Defect: the sub-report is compared with the start of the period.        *)
SubReportsBehindStart(r) ==
  {s \in DependsOn[r] : read[r].last[s] # Null /\ read[r].last[s] < period[r].start}

UnmetSubReports(r) ==
  {s \in DependsOn[r] : read[r].last[s] # Null /\ read[r].last[s] < period[r].end}

-----------------------------------------------------------------------------
(* A sync, step by step                                                    *)

(* processResource takes a key and syncReport reads the lister.            *)
syncReport(r) ==
  /\ r \in queue /\ pc[r] = "idle"
  /\ Cardinality({q \in Reports : pc[q] # "idle"}) < Workers
  /\ queue' = queue \ {r}
  /\ LET o == cache[r]
         start(step, copy) ==
           /\ pc' = [pc EXCEPT ![r] = step]
           /\ obj' = [obj EXCEPT ![r] = copy]
           /\ cur' = [cur EXCEPT ![r] = cacheCur[r]]
           /\ UNCHANGED <<period, read, requeues, dropped>>
     IN
     \/ /\ ~Exists(o) \/ (o.phase = "terminating" /\ ~o.finalizer)
        /\ Forget(r) /\ UNCHANGED workVars
     \/ /\ o.phase = "terminating" /\ o.finalizer
        /\ start("removeFinalizer", [o EXCEPT !.finalizer = FALSE])
     \/ /\ o.phase = "live" /\ EnableFinalizers /\ ~o.finalizer
        /\ start("addFinalizer", [o EXCEPT !.finalizer = TRUE])
     \/ /\ o.phase = "live" /\ (EnableFinalizers => o.finalizer)
        /\ start("run", o)
  /\ UNCHANGED <<timer, apiVars, importVars, tableVars, histVars, envVars>>

addReportFinalizer(r) ==
  /\ pc[r] = "addFinalizer"
  /\ \/ /\ UpdateAccepted(r)
        /\ pc' = [pc EXCEPT ![r] = "run"]
        /\ UNCHANGED <<obj, cur, period, read, queueVars>>
     \/ UpdateRefused(r) /\ Fail(r)
  /\ UNCHANGED <<importVars, tableVars, histVars, now, queryReady, edits>>

removeReportFinalizer(r) ==
  /\ pc[r] = "removeFinalizer"
  /\ \/ UpdateAccepted(r) /\ Succeed(r)
     \/ UpdateRefused(r) /\ Fail(r)
  /\ UNCHANGED <<importVars, tableVars, histVars, now, queryReady, edits>>

(* runReport up to its first call: finished, invalid, no period, or the    *)
(* lookup of the table.                                                    *)
runReport(r) ==
  /\ pc[r] = "run"
  /\ LET o == obj[r]
         goto(step, copy) ==
           /\ pc' = [pc EXCEPT ![r] = step]
           /\ obj' = [obj EXCEPT ![r] = copy]
           /\ UNCHANGED <<cur, queueVars, faults>>
     IN
     \/ /\ isReportFinished(o)
        /\ Succeed(r) /\ UNCHANGED faults
     \/ /\ ~isReportFinished(o) /\ ~IsValid(r)
        /\ \/ goto("putInvalid", [o EXCEPT !.cond = "Invalid"]) /\ UNCHANGED <<period, read>>
           \/ o.cond = "Invalid" /\ Succeed(r) /\ UNCHANGED faults
     \/ /\ ~isReportFinished(o) /\ IsValid(r) /\ PeriodFails(o.spec)
        /\ Fail(r) /\ UNCHANGED faults
     \/ /\ ~isReportFinished(o) /\ IsValid(r) /\ ~PeriodFails(o.spec)
        /\ \/ /\ goto(IF o.table THEN "decide" ELSE "createTable",
                      [o EXCEPT !.next = nextReportTimeAfter(now, o)])
              /\ period' = [period EXCEPT ![r] = getReportPeriod(now, o)]
              /\ read' = [read EXCEPT ![r] = ReadNow(r)]
           \/ o.table /\ Fault /\ Fail(r)
  /\ UNCHANGED <<apiVars, importVars, tableVars, histVars, now, queryReady, edits>>

setReportStatusInvalidReport(r) ==
  /\ pc[r] = "putInvalid"
  /\ \/ UpdateAccepted(r) /\ Succeed(r)
     \/ UpdateRefused(r) /\ Fail(r)
  /\ UNCHANGED <<importVars, tableVars, histVars, now, queryReady, edits>>

(* createHiveTableCR, waitForHiveTable, waitForPrestoTable and the         *)
(* ReportDataSource of the table; any of them may fail or time out.        *)
createTable(r) ==
  /\ pc[r] = "createTable"
  /\ \/ /\ pc' = [pc EXCEPT ![r] = "putTable"]
        /\ obj' = [obj EXCEPT ![r].table = TRUE]
        /\ UNCHANGED <<cur, period, read, queueVars, faults>>
     \/ Fault /\ Fail(r)
  /\ UNCHANGED <<apiVars, importVars, tableVars, histVars, now, queryReady, edits>>

(* Status.TableRef is stored and the dependents learn of the table.        *)
putTable(r) ==
  /\ pc[r] = "putTable"
  /\ \/ /\ UpdateAccepted(r)
        /\ pc' = [pc EXCEPT ![r] = "decide"]
        /\ \E S \in DependentsQueued(Dependents(r)) : queue' = queue \cup S
        /\ UNCHANGED <<obj, cur, period, read, timer, requeues, dropped>>
     \/ UpdateRefused(r) /\ Fail(r)
  /\ UNCHANGED <<importVars, tableVars, histVars, now, queryReady, edits>>

(* Run immediately, wait for the end of the period, wait for dependencies, *)
(* or run.                                                                 *)
decide(r) ==
  /\ pc[r] = "decide"
  /\ LET o == obj[r]
         due == o.spec.runImmediately \/ period[r].end <= read[r].now
         unmet == ~o.spec.runImmediately /\ (DataUnmet(r) \/ UnmetSubReports(r) # {})
         goto(step, reason) ==
           /\ pc' = [pc EXCEPT ![r] = step]
           /\ obj' = [obj EXCEPT ![r].cond = reason]
           /\ UNCHANGED <<cur, period, read, timer, requeues, dropped>>
     IN
     \/ /\ ~due
        /\ goto("putWaiting", "Waiting") /\ UNCHANGED queue
     \/ /\ due /\ unmet
        /\ queue' = queue \cup UnmetSubReports(r)
        /\ \/ goto("putUnmet", "Unmet")
           \/ o.cond = "Unmet" /\ Release(r) /\ Forget(r) /\ UNCHANGED timer
     \/ /\ due /\ ~unmet
        /\ goto("putRunning", IF o.spec.runImmediately THEN "RunImmediately" ELSE "Scheduled")
        /\ UNCHANGED queue
  /\ UNCHANGED <<apiVars, importVars, tableVars, histVars, envVars>>

(* Defect: the status says Waiting but nothing is enqueued.                *)
putWaitingWithoutTimer(r) ==
  /\ pc[r] = "putWaiting"
  /\ \/ UpdateAccepted(r) /\ Succeed(r)
     \/ UpdateRefused(r) /\ Fail(r)
  /\ UNCHANGED <<importVars, tableVars, histVars, now, queryReady, edits>>

putWaiting(r) ==
  /\ pc[r] = "putWaiting"
  /\ \/ /\ UpdateAccepted(r)
        /\ enqueueReportAfter(r, now + (period[r].end - read[r].now))
        /\ Release(r) /\ Forget(r)
     \/ UpdateRefused(r) /\ Fail(r)
  /\ UNCHANGED <<importVars, tableVars, histVars, now, queryReady, edits>>

putUnmet(r) ==
  /\ pc[r] = "putUnmet"
  /\ \/ UpdateAccepted(r) /\ Succeed(r)
     \/ UpdateRefused(r) /\ Fail(r)
  /\ UNCHANGED <<importVars, tableVars, histVars, now, queryReady, edits>>

(* Defect: the Running condition is not stored before the query runs.      *)
putRunningLocally(r) ==
  /\ pc[r] = "putRunning"
  /\ pc' = [pc EXCEPT ![r] = "generate"]
  /\ UNCHANGED <<obj, cur, period, read, queueVars, apiVars, importVars, tableVars, histVars,
                 envVars>>

(* The Running condition is stored before anything is generated.           *)
putRunning(r) ==
  /\ pc[r] = "putRunning"
  /\ \/ /\ UpdateAccepted(r)
        /\ pc' = [pc EXCEPT ![r] = "generate"]
        /\ UNCHANGED <<obj, cur, period, read, queueVars>>
     \/ UpdateRefused(r) /\ Fail(r)
  /\ UNCHANGED <<importVars, tableVars, histVars, now, queryReady, edits>>

(* The query is rendered, then GenerateReport empties the table if it is   *)
(* told to.                                                                *)
renderAndDelete(r) ==
  /\ pc[r] = "generate"
  /\ \/ /\ pc' = [pc EXCEPT ![r] = "insert"]
        /\ rows' = IF obj[r].spec.overwrite THEN [rows EXCEPT ![r] = << >>] ELSE rows
        /\ wiped' = [wiped EXCEPT ![r] = @ \/ obj[r].spec.overwrite]
        /\ UNCHANGED <<obj, cur, period, read, queueVars, faults>>
     \/ Fault /\ Fail(r) /\ UNCHANGED tableVars
     \/ /\ obj[r].spec.overwrite /\ Fault
        /\ pc' = [pc EXCEPT ![r] = "putFailed"]
        /\ obj' = [obj EXCEPT ![r].cond = "Failed"]
        /\ UNCHANGED <<cur, period, read, queueVars, tableVars>>
  /\ UNCHANGED <<apiVars, importVars, histVars, now, queryReady, edits>>

(* Defect: the error of StoreReportResults is ignored.                     *)
insertResultsUnchecked(r) ==
  /\ pc[r] = "insert"
  /\ LET p == period[r] IN
     \/ /\ rows' = [rows EXCEPT ![r] =
                      Append(@, [start |-> p.start, end |-> p.end, forced |-> FALSE])]
        /\ UNCHANGED faults
     \/ Fault /\ UNCHANGED rows
  /\ pc' = [pc EXCEPT ![r] = "putFinal"]
  /\ obj' = [obj EXCEPT ![r] = AfterReport(@, period[r].end)]
  /\ UNCHANGED <<cur, period, read, queueVars, wiped, histVars,
                 apiVars, importVars, now, queryReady, edits>>

(* StoreReportResults and, when it succeeds, the new status and the timer  *)
(* of the next period.                                                     *)
insertResults(r) ==
  /\ pc[r] = "insert"
  /\ LET o == obj[r]
         p == period[r]
     IN
     \/ /\ rows' = [rows EXCEPT ![r] =
                      Append(@, [start |-> p.start, end |-> p.end,
                                 forced |-> o.spec.runImmediately])]
        /\ pc' = [pc EXCEPT ![r] = "putFinal"]
        /\ obj' = [obj EXCEPT ![r] = AfterReport(o, p.end)]
        /\ redone' = [redone EXCEPT ![r] = @ \/ p.start >= p.end]
        /\ IF HasNextPeriod(o, p.end)
           THEN enqueueReportAfter(r, NextTime(p.end))
           ELSE UNCHANGED <<queue, timer>>
        /\ UNCHANGED faults
     \/ /\ Fault
        /\ pc' = [pc EXCEPT ![r] = "putFailed"]
        /\ obj' = [obj EXCEPT ![r].cond = "Failed"]
        /\ UNCHANGED <<rows, redone, queue, timer>>
  /\ UNCHANGED <<cur, period, read, requeues, dropped, wiped, rescoped, first,
                 apiVars, importVars, now, queryReady, edits>>

putFailed(r) ==
  /\ pc[r] = "putFailed"
  /\ UpdateAccepted(r) \/ UpdateRefused(r)
  /\ Fail(r)
  /\ UNCHANGED <<importVars, tableVars, histVars, now, queryReady, edits>>

(* LastReportTime is stored and the dependents are queued.                 *)
putFinal(r) ==
  /\ pc[r] = "putFinal"
  /\ \/ /\ UpdateAccepted(r)
        /\ first' = [first EXCEPT ![r] = IF api[r].last = Null THEN period[r].start ELSE @]
        /\ \E S \in DependentsQueued(Dependents(r)) : queue' = queue \cup S
        /\ Release(r) /\ Forget(r)
        /\ UNCHANGED <<timer, redone>>
     \/ /\ UpdateRefused(r) /\ Fail(r)
        /\ redone' = [redone EXCEPT ![r] = TRUE]
        /\ UNCHANGED first
  /\ UNCHANGED <<importVars, tableVars, rescoped, now, queryReady, edits>>

-----------------------------------------------------------------------------
(* The informer, the delaying queue, the importer, users and restarts      *)

(* The watch brings the stored object to the cache: addReport,             *)
(* updateReport or deleteReport.  Status changes do not queue the Report.  *)
deliver(r) ==
  /\ ~cacheCur[r]
  /\ cache' = [cache EXCEPT ![r] = api[r]]
  /\ cacheCur' = [cacheCur EXCEPT ![r] = TRUE]
  /\ queue' = IF \/ ~Exists(cache[r])
                 \/ api[r].phase # "live"
                 \/ api[r].spec # cache[r].spec
              THEN queue \cup {r} ELSE queue
  /\ UNCHANGED <<api, timer, requeues, dropped, workVars, importVars, tableVars,
                 histVars, envVars>>

fireTimer(r) ==
  /\ timer[r] # Null /\ timer[r] <= now
  /\ timer' = [timer EXCEPT ![r] = Null]
  /\ queue' = queue \cup {r}
  /\ UNCHANGED <<requeues, dropped, apiVars, workVars, importVars, tableVars, histVars, envVars>>

(* Defect: an import wakes nobody.                                         *)
importMetricsQuietly(some) ==
  /\ Metered # {} /\ some \in BOOLEAN
  /\ imported' = [imported EXCEPT !.start = 0, !.end = now]
  /\ UNCHANGED <<coverage, queueVars, apiVars, workVars, tableVars, histVars, envVars>>

(* handlePrometheusMetricsDataSource stored metrics up to now; only when   *)
(* there were any does it queue the Reports that read them, and it does so *)
(* before it updates its own status.                                       *)
importMetrics(some) ==
  /\ Metered # {}
  /\ imported' = [ start |-> IF imported.start # Null THEN imported.start
                            ELSE IF now < MaxBackfill THEN 0 ELSE now - MaxBackfill,
                   end   |-> now ]
  /\ IF some
     THEN \E S \in DependentsQueued(Metered) : queue' = queue \cup S
     ELSE UNCHANGED queue
  /\ UNCHANGED <<coverage, timer, requeues, dropped, apiVars, workVars, tableVars,
                 histVars, envVars>>

(* The status update of the ReportDataSource reaches the lister.           *)
publishImport ==
  /\ coverage' = imported
  /\ UNCHANGED <<imported, apiVars, queueVars, workVars, tableVars, histVars, envVars>>

(* A new ReportQuery: handleReportQuery queues ReportDataSources only.     *)
createReportQuery(r) ==
  /\ ~queryReady[r]
  /\ queryReady' = [queryReady EXCEPT ![r] = TRUE]
  /\ UNCHANGED <<now, edits, faults, apiVars, queueVars, workVars, importVars, tableVars,
                 histVars>>

Edit == edits < MaxEdits /\ edits' = edits + 1

createReport(r, s) ==
  /\ api[r].phase = "absent"
  /\ api' = [api EXCEPT ![r] = [NoReport EXCEPT !.phase = "live", !.spec = s]]
  /\ Outdate(r) /\ Edit
  /\ UNCHANGED <<queueVars, importVars, tableVars, histVars, now, queryReady, faults>>

editReport(r, s) ==
  /\ api[r].phase = "live" /\ api[r].spec # s
  /\ api' = [api EXCEPT ![r].spec = s]
  /\ rescoped' = [rescoped EXCEPT ![r] =
                    @ \/ /\ api[r].last # Null
                         /\ api[r].spec.schedule # "none" /\ s.schedule = "none"]
  /\ Outdate(r) /\ Edit
  /\ UNCHANGED <<queueVars, importVars, tableVars, redone, first, now, queryReady, faults>>

deleteReport(r) ==
  /\ api[r].phase = "live"
  /\ api' = [api EXCEPT ![r].phase = IF api[r].finalizer THEN "terminating" ELSE "gone"]
  /\ Outdate(r) /\ Edit
  /\ UNCHANGED <<queueVars, importVars, tableVars, histVars, now, queryReady, faults>>

tick ==
  /\ now < MaxTime
  /\ now' = now + 1
  /\ UNCHANGED <<queryReady, edits, faults, apiVars, queueVars, workVars, importVars,
                 tableVars, histVars>>

(* The process exits (crash, shutdown or lost leadership) and another one  *)
(* starts: it lists all Reports, and every one it finds is added.          *)
restart ==
  /\ Fault
  /\ cache' = api
  /\ cacheCur' = [r \in Reports |-> TRUE]
  /\ queue' = {r \in Reports : Exists(api[r])}
  /\ timer' = [r \in Reports |-> Null]
  /\ requeues' = [r \in Reports |-> 0]
  /\ dropped' = {}
  /\ pc' = [r \in Reports |-> "idle"]
  /\ obj' = [r \in Reports |-> NoReport]
  /\ cur' = [r \in Reports |-> FALSE]
  /\ period' = [r \in Reports |-> NoPeriod]
  /\ read' = [r \in Reports |-> NothingRead]
  /\ redone' = [r \in Reports |-> redone[r] \/ pc[r] = "putFinal"]
  /\ UNCHANGED <<api, rescoped, first, importVars, tableVars, now, queryReady, edits>>

-----------------------------------------------------------------------------
worker(r) ==
  \/ syncReport(r) \/ addReportFinalizer(r) \/ removeReportFinalizer(r)
  \/ runReport(r) \/ setReportStatusInvalidReport(r)
  \/ createTable(r) \/ putTable(r) \/ decide(r) \/ putWaiting(r) \/ putUnmet(r)
  \/ putRunning(r) \/ renderAndDelete(r) \/ insertResults(r)
  \/ putFailed(r) \/ putFinal(r)

user(r) ==
  \/ \E s \in UserSpecs : createReport(r, s) \/ editReport(r, s)
  \/ deleteReport(r) \/ createReportQuery(r)

Next ==
  \/ \E r \in Reports : worker(r) \/ deliver(r) \/ fireTimer(r) \/ user(r)
  \/ \E some \in BOOLEAN : importMetrics(some)
  \/ publishImport
  \/ tick
  \/ restart

Spec == Init /\ [][Next]_vars

(* Workers run, the watch and the delaying queue deliver, time passes and  *)
(* Prometheus keeps returning samples; users and faults owe nothing.       *)
Fairness ==
  /\ \A r \in Reports :
       /\ SF_vars(syncReport(r))
       /\ WF_vars(worker(r) /\ pc[r] # "idle")
       /\ WF_vars(deliver(r))
       /\ WF_vars(fireTimer(r))
  /\ WF_vars(importMetrics(TRUE))
  /\ WF_vars(publishImport)
  /\ WF_vars(tick)

FairSpec == Spec /\ Fairness

-----------------------------------------------------------------------------
(* Properties                                                              *)

(* Rows that follow one another without a gap or an overlap.               *)
Chain(s) ==
  \A i \in 1..Len(s) :
    /\ s[i].start < s[i].end
    /\ i < Len(s) => s[i].end = s[i + 1].start

(* How many rows of r the stored status accounts for.                      *)
Recorded(r) == Len(rows[r]) - (IF pc[r] = "putFinal" THEN 1 ELSE 0)

(***************************************************************************)
(* Each period is stored once: the table holds consecutive periods and     *)
(* LastReportTime is the end of the last one (of the one before it between *)
(* GenerateReport and the final Update).  Conflicts, stale caches, retries *)
(* and restarts between any other two steps do not break it.               *)
(***************************************************************************)
ExactlyOnce ==
  \A r \in Reports :
    ~redone[r] /\ ~rescoped[r] /\ ~wiped[r] =>
      /\ Chain(rows[r])
      /\ api[r].last = IF Recorded(r) = 0 THEN Null ELSE rows[r][Recorded(r)].end

(***************************************************************************)
(* Backfill loses nothing: every instant between the first recorded period *)
(* and LastReportTime is in the table, whatever was retried, lost or       *)
(* restarted.                                                              *)
(***************************************************************************)
NoLostPeriod ==
  \A r \in Reports :
    api[r].last # Null /\ ~rescoped[r] /\ ~wiped[r] =>
      \A t \in first[r]..(api[r].last - 1) :
        \E i \in 1..Len(rows[r]) : rows[r][i].start <= t /\ t < rows[r][i].end

(***************************************************************************)
(* A Report that was not told to run immediately only stores a period that *)
(* has ended, and that the importer had already stored the metrics of.     *)
(***************************************************************************)
RowsBackedByData ==
  \A r \in Reports : \A i \in 1..Len(rows[r]) :
    ~rows[r][i].forced =>
      /\ rows[r][i].end <= now
      /\ r \in Metered => /\ imported.start <= rows[r][i].start
                         /\ rows[r][i].end <= imported.end

(***************************************************************************)
(* LastReportTime is never unset again, and it moves back only when a user *)
(* moved ReportingEnd before it.                                           *)
(***************************************************************************)
LastReportTimeAdvances ==
  [][\A r \in Reports :
       api[r].last # Null =>
         /\ api'[r].last # Null
         /\ api'[r].last < api[r].last =>
              api[r].spec.end # Null /\ api[r].spec.end < api[r].last]_vars

(* Neither imports nor sub-reports ever queue r.                           *)
OnItsOwn(r) == r \notin Metered /\ DependsOn[r] = {}

(***************************************************************************)
(* A Report that only wakes itself, and whose stored status says that it   *)
(* waits for its next period, has a wake-up pending, whatever old copy it  *)
(* was last synced from, unless handleErr gave its key up.                 *)
(***************************************************************************)
WaitingReportHasWakeup ==
  \A r \in Reports :
    OnItsOwn(r) /\ api[r].phase = "live" /\ api[r].cond = "Waiting" /\ pc[r] = "idle" =>
      timer[r] # Null \/ r \in queue \/ r \in dropped

(***************************************************************************)
(* When runReport releases a roll-up, every sub-report that had reported   *)
(* at all when the roll-up was validated holds rows up to the end of the   *)
(* period, whatever the sub-report, its users and restarts did while the   *)
(* roll-up created its table and stored its status.                        *)
(***************************************************************************)
RollupReadsReportedPeriods ==
  [][\A r \in Reports :
       pc[r] = "decide" /\ pc'[r] = "putRunning" /\ ~obj[r].spec.runImmediately =>
         \A s \in DependsOn[r] :
           read[r].last[s] # Null /\ ~wiped[s] =>
             \E i \in 1..Len(rows[s]) : rows[s][i].end >= period[r].end]_vars

(***************************************************************************)
(* A Finished status is backed by the table: the row that ends at          *)
(* LastReportTime is the last one there, also when overwriteExistingData   *)
(* empties the table before every run and the run may then fail, when a    *)
(* user reopens the Report, and when periods are stored twice.             *)
(***************************************************************************)
FinishedReportHasRows ==
  \A r \in Reports :
    api[r].cond = "Finished" =>
      rows[r] # << >> /\ rows[r][Len(rows[r])].end = api[r].last

(***************************************************************************)
(* The controller implements the ledger of ReportLedger: a sync stores at  *)
(* most one period, only where the stored LastReportTime left off, and     *)
(* records only what it stored last, whatever copy it worked from.         *)
(***************************************************************************)
Ledger == INSTANCE ReportLedger WITH last <- [r \in Reports |-> api[r].last]

ImplementsLedger == Ledger!Spec

(* All the periods of r that end within the bound are recorded.            *)
CaughtUp(r) ==
  /\ api[r].last # Null
  /\ NextTime(api[r].last) > MaxTime \/ isReportFinished(api[r])

(* The first import began after reportingStart, MaxBackfill ago: metrics   *)
(* from before it are never imported.                                      *)
StartsBeforeMetrics(r) ==
  imported.start # Null /\ api[r].spec.start # Null /\ imported.start > api[r].spec.start

(***************************************************************************)
(* A scheduled Report over imported metrics catches up with every period   *)
(* that has ended, as long as it exists and its metrics go back to its     *)
(* start: the importer wakes it whatever its own timers, retries, edits    *)
(* and restarts came to.                                                   *)
(***************************************************************************)
ScheduledReportsCatchUp ==
  \A r \in Reports :
    api[r].phase = "live" /\ api[r].spec.schedule = "cron" /\ api[r].spec.start # Null
      ~> CaughtUp(r) \/ api[r].phase # "live" \/ StartsBeforeMetrics(r)

=============================================================================
