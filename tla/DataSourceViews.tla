-------------------------- MODULE DataSourceViews --------------------------
(***************************************************************************)
(* ReportDataSources that depend on each other: the controller's syncs     *)
(* (pkg/operator/datasources.go), the views of ReportQueries and what they *)
(* wait for, the ReportQuery controller (reportquery.go), and the Reports  *)
(* and views that a data source queues when it has its table.              *)
(*                                                                         *)
(* A kind is "aws" for a data source with a table of its own, "prestoTable"*)
(* for one over a user's PrestoTable and "view" for one over a ReportQuery;*)
(* the Prometheus kind is in PrometheusImporter.  How PrestoTables come    *)
(* about is TableLifecycle, what a valid Report does ReportController.     *)
(* An object is created and deleted at most once.                          *)
(***************************************************************************)
EXTENDS DependencyResolver

CONSTANTS
  DataSources, Queries, Reports,
  Views,              \* the data sources that are views of a ReportQuery
  QueryOf,            \* the query of each view and Report
  NamedLike,          \* the ReportQuery with the same name as a view, or Null
  InputsOf,           \* the input definitions of each query
  ViewInputs,         \* spec.reportQueryView.inputs
  maxRequeues,
  Setups              \* what is tried: the kinds of the other data sources, the queries that
                      \* come late, op.cfg.EnableFinalizers and a bound on failed calls and restarts

ASSUME ViewsAssumption ==
  /\ Views \subseteq DataSources
  /\ QueryOf \in [Views \cup Reports -> Queries]
  /\ NamedLike \in [Views -> Queries \cup {Null}]
  /\ \A q \in Queries :
       /\ InputsOf[q] \in Seq({InputsOf[q][i] : i \in DOMAIN InputsOf[q]})
       /\ \A i \in DOMAIN InputsOf[q] : InputsOf[q][i].type # "Report"
  /\ Setups \subseteq [ kind : {"aws", "prestoTable"}, late : SUBSET Queries,
                         enableFinalizers : BOOLEAN, maxFaults : Nat ]
  /\ maxRequeues \in Nat

VARIABLES
  obj, cache,              \* the ReportDataSources, stored and in the informer
  stripped,                \* the cached ones whose finalizer was taken off in place
  queries, cachedQueries,  \* the ReportQueries that exist
  reports, cachedReports,  \* the Reports that exist
  valid,                   \* the Reports that have passed validateReport
  dsQueue, queryQueue, reportQueue,
  tries,                   \* failed syncs of each data source in a row
  work,                    \* the worker of each data source
  table,                   \* its PrestoTable: the data sources it reads, or Null
  faults,                  \* bound
  setup                    \* the one of Setups that is the case, which nothing changes

objects_vars == <<obj, queries, reports, table>>
vars == <<obj, cache, stripped, queries, cachedQueries, reports, cachedReports, valid,
          dsQueue, queryQueue, reportQueue, tries, work, table, faults>>

-----------------------------------------------------------------------------
ReportDataSource == [ phase : {"new", "live", "terminating", "gone"}, finalizer : BOOLEAN,
                      tableRef : BOOLEAN ]

NewDataSource == [phase |-> "new", finalizer |-> FALSE, tableRef |-> FALSE]

Steps == {"idle", "addFinalizer", "handle", "create", "putTableRef", "queueReports",
          "queueDataSources", "removeFinalizer"}

(* "announces" says that this sync has stored the tableRef.                *)
Idle == [pc |-> "idle", copy |-> NewDataSource, reads |-> {}, announces |-> FALSE]

(* Every variable holds a value of the kind the code keeps there.          *)
TypeOK ==
  /\ obj \in [DataSources -> ReportDataSource] /\ cache \in [DataSources -> ReportDataSource]
  /\ queries \subseteq Queries /\ cachedQueries \subseteq Queries /\ queryQueue \subseteq Queries
  /\ reports \subseteq Reports /\ cachedReports \subseteq Reports /\ reportQueue \subseteq Reports
  /\ valid \subseteq Reports /\ dsQueue \subseteq DataSources /\ stripped \subseteq DataSources
  /\ tries \in [DataSources -> 0..maxRequeues]
  /\ work \in [DataSources -> [ pc : Steps, copy : ReportDataSource, reads : SUBSET DataSources,
                                announces : BOOLEAN ]]
  /\ table \in [DataSources -> (SUBSET DataSources) \cup {Null}]
  /\ faults \in 0..setup.maxFaults /\ setup \in Setups

KindOf(d) == IF d \in Views THEN "view" ELSE setup.kind

Exists(o) == o.phase \in {"live", "terminating"}

Existing(dataSources) == {d \in DataSources : Exists(dataSources[d])}

(* What the getters of the resolver find when these exist.                 *)
Objects(ds, qs, rs) ==
  [ queries     |-> [q \in qs |-> InputsOf[q]],
    dataSources |-> [d \in ds |-> IF d \in Views THEN QueryOf[d] ELSE Null],
    reports     |-> [r \in rs |-> QueryOf[r]] ]

(* What exists: the dependencies of each query, without inputs, and those  *)
(* of the query that is named like a view, with the view's.                *)
World == (SUBSET DataSources) \X (SUBSET Queries) \X (SUBSET Reports)

QueryDeps ==
  [w \in World |->
     [q \in Queries |-> getQueryDependencies(Objects(w[1], w[2], w[3]), q, NoInputs)]]

ViewDeps ==
  [w \in World |->
     [v \in Views |-> getQueryDependencies(Objects(w[1], w[2], w[3]), NamedLike[v], ViewInputs[v])]]

Cached == <<Existing(cache), cachedQueries, cachedReports>>

cachedDependencies(q) == QueryDeps[Cached][q]

-----------------------------------------------------------------------------
(* Users                                                                   *)

createDataSource(d) ==
  /\ obj[d].phase = "new"
  /\ obj' = [obj EXCEPT ![d].phase = "live"]
  /\ UNCHANGED <<cache, stripped, queries, cachedQueries, reports, cachedReports, valid,
                 dsQueue, queryQueue, reportQueue, tries, work, table, faults>>

deleteDataSource(d) ==
  /\ obj[d].phase = "live"
  /\ obj' = [obj EXCEPT ![d].phase = IF obj[d].finalizer THEN "terminating" ELSE "gone"]
  /\ UNCHANGED <<cache, stripped, queries, cachedQueries, reports, cachedReports, valid,
                 dsQueue, queryQueue, reportQueue, tries, work, table, faults>>

createQuery(q) ==
  /\ q \notin queries /\ queries' = queries \cup {q}
  /\ UNCHANGED <<obj, cache, stripped, cachedQueries, reports, cachedReports, valid,
                 dsQueue, queryQueue, reportQueue, tries, work, table, faults>>

createReport(r) ==
  /\ r \notin reports /\ reports' = reports \cup {r}
  /\ UNCHANGED <<obj, cache, stripped, queries, cachedQueries, cachedReports, valid,
                 dsQueue, queryQueue, reportQueue, tries, work, table, faults>>

(* The PrestoTable that a data source of this kind refers to.              *)
createPrestoTable(d) ==
  /\ KindOf(d) = "prestoTable" /\ table[d] = Null
  /\ table' = [table EXCEPT ![d] = {}]
  /\ UNCHANGED <<obj, cache, stripped, queries, cachedQueries, reports, cachedReports, valid,
                 dsQueue, queryQueue, reportQueue, tries, work, faults>>

-----------------------------------------------------------------------------
(* The informers and their handlers                                        *)

deliverDataSource(d) ==
  /\ cache[d] # obj[d]
  /\ cache' = [cache EXCEPT ![d] = obj[d]] /\ stripped' = stripped \ {d}
  /\ dsQueue' = dsQueue \cup {d}
  /\ UNCHANGED <<objects_vars, cachedQueries, cachedReports, valid,
                 queryQueue, reportQueue, tries, work, faults>>

deliverQuery(q) ==
  /\ q \in queries \ cachedQueries
  /\ cachedQueries' = cachedQueries \cup {q} /\ queryQueue' = queryQueue \cup {q}
  /\ UNCHANGED <<objects_vars, cache, stripped, cachedReports, valid, dsQueue, reportQueue, tries, work, faults>>

deliverReport(r) ==
  /\ r \in reports \ cachedReports
  /\ cachedReports' = cachedReports \cup {r} /\ reportQueue' = reportQueue \cup {r}
  /\ UNCHANGED <<objects_vars, cache, stripped, cachedQueries, valid, dsQueue, queryQueue, tries, work, faults>>

resync_ignored(d) == FALSE /\ d \in DataSources /\ UNCHANGED vars

(* Of the three, only updateReportDataSource lets a resync through.        *)
resync(d) ==
  /\ Exists(cache[d]) /\ d \notin dsQueue
  /\ dsQueue' = dsQueue \cup {d}
  /\ UNCHANGED <<objects_vars, cache, stripped, cachedQueries, cachedReports, valid,
                 queryQueue, reportQueue, tries, work, faults>>

-----------------------------------------------------------------------------
(* Who is queued when a data source has its table.  A lister has no order, *)
(* and an error ends the loop: any of those before it have been looked at. *)

QueuedFrom(broken, fine, queued) ==
  IF broken = {} THEN queued = fine ELSE queued \in SUBSET fine

queueDependentReports_none(d) == d \in DataSources /\ UNCHANGED reportQueue

queueDependentReportsForDataSource(d) ==
  LET deps == [r \in cachedReports |-> cachedDependencies(QueryOf[r])]
  IN  \E queued \in SUBSET cachedReports :
        /\ QueuedFrom({r \in cachedReports : deps[r].err # "none"},
                      {r \in cachedReports : deps[r].err = "none" /\ d \in deps[r].dataSources}, queued)
        /\ reportQueue' = reportQueue \cup queued

(* getQueryDependencies is given the name of the view as the query's.      *)
queueDependentReportDataSources(d) ==
  LET live == {v \in Views : Exists(cache[v])}
      deps == [v \in live |-> ViewDeps[Cached][v]]
  IN  \E queued \in SUBSET live :
        /\ QueuedFrom({v \in live : deps[v].err # "none"},
                      {v \in live : deps[v].err = "none" /\ d \in deps[v].dataSources}, queued)
        /\ dsQueue' = dsQueue \cup queued

(* ValidateQueryDependencies: the ones without a table, which are queued.  *)
(* No query reads a Report here (ViewsAssumption): a Report that waits for *)
(* another one's table is ReportController's.                              *)
Uninitialized_none(deps) == {d \in deps.dataSources : deps.err # "none"}

Uninitialized(deps) == {d \in deps.dataSources : ~cache[d].tableRef}

-----------------------------------------------------------------------------
(* The ReportDataSource worker                                             *)

Fail_countsOn(d) ==
  /\ work' = [work EXCEPT ![d] = Idle] /\ dsQueue' = dsQueue \cup {d}
  /\ tries' = [tries EXCEPT ![d] = @ + 1]

(* handleErr                                                               *)
Fail(d) ==
  /\ work' = [work EXCEPT ![d] = Idle]
  /\ dsQueue' = IF tries[d] < maxRequeues THEN dsQueue \cup {d} ELSE dsQueue
  /\ tries' = [tries EXCEPT ![d] = IF @ < maxRequeues THEN @ + 1 ELSE 0]

Done(d) ==
  /\ work' = [work EXCEPT ![d] = Idle] /\ tries' = [tries EXCEPT ![d] = 0]

Goto(d, step) == work' = [work EXCEPT ![d].pc = step] /\ UNCHANGED tries

syncReportDataSource_noCleanup(d) ==
  /\ d \in dsQueue /\ work[d].pc = "idle"
  /\ dsQueue' = dsQueue \ {d}
  /\ work' = [work EXCEPT ![d] =
               IF ~Exists(cache[d]) THEN Idle
               ELSE [Idle EXCEPT !.copy = cache[d],
                                 !.pc = IF setup.enableFinalizers /\ ~cache[d].finalizer THEN "addFinalizer" ELSE "handle"]]
  /\ UNCHANGED <<objects_vars, cache, stripped, cachedQueries, cachedReports, valid,
                 queryQueue, reportQueue, tries, faults>>

(* A deleted one is cleaned up without a deep copy: its finalizer is taken *)
(* off the informer's object before the Update.                            *)
syncReportDataSource(d) ==
  LET o == cache[d]
      step == IF o.phase = "terminating" /\ o.finalizer /\ d \notin stripped THEN "removeFinalizer"
              ELSE IF o.phase # "live" THEN "idle"
              ELSE IF setup.enableFinalizers /\ ~o.finalizer THEN "addFinalizer" ELSE "handle"
  IN  /\ d \in dsQueue /\ work[d].pc = "idle"
      /\ dsQueue' = dsQueue \ {d}
      /\ work' = [work EXCEPT ![d] = IF step = "idle" THEN Idle ELSE [Idle EXCEPT !.pc = step, !.copy = o]]
      /\ tries' = [tries EXCEPT ![d] = IF step = "idle" THEN 0 ELSE @]
      /\ stripped' = IF step = "removeFinalizer" THEN stripped \cup {d} ELSE stripped
      /\ UNCHANGED <<objects_vars, cache, cachedQueries, cachedReports, valid,
                     queryQueue, reportQueue, faults>>

(* The Update of a copy that is no longer the stored object is refused.    *)
updateAccepted(d) == obj[d] = work[d].copy

addReportDataSourceFinalizer(d) ==
  /\ work[d].pc = "addFinalizer"
  /\ IF updateAccepted(d)
     THEN /\ obj' = [obj EXCEPT ![d].finalizer = TRUE]
          /\ work' = [work EXCEPT ![d].pc = "handle", ![d].copy.finalizer = TRUE]
          /\ UNCHANGED <<tries, dsQueue>>
     ELSE UNCHANGED obj /\ Fail(d)
  /\ UNCHANGED <<cache, stripped, queries, cachedQueries, reports, cachedReports, valid,
                 queryQueue, reportQueue, table, faults>>

(* handleReportQueryViewDataSource, up to the view.  The inputs of the     *)
(* query are resolved without those of the data source.                    *)
handleView(d) ==
  LET deps == cachedDependencies(QueryOf[d])
      missing == Uninitialized(deps)
  IN  IF deps.err # "none" THEN Fail(d)
      ELSE IF missing # {} THEN Done(d) /\ dsQueue' = dsQueue \cup missing
      ELSE /\ work' = [work EXCEPT ![d].pc = IF work[d].copy.tableRef THEN "queueReports" ELSE "create",
                                   ![d].reads = deps.dataSources]
           /\ UNCHANGED <<tries, dsQueue>>

(* handlePrestoTableDataSource, up to the status, and AWS billing.         *)
handleTable(d) ==
  IF KindOf(d) = "aws"
  THEN Goto(d, IF work[d].copy.tableRef THEN "queueReports" ELSE "create") /\ UNCHANGED dsQueue
  ELSE IF table[d] = Null THEN Fail(d)
  ELSE IF work[d].copy.tableRef THEN Done(d) /\ UNCHANGED dsQueue
  ELSE Goto(d, "putTableRef") /\ UNCHANGED dsQueue

handleReportDataSource(d) ==
  /\ work[d].pc = "handle"
  /\ IF KindOf(d) = "view" THEN handleView(d) ELSE handleTable(d)
  /\ UNCHANGED <<objects_vars, cache, stripped, cachedQueries, cachedReports, valid, queryQueue, reportQueue, faults>>

(* createPrestoTableCR or createAWSUsageHiveTableCR, and the wait.         *)
createTable(d) ==
  /\ work[d].pc = "create"
  /\ table' = [table EXCEPT ![d] = IF @ = Null THEN work[d].reads ELSE @]
  /\ Goto(d, "putTableRef")
  /\ UNCHANGED <<obj, cache, stripped, queries, cachedQueries, reports, cachedReports, valid,
                 dsQueue, queryQueue, reportQueue, faults>>

(* updateReportDataSource reads the stored object and retries conflicts.   *)
putTableRef(d) ==
  /\ work[d].pc = "putTableRef"
  /\ IF Exists(obj[d])
     THEN /\ obj' = [obj EXCEPT ![d].tableRef = TRUE]
          /\ work' = [work EXCEPT ![d].pc = IF KindOf(d) = "prestoTable" THEN "idle" ELSE "queueReports",
                                  ![d].announces = TRUE]
          /\ UNCHANGED <<tries, dsQueue>>
     ELSE UNCHANGED obj /\ Fail(d)
  /\ UNCHANGED <<cache, stripped, queries, cachedQueries, reports, cachedReports, valid,
                 queryQueue, reportQueue, table, faults>>

queueReports(d) ==
  /\ work[d].pc = "queueReports"
  /\ queueDependentReportsForDataSource(d)
  /\ Goto(d, "queueDataSources")
  /\ UNCHANGED <<objects_vars, cache, stripped, cachedQueries, cachedReports, valid, dsQueue, queryQueue, faults>>

queueDataSources(d) ==
  /\ work[d].pc = "queueDataSources"
  /\ queueDependentReportDataSources(d)
  /\ Done(d)
  /\ UNCHANGED <<objects_vars, cache, stripped, cachedQueries, cachedReports, valid, queryQueue, reportQueue, faults>>

removeReportDataSourceFinalizer(d) ==
  /\ work[d].pc = "removeFinalizer"
  /\ IF updateAccepted(d)
     THEN /\ obj' = [obj EXCEPT ![d].phase = "gone", ![d].finalizer = FALSE]
          /\ UNCHANGED dsQueue /\ Done(d)
     ELSE UNCHANGED obj /\ Fail(d)
  /\ UNCHANGED <<cache, stripped, queries, cachedQueries, reports, cachedReports, valid,
                 queryQueue, reportQueue, table, faults>>

-----------------------------------------------------------------------------
(* The ReportQuery worker: queueDependentReportDataSourcesForQuery lists   *)
(* the stored data sources.                                                *)
syncReportQuery(q) ==
  /\ q \in queryQueue /\ queryQueue' = queryQueue \ {q}
  /\ dsQueue' = dsQueue \cup {v \in Views : Exists(obj[v]) /\ QueryOf[v] = q}
  /\ UNCHANGED <<objects_vars, cache, stripped, cachedQueries, cachedReports, valid, reportQueue, tries, work, faults>>

(* The Report worker, up to validateReport: what is invalid is not retried.*)
validateReport(r) ==
  LET deps == cachedDependencies(QueryOf[r])
      missing == IF deps.err = "none" THEN Uninitialized(deps) ELSE {}
  IN  /\ r \in reportQueue /\ reportQueue' = reportQueue \ {r}
      /\ valid' = IF deps.err = "none" /\ missing = {} THEN valid \cup {r} ELSE valid
      /\ dsQueue' = dsQueue \cup missing
      /\ UNCHANGED <<objects_vars, cache, stripped, cachedQueries, cachedReports, queryQueue, tries, work, faults>>

-----------------------------------------------------------------------------
callFails(d) ==
  /\ faults < setup.maxFaults /\ faults' = faults + 1
  /\ work[d].pc \in {"addFinalizer", "create", "putTableRef", "removeFinalizer"} /\ Fail(d)
  /\ UNCHANGED <<objects_vars, cache, stripped, cachedQueries, cachedReports, valid, queryQueue, reportQueue>>

restart ==
  /\ faults < setup.maxFaults /\ faults' = faults + 1
  /\ cache' = obj /\ stripped' = {} /\ cachedQueries' = queries /\ cachedReports' = reports
  /\ dsQueue' = {d \in DataSources : Exists(obj[d])}
  /\ queryQueue' = queries /\ reportQueue' = reports
  /\ work' = [d \in DataSources |-> Idle] /\ tries' = [d \in DataSources |-> 0]
  /\ UNCHANGED <<objects_vars, valid>>

Init ==
  /\ obj = [d \in DataSources |-> NewDataSource] /\ cache = obj /\ stripped = {}
  /\ setup \in Setups /\ queries = Queries \ setup.late /\ cachedQueries = queries
  /\ reports = {} /\ cachedReports = {} /\ valid = {}
  /\ dsQueue = {} /\ queryQueue = {} /\ reportQueue = {}
  /\ tries = [d \in DataSources |-> 0] /\ work = [d \in DataSources |-> Idle]
  /\ table = [d \in DataSources |-> Null] /\ faults = 0

WorkerStep(d) ==
  \/ syncReportDataSource(d) \/ addReportDataSourceFinalizer(d) \/ handleReportDataSource(d)
  \/ createTable(d) \/ putTableRef(d) \/ queueReports(d) \/ queueDataSources(d)
  \/ removeReportDataSourceFinalizer(d)

Next ==
  /\ \/ \E d \in DataSources :
          \/ createDataSource(d) \/ deleteDataSource(d) \/ createPrestoTable(d)
          \/ deliverDataSource(d) \/ resync(d) \/ WorkerStep(d) \/ callFails(d)
     \/ \E q \in Queries : createQuery(q) \/ deliverQuery(q) \/ syncReportQuery(q)
     \/ \E r \in Reports : createReport(r) \/ deliverReport(r) \/ validateReport(r)
     \/ restart
  /\ UNCHANGED setup

Spec == Init /\ [][Next]_<<vars, setup>>

(* Workers run, watches deliver and data sources are resynced.             *)
FairSpec ==
  /\ Spec
  /\ \A d \in DataSources :
       WF_vars(deliverDataSource(d)) /\ WF_vars(WorkerStep(d)) /\ WF_vars(resync(d))
  /\ \A q \in Queries : WF_vars(deliverQuery(q)) /\ WF_vars(syncReportQuery(q))
  /\ \A r \in Reports : WF_vars(deliverReport(r)) /\ WF_vars(validateReport(r))

-----------------------------------------------------------------------------
(* Everything a query depends on exists, and can have its table.           *)
Available(q) ==
  LET deps == QueryDeps[<<Existing(obj), queries, reports>>][q]
  IN  /\ deps.err = "none"
      /\ \A d \in deps.dataSources :
           obj[d].phase = "live" /\ (KindOf(d) = "prestoTable" => table[d] # Null)

(* A view is only created over data sources that have their tables, even   *)
(* when the informer lags behind.                                          *)
ViewsReadTables ==
  [][\A v \in Views : table[v] = Null /\ table'[v] # Null
       => \A d \in table'[v] : obj[d].phase = "live" => obj[d].tableRef]_vars

(* A data source gets its table once everything below it is there, in      *)
(* whatever order the objects come, and with failed calls and restarts: it *)
(* never waits for ever while it could have it.                            *)
ViewsGetTables ==
  \A v \in Views :
    []<>~(obj[v].phase = "live" /\ ~obj[v].tableRef /\ Available(QueryOf[v]))

(* Data sources that queue what depends on them.                           *)
Queueing == {d \in DataSources : KindOf(d) # "prestoTable"}

(* A Report becomes valid once everything below it is there, unless it     *)
(* reads a PrestoTable, whose data source queues nobody.                   *)
ReportsGetValid ==
  \A r \in Reports :
    []<>~(r \in reports \ valid /\ Queueing = DataSources /\ Available(QueryOf[r]))

(* A deleted data source goes away, wherever its sync is and whatever the  *)
(* conflicts, as long as no call fails.                                    *)
DeletedDataSourceGoes ==
  []<>(faults > 0 \/ \A d \in DataSources : obj[d].phase # "terminating")
=============================================================================
