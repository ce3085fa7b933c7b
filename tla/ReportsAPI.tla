----------------------------- MODULE ReportsAPI -----------------------------
(***************************************************************************)
(* The HTTP API of the reporting-operator (pkg/operator/http.go): reading  *)
(* the results of a Report, and collecting or pushing metrics on demand.   *)
(* A handler looks at the Report, its ReportQuery, its PrestoTable and     *)
(* Presto one after the other, while users edit the query and the          *)
(* controllers create, fill, empty and drop the table.                     *)
(*                                                                         *)
(* What is kept of a row is which values writeResultsAsCSV cannot write,   *)
(* the maps that are not NULL, and which strings break a table: they have  *)
(* a line break that leaves one cell on a line, or a form feed.            *)
(***************************************************************************)
EXTENDS Integers, Sequences, FiniteSets

CONSTANTS
  Columns,       \* column names of the ReportQuery
  MapColumns,    \* the ones of a map type
  DataSources,   \* the Prometheus ReportDataSources of the namespace
  Requests,      \* requests in flight or answered
  Setups,        \* the namespaces considered
  BufferRows,    \* rows that fit in the buffer of a csv.Writer, after the header
  Concurrency,   \* imports of a collect request at a time (4 in the code)
  Sizes,         \* what clients ask for: chunks to collect, batches to store
  MaxTimeRanges, \* the chunks that one import collects at most
  MaxRows,       \* bound on the rows of the report table
  MaxEdits,      \* bound on changes of the query and the Report
  MaxFaults      \* bound on Presto errors

Endpoints == {"v1", "full", "table", "collect", "store"}

Formats == {"json", "csv", "tab", "other"}

Unnamed == ""

(* name is the data source of the URL; Unnamed when the URL has none.      *)
Question == [endpoint : Endpoints, format : Formats, ignoreFailed : BOOLEAN,
             name : DataSources \cup {Unnamed}, size : Sizes \cup {0}]

Nothing == [endpoint |-> "v1", format |-> "other", ignoreFailed |-> FALSE, name |-> Unnamed,
            size |-> 0]

Row == [maps : SUBSET MapColumns, breaks : SUBSET (Columns \ MapColumns)]

(* A namespace: what clients ask for, its data sources, and whether it has *)
(* a Report.                                                               *)
Setup == [asked : SUBSET Question, dataSources : SUBSET DataSources, reports : BOOLEAN]

ASSUME APIAssumption ==
  /\ MapColumns \subseteq Columns /\ Unnamed \notin DataSources
  /\ Setups \subseteq Setup
  /\ BufferRows \in Nat \ {0} /\ Concurrency \in Nat \ {0}
  /\ Sizes \subseteq Nat /\ MaxTimeRanges \in Nat \ {0}
  /\ MaxRows \in Nat /\ MaxEdits \in Nat /\ MaxFaults \in Nat

VARIABLES
  setup,     \* the namespace, one of Setups
  report,    \* the Report in the lister
  query,     \* its ReportQuery in the lister: the shown and the hidden columns
  listed,    \* its PrestoTable in the lister, with its Status.Columns
  table,     \* the columns of the table in Presto; no columns, no table
  rows,      \* the rows of that table
  ready,     \* the data sources whose table exists
  req,       \* the requests: the question, how far the handler is, what it read
  job,       \* the imports a collect or store request has started
  hidden,    \* the columns that were hidden all through a request
  edits,     \* changes so far
  faults     \* errors so far

worldVars == <<report, query, listed, table, rows, ready, edits>>
vars == <<worldVars, req, job, hidden, faults>>

NoQuery == [shown |-> {}, hidden |-> {}]
NoTable == [exists |-> FALSE, cols |-> {}]

Answer == [status : {200, 202, 400, 404, 500}, header : SUBSET Columns,
           shown : SUBSET Columns, whole : BOOLEAN]

Pending == [status |-> 0, header |-> {}, shown |-> {}, whole |-> FALSE]

Job == [state : {"none", "waiting", "running", "sending", "done", "failed"}, batches : Nat]

NoJobs == [d \in DataSources |-> [state |-> "none", batches |-> 0]]

Steps == {"unused", "report", "query", "table", "select", "find", "import", "answered"}

(* The value of every variable is of the kind the code keeps there.        *)
TypeOK ==
  /\ setup \in Setups
  /\ report \in {"absent", "ok", "failed"}
  /\ query \in [shown : SUBSET Columns, hidden : SUBSET Columns]
  /\ query.shown \cap query.hidden = {}
  /\ listed \in [exists : BOOLEAN, cols : SUBSET Columns]
  /\ table \subseteq Columns
  /\ Len(rows) <= MaxRows /\ \A i \in 1..Len(rows) : rows[i] \in Row
  /\ ready \subseteq DataSources
  /\ \A q \in Requests :
       /\ req[q].pc \in Steps
       /\ req[q].pc # "unused" => req[q].asked \in setup.asked
       /\ req[q].cols \subseteq Columns /\ req[q].breaks \subseteq Columns
       /\ req[q].answer \in Answer \cup {Pending}
       /\ \A d \in DataSources : job[q][d] \in Job
       /\ hidden[q] \subseteq Columns
  /\ edits \in 0..MaxEdits /\ faults \in 0..MaxFaults

Init ==
  /\ setup \in Setups
  /\ report \in IF setup.reports THEN {"absent", "ok", "failed"} ELSE {"absent"}
  /\ query \in IF setup.reports THEN {[shown |-> Columns \ H, hidden |-> H] : H \in SUBSET Columns}
               ELSE {NoQuery}
  /\ listed = NoTable /\ table = {} /\ rows = << >>
  /\ ready \in SUBSET setup.dataSources
  /\ req = [q \in Requests |-> [pc |-> "unused", asked |-> Nothing, query |-> NoQuery,
                                cols |-> {}, breaks |-> {}, answer |-> Pending]]
  /\ job = [q \in Requests |-> NoJobs]
  /\ hidden = [q \in Requests |-> {}]
  /\ edits = 0 /\ faults = 0

Fault == faults < MaxFaults /\ faults' = faults + 1

-----------------------------------------------------------------------------
(* What is written for the rows that were read                             *)

Tabular(a) == a.format \in {"csv", "tab"}

(* Defect: /table hides columns from csv and tabular answers only.         *)
OmitsHiddenFromTables(a) == a.endpoint = "v1" \/ Tabular(a)

(* v1 leaves the hidden columns out of every format, v2 out of csv and     *)
(* tabular answers and out of all answers of /table.                       *)
OmitsHidden(a) == a.endpoint = "v1" \/ Tabular(a) \/ a.endpoint = "table"

(* What the client gets: the columns named in the header, the columns      *)
(* whose values are there, and whether all rows are.                       *)
Reply(status, header, shown, whole) ==
  [status |-> status, header |-> header, shown |-> shown, whole |-> whole]

Error(status) == Reply(status, {}, {}, FALSE)

(* The rows with a value that writeResultsAsCSV gives up on.               *)
BadRows(cols, rs) == {i \in 1..Len(rs) : rs[i].maps \cap cols # {}}

(* The columns with a string that breaks a table.                          *)
Breaks(rs) == UNION {rs[i].breaks : i \in 1..Len(rs)}

(* Rows already left the buffers when row i fails: csv.Writer hands over   *)
(* what exceeds its buffer, and tabwriter sends what it has whenever a     *)
(* line has one cell.                                                      *)
Streamed(a, cols, rs, i) ==
  /\ i > BufferRows
  /\ \/ a.format = "csv" \/ Cardinality(cols) = 1
     \/ \E j \in 1..(i - 1) : rs[j].breaks \cap cols # {}

(* Defect: an error in the middle of the rows ends the answer quietly.     *)
writeResultsAsCSVQuietly(a, cols, rowCols, rs) ==
  IF rs = << >> THEN Reply(200, {}, {}, TRUE)
  ELSE IF ~(cols \subseteq rowCols) THEN Error(500)
  ELSE Reply(200, cols, cols, BadRows(cols, rs) = {})

(* writeResultsAsCSV and its callers: no header without rows; a column     *)
(* that the rows lack is an error in the first row.  An error after the    *)
(* first bytes were sent cannot change the status any more.                *)
writeResultsAsCSV(a, cols, rowCols, rs) ==
  LET bad == BadRows(cols, rs) IN
  CASE rs = << >>                  -> Reply(200, {}, {}, TRUE)
    [] rs # << >> /\ ~(cols \subseteq rowCols) -> Error(500)
    [] OTHER ->
         IF bad = {} THEN Reply(200, cols, cols, TRUE)
         ELSE IF \E i \in bad : (\A j \in bad : i <= j) /\ Streamed(a, cols, rs, i)
              THEN Reply(200, cols, cols, FALSE)
              ELSE Error(500)

(* writeResultsResponseV1 and V2.  JSON shows the columns of the table     *)
(* that are not omitted, known to the query or not.                        *)
writeResultsResponse(a, q, tableCols, rs) ==
  LET omitted == IF OmitsHidden(a) THEN q.hidden ELSE {}
      columns == (q.shown \cup q.hidden) \ omitted
      rowCols == tableCols \ omitted
  IN IF Tabular(a) THEN writeResultsAsCSV(a, columns, rowCols, rs)
     ELSE Reply(200, {}, IF rs = << >> THEN {} ELSE rowCols, TRUE)

-----------------------------------------------------------------------------
(* getReport                                                               *)

Goto(q, step) == req' = [req EXCEPT ![q].pc = step]

Respond(q, answer) == req' = [req EXCEPT ![q].pc = "answered", ![q].answer = answer]

ReportEndpoints == {"v1", "full", "table"}

(* A handler starts: validateGetReportReq rejects an unknown format.       *)
ask(q, a) ==
  /\ req[q].pc = "unused"
  /\ LET start(step, answer) ==
           req' = [req EXCEPT ![q].pc = step, ![q].asked = a, ![q].answer = answer]
     IN
     \/ a.endpoint \in ReportEndpoints /\ a.format = "other" /\ start("answered", Error(400))
     \/ a.endpoint \in ReportEndpoints /\ a.format # "other" /\ start("report", Pending)
     \/ a.endpoint \notin ReportEndpoints /\ start("find", Pending)
  /\ hidden' = [hidden EXCEPT ![q] = query.hidden]
  /\ UNCHANGED <<worldVars, job, faults>>

(* The Report exists and has not failed.                                   *)
getReport(q) ==
  /\ req[q].pc = "report"
  /\ \/ report = "absent" /\ Respond(q, Error(404))
     \/ report = "failed" /\ ~req[q].asked.ignoreFailed /\ Respond(q, Error(500))
     \/ /\ report = "ok" \/ (report = "failed" /\ req[q].asked.ignoreFailed)
        /\ Goto(q, "query")
  /\ UNCHANGED <<worldVars, job, hidden, faults>>

getQuery(q) ==
  /\ req[q].pc = "query"
  /\ \/ query = NoQuery /\ Respond(q, Error(500))
     \/ query # NoQuery /\ req' = [req EXCEPT ![q].pc = "table", ![q].query = query]
  /\ UNCHANGED <<worldVars, job, hidden, faults>>

(* No PrestoTable: not processed yet.  Without columns in its status it    *)
(* cannot be read.                                                         *)
getTable(q) ==
  /\ req[q].pc = "table"
  /\ \/ ~listed.exists /\ Respond(q, Error(202))
     \/ listed.exists /\ listed.cols = {} /\ Respond(q, Error(500))
     \/ /\ listed.exists /\ listed.cols # {}
        /\ req' = [req EXCEPT ![q].pc = "select", ![q].cols = listed.cols]
  /\ UNCHANGED <<worldVars, job, hidden, faults>>

(* GetReportResults: one SELECT of the columns the PrestoTable has shown.  *)
getReportResults(q) ==
  /\ req[q].pc = "select"
  /\ \/ /\ req[q].cols \subseteq table
        /\ LET answer == writeResultsResponse(req[q].asked, req[q].query, req[q].cols, rows) IN
           req' = [req EXCEPT ![q].pc = "answered", ![q].breaks = Breaks(rows), ![q].answer = answer]
        /\ UNCHANGED faults
     \/ ~(req[q].cols \subseteq table) /\ Respond(q, Error(500)) /\ UNCHANGED faults
     \/ Fault /\ Respond(q, Error(500))
  /\ UNCHANGED <<worldVars, job, hidden>>

-----------------------------------------------------------------------------
(* Collecting and pushing metrics                                          *)

(* The data sources a request is about.  collect/{namespace}/              *)
(* {datasourceName} asks chi for "datasource", which no route has: every   *)
(* collect request is for the whole namespace.                             *)
Selected(a) == IF a.endpoint = "store" THEN {a.name} ELSE setup.dataSources

(* ImportFromTimeRange cuts the end of a range that is too long, and says  *)
(* so in the log only.                                                     *)
Total(a) == IF a.endpoint = "collect" /\ a.size > MaxTimeRanges THEN MaxTimeRanges ELSE a.size

(* importPrometheusForTimeRange lists the data sources, the store handler  *)
(* looks its own up; one without a table is an error before any import.    *)
findDataSources(q) ==
  /\ req[q].pc = "find"
  /\ LET wanted == Selected(req[q].asked) IN
     \/ /\ wanted \subseteq ready
        /\ Goto(q, "import")
        /\ job' = [job EXCEPT ![q] = [d \in DataSources |->
                     [state |-> IF d \in wanted THEN "waiting" ELSE "none", batches |-> 0]]]
     \/ /\ ~(wanted \subseteq ready)
        /\ Respond(q, Error(500)) /\ UNCHANGED job
  /\ UNCHANGED <<worldVars, hidden, faults>>

In(q, state) == {d \in DataSources : job[q][d].state = state}

(* The context of a collect request is cancelled by the first import that  *)
(* fails.                                                                  *)
Cancelled(q) == In(q, "failed") # {}

(* The imports that have not ended.                                        *)
Going(q) == In(q, "waiting") \cup In(q, "running") \cup In(q, "sending")

(* An import finds its PrestoTable, or fails; it gets a slot of the        *)
(* semaphore, or gives up.                                                 *)
startImport(q, d) ==
  /\ req[q].pc = "import" /\ job[q][d].state = "waiting"
  /\ \/ /\ Cardinality(In(q, "running") \cup In(q, "sending")) < Concurrency
        /\ job' = [job EXCEPT ![q][d].state = "running"] /\ UNCHANGED faults
     \/ Cancelled(q) /\ job' = [job EXCEPT ![q][d].state = "failed"] /\ UNCHANGED faults
     \/ Fault /\ job' = [job EXCEPT ![q][d].state = "failed"]
  /\ UNCHANGED <<worldVars, req, hidden>>

(* StorePrometheusMetrics: one INSERT after the other.  The context is     *)
(* looked at before each one, and Presto may fail in between.              *)
storeBatch(q, d) ==
  /\ job[q][d].state = "running" /\ job[q][d].batches < Total(req[q].asked)
  /\ \/ job' = [job EXCEPT ![q][d].batches = @ + 1] /\ UNCHANGED faults
     \/ Cancelled(q) /\ job' = [job EXCEPT ![q][d].state = "failed"] /\ UNCHANGED faults
     \/ Fault /\ job' = [job EXCEPT ![q][d].state = "failed"]
  /\ UNCHANGED <<worldVars, req, hidden>>

(* All is stored.  An import of a collect request goes on to send its      *)
(* result, on a channel without a buffer, and keeps its slot till then.    *)
endImport(q, d) ==
  /\ job[q][d].state = "running" /\ job[q][d].batches = Total(req[q].asked)
  /\ job' = [job EXCEPT ![q][d].state = IF req[q].asked.endpoint = "collect" THEN "sending"
                                        ELSE "done"]
  /\ UNCHANGED <<worldVars, req, hidden, faults>>

(* Defect: the results are read when all imports have ended.               *)
receiveResultAtTheEnd(q, d) ==
  /\ req[q].pc = "import" /\ job[q][d].state = "sending"
  /\ Going(q) = {}
  /\ job' = [job EXCEPT ![q][d].state = "done"]
  /\ UNCHANGED <<worldVars, req, hidden, faults>>

(* The handler ranges over resultsCh while the imports run.                *)
receiveResult(q, d) ==
  /\ req[q].pc = "import" /\ job[q][d].state = "sending"
  /\ job' = [job EXCEPT ![q][d].state = "done"]
  /\ UNCHANGED <<worldVars, req, hidden, faults>>

(* Defect: the answer does not wait for the other imports to end.          *)
finishImportAtFirstError(q) ==
  /\ req[q].pc = "import"
  /\ Going(q) = {} \/ Cancelled(q)
  /\ Respond(q, Reply(IF Cancelled(q) THEN 500 ELSE 200, {}, {}, ~Cancelled(q)))
  /\ UNCHANGED <<worldVars, job, hidden, faults>>

(* Defect: the error of the group is dropped.                              *)
finishImportIgnoringErrors(q) ==
  /\ req[q].pc = "import" /\ Going(q) = {}
  /\ Respond(q, Reply(200, {}, {}, TRUE))
  /\ UNCHANGED <<worldVars, job, hidden, faults>>

(* The results channel closes when all imports have ended; the first error *)
(* of the group is the answer.                                             *)
finishImport(q) ==
  /\ req[q].pc = "import" /\ Going(q) = {}
  /\ Respond(q, Reply(IF Cancelled(q) THEN 500 ELSE 200, {}, {}, ~Cancelled(q)))
  /\ UNCHANGED <<worldVars, job, hidden, faults>>

-----------------------------------------------------------------------------
(* Users and controllers                                                   *)

Edit == edits < MaxEdits /\ edits' = edits + 1

(* A user writes the ReportQuery anew: its columns, or which are hidden.   *)
editQuery(shown, hid) ==
  /\ Edit
  /\ shown \cap hid = {}
  /\ query' = [shown |-> shown, hidden |-> hid]
  /\ hidden' = [q \in Requests |-> IF req[q].pc = "answered" THEN hidden[q]
                                   ELSE hidden[q] \cap hid]
  /\ UNCHANGED <<report, listed, table, rows, ready, req, job, faults>>

(* The status of the Report as its controller leaves it.                   *)
editReport(status) ==
  /\ Edit
  /\ report' = status
  /\ UNCHANGED <<query, listed, table, rows, ready, req, job, hidden, faults>>

(* The report table is created with the columns of the query.              *)
createTable ==
  /\ table = {} /\ query # NoQuery
  /\ table' = query.shown \cup query.hidden
  /\ UNCHANGED <<report, query, listed, rows, ready, edits, req, job, hidden, faults>>

dropTable ==
  /\ table' = {} /\ rows' = << >>
  /\ UNCHANGED <<report, query, listed, ready, edits, req, job, hidden, faults>>

(* The PrestoTable appears, gets its status, and goes.                     *)
listTable ==
  /\ listed' \in {NoTable} \cup [exists : {TRUE}, cols : {{}, table}]
  /\ UNCHANGED <<report, query, table, rows, ready, edits, req, job, hidden, faults>>

(* GenerateReport stores rows, after emptying the table when it is told to.*)
storeRow(row, overwrite) ==
  /\ table # {} /\ row.maps \cup row.breaks \subseteq table
  /\ overwrite \/ Len(rows) < MaxRows
  /\ rows' = IF overwrite THEN << >> ELSE Append(rows, row)
  /\ UNCHANGED <<report, query, listed, table, ready, edits, req, job, hidden, faults>>

world ==
  /\ setup.reports
  /\ \/ \E shown, hid \in SUBSET Columns : editQuery(shown, hid)
     \/ \E s \in {"absent", "ok", "failed"} : editReport(s)
     \/ createTable \/ dropTable \/ listTable
     \/ \E row \in Row, overwrite \in BOOLEAN : storeRow(row, overwrite)

handler(q) ==
  \/ getReport(q) \/ getQuery(q) \/ getTable(q) \/ getReportResults(q)
  \/ findDataSources(q) \/ finishImport(q)
  \/ \E d \in DataSources : startImport(q, d) \/ storeBatch(q, d) \/ endImport(q, d)
                            \/ receiveResult(q, d)

Next ==
  /\ \/ world
     \/ \E q \in Requests : handler(q) \/ \E a \in setup.asked : ask(q, a)
  /\ UNCHANGED setup

Spec == Init /\ [][Next]_<<vars, setup>>

(* The goroutine of a request runs, and Presto answers or fails.           *)
FairSpec == Spec /\ \A q \in Requests : WF_vars(handler(q))

-----------------------------------------------------------------------------
(* Properties                                                              *)

Answered(q, status) == req[q].pc = "answered" /\ req[q].answer.status = status

(***************************************************************************)
(* A column that the ReportQuery hides all through a request is not in the *)
(* answer of /table, whatever the format, the age of the report table and  *)
(* the edits of the query meanwhile.  All variables keep their types.      *)
(***************************************************************************)
TableLeavesHiddenOut ==
  /\ TypeOK
  /\ \A q \in Requests :
       Answered(q, 200) /\ req[q].asked.endpoint = "table" =>
         req[q].answer.shown \cap hidden[q] = {}

(***************************************************************************)
(* A tabular answer of two or more columns that says 200 has all rows, and *)
(* a value in every row for each column of its header, even when the query *)
(* was edited after the table was made.  Where a string breaks the table   *)
(* the rows before it may have left when a later one fails.                *)
(***************************************************************************)
TabularAnswersAreWhole ==
  \A q \in Requests :
    Answered(q, 200) /\ req[q].asked.format = "tab" /\ Cardinality(req[q].answer.header) # 1 =>
      /\ req[q].answer.header \subseteq req[q].cols
      /\ req[q].answer.whole \/ req[q].answer.header \cap req[q].breaks # {}

(* The data sources a client has named, or all of them.                    *)
Named(a) == IF a.name = Unnamed THEN setup.dataSources ELSE {a.name}

(***************************************************************************)
(* When a collect or store request is answered with 200, every data source *)
(* it named has reported its result and has in its table all that it was   *)
(* sent, or the chunks of the range up to the most that an import takes,   *)
(* although imports run side by side and one failure cancels the others    *)
(* half-way.  A collect request may name one that does not exist: its      *)
(* handler never reads the name.                                           *)
(***************************************************************************)
AcknowledgedIsStored ==
  \A q \in Requests :
    Answered(q, 200) /\ req[q].asked.endpoint \in {"collect", "store"} =>
      \A d \in Named(req[q].asked) \cap setup.dataSources :
        job[q][d] = [state |-> "done", batches |-> Total(req[q].asked)]

(***************************************************************************)
(* Once a request is answered, nothing of it writes to Presto any more: a  *)
(* client that retries does not overlap with its own earlier request.      *)
(***************************************************************************)
QuietAfterAnswer ==
  [][\A q \in Requests : req[q].pc = "answered" => job'[q] = job[q]]_vars

(***************************************************************************)
(* Every request is answered: no import waits for ever for a slot of the   *)
(* semaphore or for the results channel.                                   *)
(***************************************************************************)
EveryRequestAnswered ==
  \A q \in Requests : req[q].pc # "unused" ~> req[q].pc = "answered"
=============================================================================
