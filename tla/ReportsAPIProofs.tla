-------------------------- MODULE ReportsAPIProofs --------------------------
(***************************************************************************)
(* What the HTTP API's answers may be relied on for, for any number of     *)
(* requests, columns and data sources: hidden columns stay out of /table,  *)
(* tabular answers are whole, an acknowledged import is stored, and an     *)
(* answered request writes no more.                                        *)
(***************************************************************************)
EXTENDS ReportsAPI, TLAPS

-----------------------------------------------------------------------------
(* The inductive invariant                                                 *)

Query == [shown : SUBSET Columns, hidden : SUBSET Columns]

Request == [pc : Steps, asked : Question, query : Query, cols : SUBSET Columns,
            breaks : SUBSET Columns, answer : Answer \cup {Pending}]

Types ==
  /\ TypeOK
  /\ rows \in Seq(Row)
  /\ ready \subseteq setup.dataSources
  /\ req \in [Requests -> Request]
  /\ job \in [Requests -> [DataSources -> Job]]
  /\ hidden \in [Requests -> SUBSET Columns]

(* What stayed hidden so far is hidden in the query, and in the copy of it *)
(* that the handler works from.                                            *)
HiddenSound(q) ==
  /\ req[q].pc # "answered" => hidden[q] \subseteq query.hidden
  /\ req[q].pc \in {"table", "select"} => hidden[q] \subseteq req[q].query.hidden
  /\ Answered(q, 200) /\ req[q].asked.endpoint = "table" =>
       req[q].answer.shown \cap hidden[q] = {}

TabularSound(q) ==
  Answered(q, 200) /\ req[q].asked.format = "tab" /\ Cardinality(req[q].answer.header) # 1 =>
    /\ req[q].answer.header \subseteq req[q].cols
    /\ req[q].answer.whole \/ req[q].answer.header \cap req[q].breaks # {}

(* The imports of a request: none before it starts them and none under way *)
(* once it is answered; one that is done has stored everything.            *)
JobsSound(q) ==
  /\ req[q].pc \notin {"import", "answered"} => \A d \in DataSources : job[q][d].state = "none"
  /\ req[q].pc = "answered" => \A d \in DataSources : job[q][d].state \in {"none", "done", "failed"}
  /\ req[q].pc \in {"report", "query", "table", "select"} =>
       req[q].asked.endpoint \in ReportEndpoints
  /\ \A d \in DataSources :
       job[q][d].state \in {"sending", "done"} => job[q][d].batches = Total(req[q].asked)
  /\ /\ req[q].asked.endpoint \in {"collect", "store"}
     /\ req[q].pc = "import" \/ Answered(q, 200)
     => \A d \in Named(req[q].asked) \cap setup.dataSources : job[q][d].state # "none"
  /\ Answered(q, 200) /\ req[q].asked.endpoint \in {"collect", "store"} =>
       \A d \in DataSources : job[q][d].state # "failed"

APIInv == Types /\ \A q \in Requests : HiddenSound(q) /\ TabularSound(q) /\ JobsSound(q)

-----------------------------------------------------------------------------
(* Facts about the operators                                               *)

LEMMA ErrorType == \A s \in {202, 400, 404, 500} : Error(s) \in Answer /\ Error(s).status # 200
  BY DEF Error, Reply, Answer

(* writeResultsAsCSV answers with the columns it was asked for or with an  *)
(* error; short of rows only when they were sent one by one.               *)
CSVSound(a, cols, rowCols, rs, w) ==
  /\ w \in Answer
  /\ w.shown \subseteq cols
  /\ w.status = 200 => w.header \subseteq rowCols
  /\ w.status = 200 /\ ~w.whole =>
       a.format = "csv" \/ Cardinality(w.header) = 1 \/ w.header \cap Breaks(rs) # {}

LEMMA CSVAnswers ==
  ASSUME NEW a \in Question, NEW cols \in SUBSET Columns, NEW rowCols \in SUBSET Columns,
         NEW rs \in Seq(Row)
  PROVE  CSVSound(a, cols, rowCols, rs, writeResultsAsCSV(a, cols, rowCols, rs))
  <1> DEFINE w == writeResultsAsCSV(a, cols, rowCols, rs)
             bad == BadRows(cols, rs)
             sent == \E i \in bad : (\A j \in bad : i <= j) /\ Streamed(a, cols, rs, i)
  <1>0. \/ w = Reply(200, {}, {}, TRUE)
        \/ w = Error(500)
        \/ cols \subseteq rowCols /\ w = Reply(200, cols, cols, TRUE)
        \/ cols \subseteq rowCols /\ sent /\ w = Reply(200, cols, cols, FALSE)
    <2>1. CASE rs = << >>
      BY <2>1 DEF writeResultsAsCSV
    <2>2. CASE rs # << >> /\ ~(cols \subseteq rowCols)
      BY <2>2 DEF writeResultsAsCSV
    <2>3. CASE rs # << >> /\ cols \subseteq rowCols
      <3>1. w = IF bad = {} THEN Reply(200, cols, cols, TRUE)
                ELSE IF sent THEN Reply(200, cols, cols, FALSE) ELSE Error(500)
        BY <2>3, Zenon DEF writeResultsAsCSV
      <3> QED BY <2>3, <3>1
    <2> QED BY <2>1, <2>2, <2>3
  <1>5. sent => a.format = "csv" \/ Cardinality(cols) = 1 \/ cols \cap Breaks(rs) # {}
    <2> SUFFICES ASSUME NEW i \in bad, Streamed(a, cols, rs, i), a.format # "csv",
                        Cardinality(cols) # 1
                 PROVE  cols \cap Breaks(rs) # {}
      OBVIOUS
    <2>1. PICK j \in 1..(i - 1) : rs[j].breaks \cap cols # {}
      BY DEF Streamed
    <2>2. j \in 1..Len(rs)
      BY DEF BadRows
    <2> QED BY <2>1, <2>2 DEF Breaks
  <1> HIDE DEF w, sent
  <1>1. CASE w = Error(500)
    <2>1. w \in Answer /\ w.status # 200
      BY <1>1, ErrorType
    <2>2. w.shown = {}
      BY <1>1 DEF Error, Reply
    <2> QED BY <2>1, <2>2 DEF CSVSound, w
  <1>2. ASSUME NEW c \in SUBSET Columns, c \subseteq cols, c \subseteq rowCols, NEW b \in BOOLEAN,
               w = Reply(200, c, c, b),
               ~b => a.format = "csv" \/ Cardinality(c) = 1 \/ c \cap Breaks(rs) # {}
        PROVE  CSVSound(a, cols, rowCols, rs, w)
    <2>1. w \in Answer
      BY <1>2 DEF Reply, Answer
    <2>2. w.shown = c /\ w.header = c /\ w.whole = b
      BY <1>2 DEF Reply
    <2> QED BY <1>2, <2>1, <2>2 DEF CSVSound
  <1> QED BY <1>0, <1>1, <1>2, <1>5 DEF w

(* What writeResultsResponse leaves out and what it promises.              *)
ResponseSound(a, q, tableCols, rs, w) ==
  /\ w \in Answer
  /\ a.endpoint = "table" => w.shown \cap q.hidden = {}
  /\ a.format = "tab" /\ w.status = 200 /\ Cardinality(w.header) # 1 =>
       w.header \subseteq tableCols /\ (w.whole \/ w.header \cap Breaks(rs) # {})

LEMMA ResponseAnswers ==
  ASSUME NEW a \in Question, NEW q \in Query, NEW tableCols \in SUBSET Columns,
         NEW rs \in Seq(Row)
  PROVE  ResponseSound(a, q, tableCols, rs, writeResultsResponse(a, q, tableCols, rs))
  <1> DEFINE omitted == IF OmitsHidden(a) THEN q.hidden ELSE {}
             columns == (q.shown \cup q.hidden) \ omitted
             rowCols == tableCols \ omitted
             w == writeResultsResponse(a, q, tableCols, rs)
  <1>1. /\ columns \in SUBSET Columns /\ rowCols \in SUBSET Columns /\ rowCols \subseteq tableCols
        /\ a.endpoint = "table" => columns \cap q.hidden = {} /\ rowCols \cap q.hidden = {}
    BY DEF Query, OmitsHidden
  <1>2. CASE Tabular(a)
    <2>1. w = writeResultsAsCSV(a, columns, rowCols, rs)
      BY <1>2 DEF writeResultsResponse
    <2> HIDE DEF w, columns, rowCols
    <2>2. CSVSound(a, columns, rowCols, rs, w)
      BY <1>1, <2>1, CSVAnswers
    <2> QED BY <1>1, <2>2 DEF w, CSVSound, ResponseSound
  <1>3. CASE ~Tabular(a)
    <2>1. w = Reply(200, {}, IF rs = << >> THEN {} ELSE rowCols, TRUE)
      BY <1>3 DEF writeResultsResponse
    <2> HIDE DEF w, columns, rowCols
    <2>2. w \in Answer /\ w.shown \subseteq rowCols /\ w.whole /\ w.header = {}
      BY <1>1, <2>1 DEF Reply, Answer
    <2> QED BY <1>1, <2>2 DEF w, ResponseSound
  <1> QED BY <1>2, <1>3

-----------------------------------------------------------------------------
(* Requests that a step is not about                                       *)

(* Nothing of the request q changes.                                       *)
Same(q) == req'[q] = req[q] /\ job'[q] = job[q] /\ hidden'[q] = hidden[q]

LEMMA RequestFrame ==
  ASSUME NEW q \in Requests, HiddenSound(q), TabularSound(q), JobsSound(q), Same(q),
         query' = query, setup' = setup
  PROVE  HiddenSound(q)' /\ TabularSound(q)' /\ JobsSound(q)'
  <1>1. HiddenSound(q)' /\ TabularSound(q)'
    BY DEF HiddenSound, TabularSound, Answered, Same
  <1>2. JobsSound(q)'
    BY DEF JobsSound, Named, Answered, Same
  <1> QED BY <1>1, <1>2

(* A handler that moves on, or answers, without touching its imports.      *)
LEMMA RespondTypes ==
  ASSUME Types, NEW q \in Requests, NEW w \in Answer, Respond(q, w)
  PROVE  /\ req' \in [Requests -> Request]
         /\ req'[q].pc = "answered" /\ req'[q].answer = w /\ req'[q].asked = req[q].asked
         /\ req'[q].cols = req[q].cols /\ req'[q].breaks = req[q].breaks
         /\ \A k \in Requests : k # q => req'[k] = req[k]
  BY DEF Types, Respond, Request, Steps

(* The types of the world do not depend on a handler's step.               *)
LEMMA HandlerTypes ==
  ASSUME Types, UNCHANGED worldVars, setup' = setup, req' \in [Requests -> Request],
         job' \in [Requests -> [DataSources -> Job]], hidden' \in [Requests -> SUBSET Columns],
         \A q \in Requests : req'[q].pc # "unused" => req'[q].asked \in setup.asked,
         faults' \in 0..MaxFaults
  PROVE  Types'
  <1>1. \A q \in Requests :
          /\ req'[q].pc \in Steps /\ req'[q].cols \subseteq Columns
          /\ req'[q].breaks \subseteq Columns /\ req'[q].answer \in Answer \cup {Pending}
          /\ \A d \in DataSources : job'[q][d] \in Job
          /\ hidden'[q] \subseteq Columns
    BY DEF Request
  <1> QED BY <1>1 DEF Types, TypeOK, worldVars

LEMMA FaultType ==
  ASSUME Types, Fault
  PROVE  faults' \in 0..MaxFaults
  BY APIAssumption DEF Types, TypeOK, Fault

LEMMA AskedAreQuestions ==
  ASSUME Types
  PROVE  setup.asked \subseteq Question
  BY APIAssumption DEF Types, TypeOK, Setup

(* A step about one request leaves the invariant to that request.          *)
LEMMA OneRequest ==
  ASSUME APIInv, NEW q \in Requests, Types', query' = query, setup' = setup,
         \A k \in Requests : k # q => Same(k),
         HiddenSound(q)', TabularSound(q)', JobsSound(q)'
  PROVE  APIInv'
  <1>1. ASSUME NEW k \in Requests
        PROVE  HiddenSound(k)' /\ TabularSound(k)' /\ JobsSound(k)'
    <2>1. CASE k = q
      BY <2>1
    <2>2. CASE k # q
      BY <2>2, RequestFrame DEF APIInv
    <2> QED BY <2>1, <2>2
  <1> QED BY <1>1 DEF APIInv

-----------------------------------------------------------------------------
(* Handlers of Report requests                                             *)

Before == {"report", "query", "table", "select", "find"}

(* An answer that is not 200 promises nothing.                             *)
LEMMA ErrorStep ==
  ASSUME APIInv, NEW q \in Requests, req[q].pc \in Before, NEW s \in {202, 400, 404, 500},
         Respond(q, Error(s)), UNCHANGED <<worldVars, job, hidden, setup>>,
         faults' \in 0..MaxFaults
  PROVE  APIInv'
  <1>1. Error(s) \in Answer /\ Error(s).status # 200
    BY ErrorType
  <1> DEFINE w == Error(s)
  <1> HIDE DEF w
  <1>2. w \in Answer /\ w.status # 200 /\ Respond(q, w)
    BY <1>1 DEF w
  <1>3. /\ req' \in [Requests -> Request]
        /\ req'[q].pc = "answered" /\ req'[q].answer = w /\ req'[q].asked = req[q].asked
        /\ req'[q].cols = req[q].cols
        /\ \A k \in Requests : k # q => req'[k] = req[k]
    BY <1>2, RespondTypes DEF APIInv
  <1>4. \A k \in Requests : req'[k].pc # "unused" => req'[k].asked \in setup.asked
    BY <1>3 DEF APIInv, Types, TypeOK, Before
  <1>5. Types'
    BY <1>3, <1>4, HandlerTypes DEF APIInv, Types
  <1>6. HiddenSound(q)' /\ TabularSound(q)'
    BY <1>2, <1>3 DEF HiddenSound, TabularSound, Answered
  <1>7. JobsSound(q)'
    BY <1>2, <1>3 DEF JobsSound, Answered, APIInv, Before
  <1>8. \A k \in Requests : k # q => Same(k)
    BY <1>3 DEF Same
  <1> QED BY <1>5, <1>6, <1>7, <1>8, OneRequest DEF worldVars

(* The handler of a Report moves on to its next step.                      *)
LEMMA MoveStep ==
  ASSUME APIInv, NEW q \in Requests, req[q].pc \in Before, req[q].asked.endpoint \in ReportEndpoints,
         NEW r \in Request, r.pc \in {"query", "table", "select"}, r.asked = req[q].asked,
         r.pc \in {"table", "select"} => hidden[q] \subseteq r.query.hidden,
         req' = [req EXCEPT ![q] = r], UNCHANGED <<worldVars, job, hidden, faults, setup>>
  PROVE  APIInv'
  <1>1. /\ req' \in [Requests -> Request] /\ req'[q] = r
        /\ \A k \in Requests : k # q => req'[k] = req[k]
    BY DEF APIInv, Types
  <1>2. \A k \in Requests : req'[k].pc # "unused" => req'[k].asked \in setup.asked
    BY <1>1 DEF APIInv, Types, TypeOK, Before
  <1>3. Types'
    BY <1>1, <1>2, HandlerTypes DEF APIInv, Types, TypeOK
  <1>4. HiddenSound(q)' /\ TabularSound(q)'
    BY <1>1 DEF HiddenSound, TabularSound, Answered, APIInv, Before, worldVars
  <1>5. JobsSound(q)'
    BY <1>1 DEF JobsSound, Answered, APIInv, Before, ReportEndpoints
  <1>6. \A k \in Requests : k # q => Same(k)
    BY <1>1 DEF Same
  <1> QED BY <1>3, <1>4, <1>5, <1>6, OneRequest DEF worldVars

LEMMA GetReportStep ==
  ASSUME APIInv, NEW q \in Requests, getReport(q), UNCHANGED setup
  PROVE  APIInv'
  <1>1. /\ req[q].pc = "report" /\ req[q].pc \in Before
        /\ UNCHANGED <<worldVars, job, hidden, faults, setup>> /\ faults' \in 0..MaxFaults
        /\ req[q].asked.endpoint \in ReportEndpoints /\ req[q] \in Request
    BY DEF getReport, Before, APIInv, Types, TypeOK, JobsSound
  <1>2. CASE Respond(q, Error(404))
    BY <1>1, <1>2, ErrorStep
  <1>3. CASE Respond(q, Error(500))
    BY <1>1, <1>3, ErrorStep
  <1>4. CASE Goto(q, "query")
    <2> DEFINE r == [req[q] EXCEPT !.pc = "query"]
    <2>1. r \in Request /\ r.pc = "query" /\ r.asked = req[q].asked
      BY <1>1 DEF Request, Steps
    <2>2. req' = [req EXCEPT ![q] = r]
      BY <1>4 DEF Goto
    <2> HIDE DEF r
    <2> QED BY <1>1, <2>1, <2>2, MoveStep
  <1> QED BY <1>2, <1>3, <1>4 DEF getReport

LEMMA GetQueryStep ==
  ASSUME APIInv, NEW q \in Requests, getQuery(q), UNCHANGED setup
  PROVE  APIInv'
  <1>1. /\ req[q].pc = "query" /\ req[q].pc \in Before
        /\ UNCHANGED <<worldVars, job, hidden, faults, setup>> /\ faults' \in 0..MaxFaults
        /\ req[q].asked.endpoint \in ReportEndpoints /\ req[q] \in Request
        /\ query \in Query /\ hidden[q] \subseteq query.hidden
    BY DEF getQuery, Before, APIInv, Types, TypeOK, JobsSound, HiddenSound, Query
  <1>2. CASE Respond(q, Error(500))
    BY <1>1, <1>2, ErrorStep
  <1>3. CASE req' = [req EXCEPT ![q].pc = "table", ![q].query = query]
    <2> DEFINE r == [req[q] EXCEPT !.pc = "table", !.query = query]
    <2>1. r \in Request /\ r.pc = "table" /\ r.asked = req[q].asked /\ r.query = query
      BY <1>1 DEF Request, Steps
    <2>2. req' = [req EXCEPT ![q] = r]
      BY <1>1, <1>3 DEF APIInv, Types
    <2> HIDE DEF r
    <2> QED BY <1>1, <2>1, <2>2, MoveStep
  <1> QED BY <1>2, <1>3 DEF getQuery

LEMMA GetTableStep ==
  ASSUME APIInv, NEW q \in Requests, getTable(q), UNCHANGED setup
  PROVE  APIInv'
  <1>1. /\ req[q].pc = "table" /\ req[q].pc \in Before
        /\ UNCHANGED <<worldVars, job, hidden, faults, setup>> /\ faults' \in 0..MaxFaults
        /\ req[q].asked.endpoint \in ReportEndpoints /\ req[q] \in Request
        /\ listed.cols \subseteq Columns /\ hidden[q] \subseteq req[q].query.hidden
    BY DEF getTable, Before, APIInv, Types, TypeOK, JobsSound, HiddenSound
  <1>2. CASE Respond(q, Error(202))
    BY <1>1, <1>2, ErrorStep
  <1>3. CASE Respond(q, Error(500))
    BY <1>1, <1>3, ErrorStep
  <1>4. CASE req' = [req EXCEPT ![q].pc = "select", ![q].cols = listed.cols]
    <2> DEFINE r == [req[q] EXCEPT !.pc = "select", !.cols = listed.cols]
    <2>1. r \in Request /\ r.pc = "select" /\ r.asked = req[q].asked /\ r.query = req[q].query
      BY <1>1 DEF Request, Steps
    <2>2. req' = [req EXCEPT ![q] = r]
      BY <1>1, <1>4 DEF APIInv, Types
    <2> HIDE DEF r
    <2> QED BY <1>1, <2>1, <2>2, MoveStep
  <1> QED BY <1>2, <1>3, <1>4 DEF getTable

(* The rows are read: the answer leaves out what the handler's copy of the *)
(* query hides, which includes what was hidden all the time.               *)
LEMMA GetReportResultsStep ==
  ASSUME APIInv, NEW q \in Requests, getReportResults(q), UNCHANGED setup
  PROVE  APIInv'
  <1>1. /\ req[q].pc = "select" /\ req[q].pc \in Before
        /\ UNCHANGED <<worldVars, job, hidden, setup>> /\ faults' \in 0..MaxFaults
        /\ req[q].asked.endpoint \in ReportEndpoints /\ req[q] \in Request
        /\ hidden[q] \subseteq req[q].query.hidden
    BY FaultType DEF getReportResults, Before, APIInv, Types, TypeOK, JobsSound, HiddenSound
  <1>2. CASE Respond(q, Error(500))
    BY <1>1, <1>2, ErrorStep
  <1> DEFINE w == writeResultsResponse(req[q].asked, req[q].query, req[q].cols, rows)
  <1>3. CASE req' = [req EXCEPT ![q].pc = "answered", ![q].breaks = Breaks(rows), ![q].answer = w]
    <2>1. /\ req[q].asked \in Question /\ req[q].query \in Query
          /\ req[q].cols \in SUBSET Columns /\ rows \in Seq(Row)
      BY <1>1 DEF Request, APIInv, Types
    <2>2. ResponseSound(req[q].asked, req[q].query, req[q].cols, rows, w)
      BY <2>1, ResponseAnswers
    <2>0. Breaks(rows) \in SUBSET Columns
      <3>1. \A i \in 1..Len(rows) : rows[i].breaks \subseteq Columns
        <4>1. \A i \in 1..Len(rows) : rows[i] \in Row
          BY <2>1
        <4> QED BY <4>1 DEF Row
      <3> QED BY <3>1 DEF Breaks
    <2> HIDE DEF w
    <2>3. /\ req' \in [Requests -> Request]
          /\ req'[q].pc = "answered" /\ req'[q].answer = w /\ req'[q].asked = req[q].asked
          /\ req'[q].cols = req[q].cols /\ req'[q].breaks = Breaks(rows)
          /\ \A k \in Requests : k # q => req'[k] = req[k]
      <3> DEFINE r == [req[q] EXCEPT !.pc = "answered", !.breaks = Breaks(rows), !.answer = w]
      <3>1. /\ r \in Request /\ r.pc = "answered" /\ r.answer = w /\ r.asked = req[q].asked
            /\ r.cols = req[q].cols /\ r.breaks = Breaks(rows)
        BY <1>1, <2>0, <2>2 DEF Request, Steps, ResponseSound
      <3>2. req' = [req EXCEPT ![q] = r]
        BY <1>1, <1>3 DEF APIInv, Types
      <3> HIDE DEF r
      <3> QED BY <3>1, <3>2 DEF APIInv, Types
    <2>4. \A k \in Requests : req'[k].pc # "unused" => req'[k].asked \in setup.asked
      BY <1>1, <2>3 DEF APIInv, Types, TypeOK
    <2>5. Types'
      BY <1>1, <2>3, <2>4, HandlerTypes DEF APIInv, Types
    <2>6. HiddenSound(q)'
      BY <1>1, <2>2, <2>3 DEF HiddenSound, Answered, ResponseSound
    <2>7. TabularSound(q)'
      BY <1>1, <2>2, <2>3 DEF TabularSound, Answered, ResponseSound
    <2>8. JobsSound(q)'
      BY <1>1, <2>3 DEF JobsSound, Answered, APIInv, ReportEndpoints
    <2>9. \A k \in Requests : k # q => Same(k)
      BY <1>1, <2>3 DEF Same
    <2> QED BY <1>1, <2>5, <2>6, <2>7, <2>8, <2>9, OneRequest DEF worldVars
  <1> QED BY <1>2, <1>3 DEF getReportResults

-----------------------------------------------------------------------------
(* Requests that start, and handlers of imports                            *)

LEMMA AskStep ==
  ASSUME APIInv, NEW q \in Requests, NEW a \in setup.asked, ask(q, a), UNCHANGED setup
  PROVE  APIInv'
  <1> DEFINE start(step, answer) ==
        req' = [req EXCEPT ![q].pc = step, ![q].asked = a, ![q].answer = answer]
  <1>1. /\ req[q].pc = "unused" /\ a \in Question
        /\ hidden' = [hidden EXCEPT ![q] = query.hidden] /\ query.hidden \subseteq Columns
        /\ UNCHANGED <<worldVars, job, faults, setup>> /\ faults' \in 0..MaxFaults
        /\ \A d \in DataSources : job[q][d].state = "none"
    BY AskedAreQuestions DEF ask, APIInv, Types, TypeOK, JobsSound
  <1>2. ASSUME NEW step \in Steps, NEW answer \in Answer \cup {Pending}, start(step, answer),
               \/ step = "answered" /\ answer.status # 200
               \/ step = "report" /\ a.endpoint \in ReportEndpoints
               \/ step = "find"
        PROVE  APIInv'
    <2>1. /\ req' \in [Requests -> Request]
          /\ req'[q].pc = step /\ req'[q].asked = a /\ req'[q].answer = answer
          /\ \A k \in Requests : k # q => req'[k] = req[k]
      <3> DEFINE r == [req[q] EXCEPT !.pc = step, !.asked = a, !.answer = answer]
      <3>1. req[q] \in Request /\ req \in [Requests -> Request]
        BY DEF APIInv, Types
      <3>2. r \in Request /\ r.pc = step /\ r.asked = a /\ r.answer = answer
        BY <1>1, <3>1 DEF Request
      <3>3. req' = [req EXCEPT ![q] = r]
        BY <1>2, <3>1
      <3> HIDE DEF r
      <3> QED BY <3>1, <3>2, <3>3
    <2>2. /\ hidden' \in [Requests -> SUBSET Columns] /\ hidden'[q] = query.hidden
          /\ \A k \in Requests : k # q => hidden'[k] = hidden[k]
      BY <1>1 DEF APIInv, Types
    <2>3. \A k \in Requests : req'[k].pc # "unused" => req'[k].asked \in setup.asked
      BY <2>1 DEF APIInv, Types, TypeOK
    <2>4. Types'
      BY <1>1, <2>1, <2>2, <2>3, HandlerTypes DEF APIInv, Types
    <2>5. HiddenSound(q)' /\ TabularSound(q)'
      BY <1>1, <1>2, <2>1, <2>2 DEF HiddenSound, TabularSound, Answered, worldVars
    <2>6. JobsSound(q)'
      BY <1>1, <1>2, <2>1 DEF JobsSound, Answered, ReportEndpoints
    <2>7. \A k \in Requests : k # q => Same(k)
      BY <1>1, <2>1, <2>2 DEF Same
    <2> QED BY <1>1, <2>4, <2>5, <2>6, <2>7, OneRequest DEF worldVars
  <1>3. \/ start("answered", Error(400))
        \/ a.endpoint \in ReportEndpoints /\ start("report", Pending)
        \/ start("find", Pending)
    BY DEF ask
  <1> HIDE DEF start
  <1>4. Error(400) \in Answer /\ Error(400).status # 200
    BY ErrorType
  <1> QED BY <1>2, <1>3, <1>4 DEF Steps

(* The data sources that a request of the import endpoints is given jobs   *)
(* for include the ones it named.                                          *)
LEMMA NamedAreSelected ==
  ASSUME NEW a \in Question, Selected(a) \subseteq DataSources
  PROVE  Named(a) \cap setup.dataSources \subseteq Selected(a)
  BY APIAssumption DEF Named, Selected, Question

LEMMA FindDataSourcesStep ==
  ASSUME APIInv, NEW q \in Requests, findDataSources(q), UNCHANGED setup
  PROVE  APIInv'
  <1>1. /\ req[q].pc = "find" /\ req[q].pc \in Before
        /\ UNCHANGED <<worldVars, hidden, faults, setup>> /\ faults' \in 0..MaxFaults
        /\ req[q] \in Request /\ req[q].asked \in Question
    BY DEF findDataSources, Before, APIInv, Types, TypeOK, Request
  <1> DEFINE wanted == Selected(req[q].asked)
             jobs == [d \in DataSources |->
                        [state |-> IF d \in wanted THEN "waiting" ELSE "none", batches |-> 0]]
  <1>2. CASE Respond(q, Error(500)) /\ UNCHANGED job
    BY <1>1, <1>2, ErrorStep
  <1>3. CASE wanted \subseteq ready /\ Goto(q, "import") /\ job' = [job EXCEPT ![q] = jobs]
    <2>1. /\ jobs \in [DataSources -> Job]
          /\ \A d \in DataSources : /\ jobs[d].state = IF d \in wanted THEN "waiting" ELSE "none"
                                    /\ jobs[d].batches = 0
      BY APIAssumption DEF Job
    <2>2. Named(req[q].asked) \cap setup.dataSources \subseteq wanted
      <3>1. wanted \subseteq DataSources
        BY <1>3 DEF APIInv, Types, TypeOK
      <3> QED BY <1>1, <3>1, NamedAreSelected
    <2> HIDE DEF jobs, wanted
    <2>3. /\ req' \in [Requests -> Request]
          /\ req'[q].pc = "import" /\ req'[q].asked = req[q].asked
          /\ \A k \in Requests : k # q => req'[k] = req[k]
      BY <1>3 DEF APIInv, Types, Request, Goto, Steps
    <2>4. /\ job' \in [Requests -> [DataSources -> Job]] /\ job'[q] = jobs
          /\ \A k \in Requests : k # q => job'[k] = job[k]
      BY <1>3, <2>1 DEF APIInv, Types
    <2>5. \A k \in Requests : req'[k].pc # "unused" => req'[k].asked \in setup.asked
      BY <1>1, <2>3 DEF APIInv, Types, TypeOK
    <2>6. Types'
      BY <1>1, <2>3, <2>4, <2>5, HandlerTypes DEF APIInv, Types
    <2>7. HiddenSound(q)' /\ TabularSound(q)'
      BY <1>1, <2>3 DEF HiddenSound, TabularSound, Answered, worldVars, APIInv
    <2>8. JobsSound(q)'
      <3>1. \A d \in Named(req[q].asked) \cap setup.dataSources : jobs[d].state # "none"
        <4>1. setup.dataSources \subseteq DataSources
          BY APIAssumption DEF APIInv, Types, TypeOK, Setup
        <4> QED BY <2>1, <2>2, <4>1
      <3>2. Named(req[q].asked)' = Named(req[q].asked)
        BY <1>1, <2>3 DEF Named
      <3> QED BY <1>1, <2>1, <2>3, <2>4, <3>1, <3>2 DEF JobsSound, Answered
    <2>9. \A k \in Requests : k # q => Same(k)
      BY <1>1, <2>3, <2>4 DEF Same
    <2> QED BY <1>1, <2>6, <2>7, <2>8, <2>9, OneRequest DEF worldVars
  <1> QED BY <1>2, <1>3 DEF findDataSources

(* One import goes on: what it may become.                                 *)
JobGoesOn(total, old, new) ==
  /\ old.state \in {"waiting", "running", "sending"}
  /\ new.state \in {"running", "sending", "done", "failed"}
  /\ new.state \in {"sending", "done"} => new.batches = total

LEMMA ImportStep ==
  ASSUME APIInv, NEW q \in Requests, NEW d \in DataSources, NEW j \in Job,
         JobGoesOn(Total(req[q].asked), job[q][d], j), job' = [job EXCEPT ![q][d] = j], req[q].pc # "answered",
         UNCHANGED <<worldVars, req, hidden, setup>>, faults' \in 0..MaxFaults
  PROVE  APIInv'
  <1>1. /\ job' \in [Requests -> [DataSources -> Job]] /\ job'[q][d] = j
        /\ \A e \in DataSources : e # d => job'[q][e] = job[q][e]
        /\ \A k \in Requests : k # q => job'[k] = job[k]
    BY DEF APIInv, Types
  <1>2. Types'
    BY <1>1, HandlerTypes DEF APIInv, Types, TypeOK
  <1>3. HiddenSound(q)' /\ TabularSound(q)'
    BY DEF HiddenSound, TabularSound, Answered, worldVars, APIInv
  <1>4. JobsSound(q)'
    <2>1. req[q].pc = "import"
      BY DEF APIInv, JobsSound, JobGoesOn
    <2>2. \A e \in DataSources : job[q][e].state # "none" => job'[q][e].state # "none"
      BY <1>1 DEF JobGoesOn
    <2>3. \A e \in DataSources :
            job'[q][e].state \in {"sending", "done"} => job'[q][e].batches = Total(req[q].asked)
      BY <1>1 DEF JobGoesOn, APIInv, JobsSound
    <2>4. setup.dataSources \subseteq DataSources
      BY APIAssumption DEF APIInv, Types, TypeOK, Setup
    <2>5. Named(req[q].asked)' = Named(req[q].asked) /\ req' = req
      BY DEF Named
    <2> QED BY <2>1, <2>2, <2>3, <2>4, <2>5 DEF JobsSound, Answered, APIInv
  <1>5. \A k \in Requests : k # q => Same(k)
    BY <1>1 DEF Same
  <1> QED BY <1>2, <1>3, <1>4, <1>5, OneRequest DEF worldVars

(* A step of an import that only changes how far it is.                    *)
LEMMA StateStep ==
  ASSUME APIInv, NEW q \in Requests, NEW d \in DataSources,
         job[q][d].state \in {"waiting", "running", "sending"},
         NEW s \in {"running", "sending", "done", "failed"},
         s \in {"sending", "done"} => job[q][d].batches = Total(req[q].asked),
         job' = [job EXCEPT ![q][d].state = s],
         UNCHANGED <<worldVars, req, hidden, setup>>, faults' \in 0..MaxFaults
  PROVE  APIInv'
  <1> DEFINE j == [job[q][d] EXCEPT !.state = s]
  <1>1. job[q][d] \in Job /\ req[q].pc # "answered"
    <2>1. JobsSound(q) /\ job[q][d] \in Job
      BY DEF APIInv, Types
    <2> QED BY <2>1 DEF JobsSound
  <1>2. j \in Job /\ JobGoesOn(Total(req[q].asked), job[q][d], j)
    BY <1>1 DEF Job, JobGoesOn
  <1>3. job' = [job EXCEPT ![q][d] = j]
    BY DEF APIInv, Types
  <1> HIDE DEF j
  <1> QED BY <1>1, <1>2, <1>3, ImportStep

LEMMA StartImportStep ==
  ASSUME APIInv, NEW q \in Requests, NEW d \in DataSources, startImport(q, d), UNCHANGED setup
  PROVE  APIInv'
  <1>1. /\ job[q][d].state = "waiting" /\ faults' \in 0..MaxFaults
        /\ UNCHANGED <<worldVars, req, hidden, setup>>
        /\ \E s \in {"running", "failed"} : job' = [job EXCEPT ![q][d].state = s]
    BY FaultType DEF startImport, APIInv, Types, TypeOK
  <1> QED BY <1>1, StateStep

LEMMA StoreBatchStep ==
  ASSUME APIInv, NEW q \in Requests, NEW d \in DataSources, storeBatch(q, d), UNCHANGED setup
  PROVE  APIInv'
  <1>1. /\ job[q][d] \in Job /\ job[q][d].state = "running"
        /\ UNCHANGED <<worldVars, req, hidden, setup>> /\ faults' \in 0..MaxFaults
    BY FaultType DEF storeBatch, APIInv, Types, TypeOK
  <1>2. req[q].pc # "answered"
    BY <1>1 DEF APIInv, JobsSound
  <1>3. CASE job' = [job EXCEPT ![q][d].state = "failed"]
    BY <1>1, <1>3, StateStep
  <1> DEFINE j == [job[q][d] EXCEPT !.batches = @ + 1]
  <1>4. CASE job' = [job EXCEPT ![q][d].batches = @ + 1]
    <2>1. j \in Job /\ JobGoesOn(Total(req[q].asked), job[q][d], j)
      BY <1>1 DEF Job, JobGoesOn
    <2>2. job' = [job EXCEPT ![q][d] = j]
      BY <1>4 DEF APIInv, Types
    <2> HIDE DEF j
    <2> QED BY <1>1, <1>2, <2>1, <2>2, ImportStep
  <1> QED BY <1>3, <1>4 DEF storeBatch

LEMMA EndImportStep ==
  ASSUME APIInv, NEW q \in Requests, NEW d \in DataSources, endImport(q, d), UNCHANGED setup
  PROVE  APIInv'
  <1>1. /\ job[q][d].state = "running" /\ job[q][d].batches = Total(req[q].asked)
        /\ UNCHANGED <<worldVars, req, hidden, setup>> /\ faults' \in 0..MaxFaults
        /\ \E s \in {"sending", "done"} : job' = [job EXCEPT ![q][d].state = s]
    BY DEF endImport, APIInv, Types, TypeOK
  <1> QED BY <1>1, StateStep

LEMMA ReceiveResultStep ==
  ASSUME APIInv, NEW q \in Requests, NEW d \in DataSources, receiveResult(q, d), UNCHANGED setup
  PROVE  APIInv'
  <1>1. /\ job[q][d].state = "sending" /\ job[q][d].batches = Total(req[q].asked)
        /\ UNCHANGED <<worldVars, req, hidden, setup>> /\ faults' \in 0..MaxFaults
        /\ job' = [job EXCEPT ![q][d].state = "done"]
    BY DEF receiveResult, APIInv, Types, TypeOK, JobsSound
  <1> QED BY <1>1, StateStep

(* The last import has ended: all is stored unless one has failed.         *)
LEMMA FinishImportStep ==
  ASSUME APIInv, NEW q \in Requests, finishImport(q), UNCHANGED setup
  PROVE  APIInv'
  <1> DEFINE w == Reply(IF Cancelled(q) THEN 500 ELSE 200, {}, {}, ~Cancelled(q))
  <1>1. /\ w \in Answer /\ w.header = {} /\ w.shown = {}
        /\ w.status = 200 => ~Cancelled(q) /\ w.whole
    <2>1. CASE Cancelled(q)
      <3>1. w = Reply(500, {}, {}, FALSE)
        BY <2>1, Zenon
      <3> QED BY <3>1 DEF Reply, Answer
    <2>2. CASE ~Cancelled(q)
      <3>1. w = Reply(200, {}, {}, TRUE)
        BY <2>2, Zenon
      <3> QED BY <2>2, <3>1 DEF Reply, Answer
    <2> QED BY <2>1, <2>2
  <1>2. /\ req[q].pc = "import" /\ Respond(q, w)
        /\ \A d \in DataSources : job[q][d].state \in {"none", "done", "failed"}
        /\ UNCHANGED <<worldVars, job, hidden, faults, setup>> /\ faults' \in 0..MaxFaults
    BY DEF finishImport, Going, In, APIInv, Types, TypeOK, Job
  <1> HIDE DEF w
  <1>3. /\ req' \in [Requests -> Request]
        /\ req'[q].pc = "answered" /\ req'[q].answer = w /\ req'[q].asked = req[q].asked
        /\ req'[q].cols = req[q].cols
        /\ \A k \in Requests : k # q => req'[k] = req[k]
    BY <1>1, <1>2, RespondTypes DEF APIInv
  <1>4. \A k \in Requests : req'[k].pc # "unused" => req'[k].asked \in setup.asked
    BY <1>2, <1>3 DEF APIInv, Types, TypeOK
  <1>5. Types'
    BY <1>2, <1>3, <1>4, HandlerTypes DEF APIInv, Types
  <1>6. HiddenSound(q)' /\ TabularSound(q)'
    BY <1>1, <1>3 DEF HiddenSound, TabularSound, Answered
  <1>7. JobsSound(q)'
    <2>1. w.status = 200 => \A d \in DataSources : job[q][d].state # "failed"
      BY <1>1 DEF Cancelled, In
    <2>2. Named(req[q].asked)' = Named(req[q].asked)
      BY <1>2, <1>3 DEF Named
    <2> QED BY <1>2, <1>3, <2>1, <2>2 DEF JobsSound, Answered, APIInv
  <1>8. \A k \in Requests : k # q => Same(k)
    BY <1>2, <1>3 DEF Same
  <1> QED BY <1>2, <1>5, <1>6, <1>7, <1>8, OneRequest DEF worldVars

-----------------------------------------------------------------------------
(* Users and controllers                                                   *)

(* What the types say of the world alone.                                  *)
WorldTypes ==
  /\ report \in {"absent", "ok", "failed"}
  /\ query \in Query /\ query.shown \cap query.hidden = {}
  /\ listed \in [exists : BOOLEAN, cols : SUBSET Columns]
  /\ table \subseteq Columns
  /\ rows \in Seq(Row) /\ Len(rows) <= MaxRows
  /\ ready \subseteq setup.dataSources
  /\ edits \in 0..MaxEdits

LEMMA WorldTypesSuffice ==
  ASSUME Types, WorldTypes', UNCHANGED <<req, job, faults, setup>>,
         hidden' \in [Requests -> SUBSET Columns]
  PROVE  Types'
  <1>1. setup.dataSources \subseteq DataSources
    BY APIAssumption DEF Types, TypeOK, Setup
  <1>2. \A i \in 1..Len(rows') : rows'[i] \in Row
    BY DEF WorldTypes
  <1>3. \A q \in Requests : hidden'[q] \subseteq Columns
    OBVIOUS
  <1> QED BY <1>1, <1>2, <1>3 DEF Types, TypeOK, WorldTypes, Query

LEMMA TypesOfWorld ==
  ASSUME Types
  PROVE  WorldTypes
  BY DEF Types, TypeOK, WorldTypes, Query

(* A change of the world other than an edit of the query.                  *)
LEMMA WorldStep ==
  ASSUME APIInv, WorldTypes', UNCHANGED <<query, req, job, hidden, faults, setup>>
  PROVE  APIInv'
  <1>1. Types'
    BY WorldTypesSuffice DEF APIInv, Types
  <1>2. ASSUME NEW q \in Requests
        PROVE  HiddenSound(q)' /\ TabularSound(q)' /\ JobsSound(q)'
    BY RequestFrame DEF APIInv, Same
  <1> QED BY <1>1, <1>2 DEF APIInv

LEMMA EditType ==
  ASSUME WorldTypes, Edit
  PROVE  edits' \in 0..MaxEdits
  BY APIAssumption DEF WorldTypes, Edit

(* A column that the edited query shows was not hidden all the time.       *)
LEMMA EditQueryStep ==
  ASSUME APIInv, NEW shown \in SUBSET Columns, NEW hid \in SUBSET Columns, editQuery(shown, hid),
         UNCHANGED setup
  PROVE  APIInv'
  <1>1. WorldTypes'
    BY TypesOfWorld, EditType DEF editQuery, WorldTypes, APIInv, Query
  <1>2. /\ hidden' \in [Requests -> SUBSET Columns] /\ query'.hidden = hid
        /\ \A q \in Requests : hidden'[q] = IF req[q].pc = "answered" THEN hidden[q]
                                            ELSE hidden[q] \cap hid
        /\ UNCHANGED <<req, job, faults, setup>>
    BY DEF editQuery, APIInv, Types
  <1>3. Types'
    BY <1>1, <1>2, WorldTypesSuffice DEF APIInv
  <1>4. ASSUME NEW q \in Requests
        PROVE  HiddenSound(q)' /\ TabularSound(q)' /\ JobsSound(q)'
    <2>1. HiddenSound(q)'
      BY <1>2 DEF HiddenSound, Answered, APIInv
    <2>2. TabularSound(q)'
      BY <1>2 DEF TabularSound, Answered, APIInv
    <2>3. Named(req[q].asked)' = Named(req[q].asked)
      BY <1>2 DEF Named
    <2>4. JobsSound(q)'
      BY <1>2, <2>3 DEF JobsSound, Answered, APIInv
    <2> QED BY <2>1, <2>2, <2>4
  <1> QED BY <1>3, <1>4 DEF APIInv

LEMMA WorldPreserves ==
  ASSUME APIInv, world, UNCHANGED setup
  PROVE  APIInv'
  <1>0. WorldTypes
    BY TypesOfWorld DEF APIInv
  <1>1. ASSUME NEW shown \in SUBSET Columns, NEW hid \in SUBSET Columns, editQuery(shown, hid)
        PROVE  APIInv'
    BY <1>1, EditQueryStep
  <1>2. ASSUME NEW s \in {"absent", "ok", "failed"}, editReport(s)
        PROVE  APIInv'
    <2>1. WorldTypes'
      BY <1>0, <1>2, EditType DEF editReport, WorldTypes
    <2> QED BY <1>2, <2>1, WorldStep DEF editReport
  <1>3. CASE createTable
    <2>1. WorldTypes'
      BY <1>0, <1>3 DEF createTable, WorldTypes, Query
    <2> QED BY <1>3, <2>1, WorldStep DEF createTable
  <1>4. CASE dropTable
    <2>1. << >> \in Seq(Row) /\ Len(<< >>) <= MaxRows
      BY APIAssumption
    <2>2. WorldTypes'
      BY <1>0, <1>4, <2>1 DEF dropTable, WorldTypes
    <2> QED BY <1>4, <2>2, WorldStep DEF dropTable
  <1>5. CASE listTable
    <2>1. listed' \in [exists : BOOLEAN, cols : SUBSET Columns]
      <3>1. CASE listed' = NoTable
        BY <3>1 DEF NoTable
      <3>2. CASE listed' \in [exists : {TRUE}, cols : {{}, table}]
        <4>1. {{}, table} \subseteq SUBSET Columns
          BY <1>0 DEF WorldTypes
        <4> QED BY <3>2, <4>1
      <3> QED BY <1>5, <3>1, <3>2 DEF listTable
    <2>2. WorldTypes'
      BY <1>0, <1>5, <2>1 DEF listTable, WorldTypes
    <2> QED BY <1>5, <2>2, WorldStep DEF listTable
  <1>6. ASSUME NEW row \in Row, NEW overwrite \in BOOLEAN, storeRow(row, overwrite)
        PROVE  APIInv'
    <2>1. rows' \in Seq(Row) /\ Len(rows') <= MaxRows
      <3>1. CASE overwrite
        BY <1>6, <3>1, APIAssumption DEF storeRow
      <3>2. CASE ~overwrite
        BY <1>0, <1>6, <3>2, APIAssumption DEF storeRow, WorldTypes
      <3> QED BY <3>1, <3>2
    <2>2. WorldTypes'
      BY <1>0, <1>6, <2>1 DEF storeRow, WorldTypes
    <2> QED BY <1>6, <2>2, WorldStep DEF storeRow
  <1> QED BY <1>1, <1>2, <1>3, <1>4, <1>5, <1>6 DEF world

-----------------------------------------------------------------------------
(* The theorems                                                            *)

LEMMA APIInit ==
  ASSUME Init
  PROVE  APIInv
  <1>1. setup \in Setup /\ setup.dataSources \subseteq DataSources
    BY APIAssumption DEF Init, Setup
  <1>2. Nothing \in Question /\ NoQuery \in Query
    BY DEF Nothing, Question, Endpoints, Formats, NoQuery, Query
  <1>3. NoJobs \in [DataSources -> Job] /\ \A d \in DataSources : NoJobs[d].state = "none"
    BY APIAssumption DEF NoJobs, Job
  <1>4. /\ req \in [Requests -> Request]
        /\ \A q \in Requests : req[q].pc = "unused"
    BY <1>2 DEF Init, Request, Steps
  <1>5. /\ job \in [Requests -> [DataSources -> Job]]
        /\ \A q \in Requests : job[q] = NoJobs
        /\ hidden \in [Requests -> SUBSET Columns]
        /\ \A q \in Requests : hidden[q] = {}
    BY <1>3 DEF Init
  <1>6. /\ query \in Query /\ query.shown \cap query.hidden = {}
        /\ query \in [shown : SUBSET Columns, hidden : SUBSET Columns]
    BY <1>2 DEF Init, Query, NoQuery
  <1>7. /\ rows \in Seq(Row) /\ Len(rows) <= MaxRows
        /\ \A i \in 1..Len(rows) : rows[i] \in Row
    BY APIAssumption DEF Init
  <1>8. /\ report \in {"absent", "ok", "failed"} /\ setup \in Setups
        /\ listed \in [exists : BOOLEAN, cols : SUBSET Columns] /\ table \subseteq Columns
        /\ ready \subseteq setup.dataSources /\ edits \in 0..MaxEdits /\ faults \in 0..MaxFaults
    BY APIAssumption DEF Init, NoTable
  <1>9. \A q \in Requests : /\ req[q].pc \in Steps /\ req[q].cols \subseteq Columns
                            /\ req[q].breaks \subseteq Columns
                            /\ req[q].answer \in Answer \cup {Pending}
                            /\ \A d \in DataSources : job[q][d] \in Job
    BY <1>4, <1>5 DEF Request
  <1>10. Types
    BY <1>1, <1>4, <1>5, <1>6, <1>7, <1>8, <1>9 DEF Types, TypeOK
  <1>11. ASSUME NEW q \in Requests
         PROVE  HiddenSound(q) /\ TabularSound(q) /\ JobsSound(q)
    <2>1. HiddenSound(q) /\ TabularSound(q)
      BY <1>4, <1>5 DEF HiddenSound, TabularSound, Answered
    <2>2. JobsSound(q)
      BY <1>3, <1>4, <1>5 DEF JobsSound, Answered
    <2> QED BY <2>1, <2>2
  <1> QED BY <1>10, <1>11 DEF APIInv

LEMMA HandlerPreserves ==
  ASSUME APIInv, NEW q \in Requests, handler(q), UNCHANGED setup
  PROVE  APIInv'
  BY GetReportStep, GetQueryStep, GetTableStep, GetReportResultsStep, FindDataSourcesStep,
     FinishImportStep, StartImportStep, StoreBatchStep, EndImportStep, ReceiveResultStep DEF handler

LEMMA StutterPreserves ==
  ASSUME APIInv, UNCHANGED <<vars, setup>>
  PROVE  APIInv'
  <1>1. WorldTypes'
    BY TypesOfWorld DEF APIInv, WorldTypes, vars, worldVars
  <1> QED BY <1>1, WorldStep DEF vars, worldVars

LEMMA NextPreserves ==
  ASSUME APIInv, [Next]_<<vars, setup>>
  PROVE  APIInv'
  BY WorldPreserves, HandlerPreserves, AskStep, StutterPreserves DEF Next

(* The invariant of the HTTP API holds in every reachable state.           *)
THEOREM APIInvariant == Spec => []APIInv
  <1>1. Init => APIInv
    BY APIInit
  <1>2. APIInv /\ [Next]_<<vars, setup>> => APIInv'
    BY NextPreserves
  <1> QED BY <1>1, <1>2, PTL DEF Spec

(***************************************************************************)
(* No answer of /table shows a column that its ReportQuery has hidden all  *)
(* through the request: getTable may read a PrestoTable older or newer     *)
(* than the query that the handler holds.                                  *)
(***************************************************************************)
THEOREM HiddenColumnsStayOut == Spec => []TableLeavesHiddenOut
  <1>1. APIInv => TableLeavesHiddenOut
    BY DEF APIInv, Types, HiddenSound, TableLeavesHiddenOut
  <1> QED BY <1>1, APIInvariant, PTL

(***************************************************************************)
(* A tabular answer with status 200 and not just one column has a value    *)
(* for every column of its header, and all rows unless a string breaks the *)
(* table: otherwise writeResultsAsCSV fails before tabwriter has handed    *)
(* over the first byte.                                                    *)
(***************************************************************************)
THEOREM TabularAnswersWhole == Spec => []TabularAnswersAreWhole
  <1>1. APIInv => TabularAnswersAreWhole
    BY DEF APIInv, TabularSound, TabularAnswersAreWhole
  <1> QED BY <1>1, APIInvariant, PTL

(***************************************************************************)
(* When a collect or store request is answered with 200, all imports of    *)
(* the data sources it named have stored what was sent, or the chunks up   *)
(* to the end that ImportFromTimeRange has cut.                            *)
(***************************************************************************)
THEOREM AcknowledgedImportsStored == Spec => []AcknowledgedIsStored
  <1>1. ASSUME APIInv
        PROVE  AcknowledgedIsStored
    <2> SUFFICES ASSUME NEW q \in Requests, Answered(q, 200),
                        req[q].asked.endpoint \in {"collect", "store"},
                        NEW d \in Named(req[q].asked) \cap setup.dataSources
                 PROVE  job[q][d] = [state |-> "done", batches |-> Total(req[q].asked)]
      BY DEF AcknowledgedIsStored
    <2>1. d \in DataSources
      BY <1>1, APIAssumption DEF APIInv, Types, TypeOK, Setup
    <2>2. job[q][d].state = "done"
      BY <1>1, <2>1 DEF APIInv, JobsSound, Answered
    <2>3. job[q][d].batches = Total(req[q].asked)
      BY <1>1, <2>1, <2>2 DEF APIInv, JobsSound
    <2> QED BY <1>1, <2>1, <2>2, <2>3 DEF APIInv, Types, Job
  <1> QED BY <1>1, APIInvariant, PTL

(***************************************************************************)
(* After its answer no import of a request writes to Presto: finishImport  *)
(* waits for every goroutine of the errgroup, failed or not.               *)
(***************************************************************************)
THEOREM AnsweredRequestsAreQuiet == Spec => QuietAfterAnswer
  <1> DEFINE Quiet == \A q \in Requests : req[q].pc = "answered" => job'[q] = job[q]
  <1>1. ASSUME APIInv, Next
        PROVE  Quiet
    <2> SUFFICES ASSUME NEW k \in Requests, req[k].pc = "answered"
                 PROVE  job'[k] = job[k]
      OBVIOUS
    <2>1. CASE world
      BY <2>1 DEF world, editQuery, editReport, createTable, dropTable, listTable, storeRow
    <2>2. ASSUME NEW q \in Requests, NEW a, ask(q, a)
          PROVE  job'[k] = job[k]
      BY <2>2 DEF ask
    <2>3. ASSUME NEW q \in Requests, handler(q)
          PROVE  job'[k] = job[k]
      <3>1. CASE getReport(q) \/ getQuery(q) \/ getTable(q) \/ getReportResults(q) \/ finishImport(q)
        BY <3>1 DEF getReport, getQuery, getTable, getReportResults, finishImport
      <3>2. CASE findDataSources(q)
        <4>1. k # q
          BY <3>2 DEF findDataSources
        <4> QED BY <1>1, <3>2, <4>1 DEF findDataSources, APIInv, Types
      <3>3. ASSUME NEW d \in DataSources, startImport(q, d)
            PROVE  job'[k] = job[k]
        <4>1. k # q
          BY <3>3 DEF startImport
        <4> QED BY <1>1, <3>3, <4>1 DEF startImport, APIInv, Types
      <3>4. ASSUME NEW d \in DataSources, storeBatch(q, d)
            PROVE  job'[k] = job[k]
        <4>1. k # q
          BY <1>1, <3>4 DEF storeBatch, APIInv, JobsSound
        <4> QED BY <1>1, <3>4, <4>1 DEF storeBatch, APIInv, Types
      <3>5. ASSUME NEW d \in DataSources, endImport(q, d)
            PROVE  job'[k] = job[k]
        <4>1. k # q
          BY <1>1, <3>5 DEF endImport, APIInv, JobsSound
        <4> QED BY <1>1, <3>5, <4>1 DEF endImport, APIInv, Types
      <3>6. ASSUME NEW d \in DataSources, receiveResult(q, d)
            PROVE  job'[k] = job[k]
        <4>1. k # q
          BY <3>6 DEF receiveResult
        <4> QED BY <1>1, <3>6, <4>1 DEF receiveResult, APIInv, Types
      <3> QED BY <2>3, <3>1, <3>2, <3>3, <3>4, <3>5, <3>6 DEF handler
    <2> QED BY <1>1, <2>1, <2>2, <2>3 DEF Next
  <1>2. ASSUME APIInv, [Next]_<<vars, setup>>
        PROVE  [Quiet]_vars
    BY <1>1, <1>2
  <1>3. APIInv /\ [Next]_<<vars, setup>> => [Quiet]_vars
    BY <1>2
  <1> HIDE DEF Quiet
  <1>4. Spec => [][Quiet]_vars
    BY <1>3, APIInvariant, PTL DEF Spec
  <1> QED BY <1>4 DEF QuietAfterAnswer, Quiet
=============================================================================
