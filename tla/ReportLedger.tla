---------------------------- MODULE ReportLedger ----------------------------
(***************************************************************************)
(* What the Report controller promises of a report table, without its      *)
(* queue, caches, conflicts, retries and restarts: a ledger of rows that   *)
(* continues where the books were last closed.  ReportController is shown  *)
(* to implement it, with last the stored Status.LastReportTime.            *)
(***************************************************************************)
EXTENDS Naturals, Sequences

CONSTANTS Reports, Null

VARIABLES
  rows,      \* the periods stored for each Report, in order
  last,      \* up to where they are recorded; Null when nothing is
  rescoped   \* its user has redefined what the Report covers

vars == <<rows, last, rescoped>>

Init ==
  /\ rows = [r \in Reports |-> << >>]
  /\ last = [r \in Reports |-> Null]
  /\ rescoped = [r \in Reports |-> FALSE]

(* One more period is stored.  It continues from the recorded instant, so  *)
(* a period that was stored and not recorded is the one stored again.      *)
Store(r) ==
  /\ Len(rows'[r]) = Len(rows[r]) + 1
  /\ LET row == rows'[r][Len(rows[r]) + 1] IN
     /\ rows' = [rows EXCEPT ![r] = Append(@, row)]
     /\ last[r] = Null \/ rescoped[r] \/ row.start = last[r]
  /\ UNCHANGED <<last, rescoped>>

(* The period stored last is recorded.                                     *)
Record(r) ==
  /\ Len(rows[r]) > 0
  /\ last' = [last EXCEPT ![r] = rows[r][Len(rows[r])].end]
  /\ UNCHANGED <<rows, rescoped>>

(* overwriteExistingData starts the table afresh.                          *)
Empty(r) ==
  /\ rows' = [rows EXCEPT ![r] = << >>]
  /\ UNCHANGED <<last, rescoped>>

(* A user turns a Report that has reported into a run-once one.            *)
Rescope(r) ==
  /\ last[r] # Null
  /\ rescoped' = [rescoped EXCEPT ![r] = TRUE]
  /\ UNCHANGED <<rows, last>>

Next == \E r \in Reports : Store(r) \/ Record(r) \/ Empty(r) \/ Rescope(r)

Spec == Init /\ [][Next]_vars
=============================================================================
