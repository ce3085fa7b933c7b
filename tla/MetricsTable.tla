---------------------------- MODULE MetricsTable ----------------------------
(***************************************************************************)
(* What importing Prometheus metrics promises to the Reports that read the *)
(* tables: samples are only ever appended, newest last and each of them    *)
(* once, and the window a ReportDataSource publishes in its status only    *)
(* grows and never covers an instant whose samples are still missing.      *)
(***************************************************************************)
EXTENDS Integers

CONSTANTS
  DataSources,   \* the ReportDataSources with a table
  Present,       \* the samples Prometheus holds, as [series, at] records
  Null           \* no window published yet

VARIABLES
  table,         \* the samples in the table of each data source
  window         \* the published [start, end] of each data source

vars == <<table, window>>

SamplesIn(w) == { x \in Present : w.start <= x.at /\ x.at <= w.end }

Init ==
  /\ table = [d \in DataSources |-> {}]
  /\ window = [d \in DataSources |-> Null]

(* Some samples newer than all that are stored are added.                  *)
Store(d) ==
  /\ table[d] # table'[d]
  /\ table[d] \subseteq table'[d] /\ table'[d] \subseteq Present
  /\ \A old \in table[d], new \in table'[d] \ table[d] : old.at < new.at
  /\ table' = [table EXCEPT ![d] = table'[d]]
  /\ UNCHANGED window

(* The window is set, or reaches further; its samples are all stored.      *)
Publish(d) ==
  /\ window'[d] # Null
  /\ window'[d].start <= window'[d].end
  /\ window[d] # Null => /\ window'[d].start = window[d].start
                         /\ window'[d].end >= window[d].end
  /\ SamplesIn(window'[d]) \subseteq table[d]
  /\ window' = [window EXCEPT ![d] = window'[d]]
  /\ UNCHANGED table

Next == \E d \in DataSources : Store(d) \/ Publish(d)

Spec == Init /\ [][Next]_vars
=============================================================================
