------------------------ MODULE MCPrometheusImporter ------------------------
(* Two installations: one that only its faults disturb, and one whose      *)
(* users import on demand and delete and whose caches lag behind.  A       *)
(* minute has two units of time.                                           *)
EXTENDS PrometheusImporter, TimeRangesCheck

CONSTANT ds1

OwnNames == [d \in DataSources |-> d]

(* Prometheus is not scraped in the second and the third minute, and knows *)
(* a second series from the fourth on.                                     *)
SeriesFrom(s, t) == { [series |-> s, at |-> 2 * i] : i \in (t .. 12) \ {2, 3} }
TwoSeries == SeriesFrom("a", 0) \cup SeriesFrom("b", 4)

Alone ==
  [ sources |-> {ds1}, batchSize |-> 25, onDemand |-> {}, laggy |-> FALSE,
    maxTime |-> 12, maxRecreations |-> 0, maxFaults |-> 2 ]

Busy ==
  [ sources |-> {ds1}, batchSize |-> 1, onDemand |-> { [start |-> 2, end |-> 6] },
    laggy |-> TRUE, maxTime |-> 6, maxRecreations |-> 1, maxFaults |-> 1 ]

TwoSetups == {Alone, Busy}

(* Whatever import is asked for up to the present instant, its queries     *)
(* cover what was asked for and store no sample twice (query.go:148-215):  *)
(* see CoversOnce.                                                         *)
RangesCoverOnce == CutWrongly[now] = {}
=============================================================================
