------------------------- MODULE MCReportController -------------------------
(***************************************************************************)
(* Instances of ReportController for TLC.  The schedule fires at every     *)
(* even instant, so that a ReportingStart or a ReportingEnd can fall       *)
(* inside a period, or, where that is not the point, at every instant.     *)
(***************************************************************************)
EXTENDS ReportController

EvenTimes(t) == 2 * (t \div 2) + 2

NextInstant(t) == t + 1

Scheduled(s, e) ==
  [start |-> s, end |-> e, schedule |-> "cron", runImmediately |-> FALSE, overwrite |-> FALSE]

RunOnce(s, e) == [Scheduled(s, e) EXCEPT !.schedule = "none"]

Forced(spec) == [spec EXCEPT !.runImmediately = TRUE]

Overwriting(spec) == [spec EXCEPT !.overwrite = TRUE]

Malformed == [Scheduled(0, Null) EXCEPT !.schedule = "malformed"]

(* No Report reads another one.                                            *)
Standalone == [r \in Reports |-> {}]

(* Every Report reads the ones of SubReports.                              *)
CONSTANT SubReports
Rollup == [r \in Reports |-> IF r \in SubReports THEN {} ELSE SubReports]

(* What users turn a Report into.                                          *)
AllKinds == { Scheduled(1, Null), Scheduled(1, 3), Forced(Scheduled(0, 3)),
              Overwriting(Scheduled(Null, 3)), Malformed, RunOnce(0, 2), RunOnce(0, Null) }

(* A Report whose reportingEnd is set, moved back or removed.              *)
OpenOrEnded == {Scheduled(0, Null), Scheduled(0, 1)}
=============================================================================
