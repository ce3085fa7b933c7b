---------------------------- MODULE ReportPeriods ----------------------------
(***************************************************************************)
(* The pure part of the Report controller (pkg/operator/reports.go): when  *)
(* a Report is finished, when its spec is valid, and which reporting       *)
(* period a sync works on.  Instants are naturals, an unset *metav1.Time   *)
(* is Null, and the cron schedule is the operator NextTime: the first      *)
(* activation strictly later than its argument.                            *)
(***************************************************************************)
EXTENDS Integers

CONSTANTS
  Null,          \* an unset pointer
  NextTime(_)    \* schedule.Next of the cron library

ASSUME NullAssumption == Null \notin Nat
(* What the cron library promises of Next.  It quantifies over all         *)
(* instants, so the theorems take it as a hypothesis.                      *)
ScheduleAdvances == \A t \in Nat : NextTime(t) \in Nat /\ NextTime(t) > t

OptTime == Nat \cup {Null}

Period == [start : Nat, end : Nat]

(***************************************************************************)
(* Report.Spec, as far as the controller's decisions read it.  "cron" is a *)
(* schedule that getSchedule accepts, "malformed" one that it rejects.     *)
(***************************************************************************)
ReportSpec ==
  [ start          : OptTime,
    end            : OptTime,
    schedule       : {"none", "cron", "malformed"},
    runImmediately : BOOLEAN,
    overwrite      : BOOLEAN ]

(* The reason of the Running condition; its status is True exactly for     *)
(* "Scheduled" and "RunImmediately".  "New" is a Report with no condition. *)
Reasons == { "New", "Waiting", "Unmet", "Invalid", "Scheduled",
             "RunImmediately", "Failed", "Finished" }

(***************************************************************************)
(* A Report object.  phase folds existence and metadata.deletionTimestamp, *)
(* last and next are Status.LastReportTime and Status.NextReportTime, cond *)
(* is the reason of the Running condition, table says whether              *)
(* Status.TableRef is set.                                                 *)
(***************************************************************************)
Phases == {"absent", "live", "terminating", "gone"}

ReportObject ==
  [ phase     : Phases,
    spec      : ReportSpec,
    last      : OptTime,
    next      : OptTime,
    cond      : Reasons,
    table     : BOOLEAN,
    finalizer : BOOLEAN ]

Exists(o) == o.phase \in {"live", "terminating"}

isReportFinished(o) ==
  /\ o.cond = "Finished"
  /\ \/ o.spec.schedule = "none"
     \/ /\ o.spec.end # Null
        /\ o.last # Null => o.spec.end <= o.last

(* The part of validateReport that looks at the spec alone.                *)
SpecIsValid(s) ==
  /\ s.start # Null /\ s.end # Null => s.start < s.end
  /\ s.runImmediately => s.end # Null

getNextReportPeriod(lastScheduled) ==
  [start |-> lastScheduled, end |-> NextTime(lastScheduled)]

getRunOnceReportPeriod(s) == [start |-> s.start, end |-> s.end]

(* getReportPeriod returns an error: getSchedule rejects the schedule, or  *)
(* a run-once Report lacks one of its bounds.                              *)
PeriodFails(s) ==
  \/ s.schedule = "malformed"
  \/ s.schedule = "none" /\ (s.start = Null \/ s.end = Null)

(* No LastReportTime, no ReportingStart and no NextReportTime yet: the     *)
(* first full period after now is chosen and remembered.                   *)
PicksFirstPeriod(o) ==
  /\ o.spec.schedule = "cron"
  /\ o.last = Null /\ o.spec.start = Null /\ o.next = Null

ScheduledStart(now, o) ==
  CASE o.last # Null                                            -> o.last
    [] o.last = Null /\ o.spec.start # Null                     -> o.spec.start
    [] o.last = Null /\ o.spec.start = Null /\ o.next # Null    -> o.next
    [] OTHER                                                    -> NextTime(now)

(* The period before it is cut at ReportingEnd; reports.go:329 panics when *)
(* this one is reversed.                                                   *)
FullPeriod(now, o) ==
  IF o.spec.schedule = "cron"
  THEN getNextReportPeriod(ScheduledStart(now, o))
  ELSE getRunOnceReportPeriod(o.spec)

getReportPeriod(now, o) ==
  LET full == FullPeriod(now, o) IN
  IF o.spec.end # Null /\ full.end > o.spec.end
  THEN [full EXCEPT !.end = o.spec.end]
  ELSE full

(* What getReportPeriod leaves in the caller's Status.NextReportTime.      *)
nextReportTimeAfter(now, o) ==
  IF PicksFirstPeriod(o) THEN NextTime(now) ELSE o.next

(* The period that ends at e was the last one, or another one follows.     *)
ReachedEnd(o, e) == o.spec.end # Null /\ e = o.spec.end

HasNextPeriod(o, e) == ~ReachedEnd(o, e) /\ o.spec.schedule = "cron"

(* The Report after GenerateReport succeeded for a period ending at e.     *)
AfterReport(o, e) ==
  IF ReachedEnd(o, e) THEN [o EXCEPT !.last = e, !.cond = "Finished"]
  ELSE IF HasNextPeriod(o, e)
       THEN [o EXCEPT !.last = e, !.next = NextTime(e), !.cond = "Waiting"]
       ELSE [o EXCEPT !.last = e]
=============================================================================
