----------------------- MODULE ReportControllerProofs -----------------------
(***************************************************************************)
(* Proofs about ReportController, for any number of Reports and workers,   *)
(* every schedule that advances, every bound and whatever specs users      *)
(* write: types, the ledger of a Report (what its table holds, what its    *)
(* status records and what a worker in the middle of a sync believes), and *)
(* what a Report's rows and status may be relied on for.                   *)
(***************************************************************************)
EXTENDS ReportController, TLAPS

-----------------------------------------------------------------------------
(* Types of the operators                                                  *)

(* The locals of an idle worker are well-typed.                            *)
LEMMA NoTypes == NoReport \in ReportObject /\ NoPeriod \in Period
  BY DEF NoReport, NoSpec, NoPeriod, ReportObject, ReportSpec, OptTime, Phases, Reasons, Period

(* getReportPeriod returns a period, and a time for NextReportTime, when   *)
(* it returns no error.                                                    *)
LEMMA PeriodType ==
  ASSUME ScheduleAdvances, NEW t \in Nat, NEW o \in ReportObject, ~PeriodFails(o.spec)
  PROVE  /\ getReportPeriod(t, o) \in Period
         /\ nextReportTimeAfter(t, o) \in OptTime
  <1>1. /\ o.spec \in ReportSpec /\ o.last \in OptTime /\ o.next \in OptTime
    BY DEF ReportObject
  <1>2. /\ o.spec.start \in OptTime /\ o.spec.end \in OptTime
        /\ o.spec.schedule \in {"none", "cron", "malformed"}
    BY <1>1 DEF ReportSpec
  <1>3. NextTime(t) \in Nat
    BY DEF ScheduleAdvances
  <1>4. ScheduledStart(t, o) \in Nat
    BY <1>1, <1>2, <1>3 DEF ScheduledStart, OptTime
  <1>5. FullPeriod(t, o) \in Period
    <2>1. CASE o.spec.schedule = "cron"
      BY <1>4, <2>1 DEF FullPeriod, getNextReportPeriod, Period, ScheduleAdvances
    <2>2. CASE o.spec.schedule = "none"
      BY <1>2, <2>2 DEF FullPeriod, getRunOnceReportPeriod, Period, PeriodFails, OptTime
    <2> QED BY <1>2, <2>1, <2>2 DEF PeriodFails
  <1>6. getReportPeriod(t, o) \in Period
    BY <1>2, <1>5 DEF getReportPeriod, Period, OptTime
  <1> QED BY <1>1, <1>3, <1>6 DEF nextReportTimeAfter, OptTime

(* The status after a report is a status.                                  *)
LEMMA AfterReportType ==
  ASSUME ScheduleAdvances, NEW o \in ReportObject, NEW e \in Nat
  PROVE  AfterReport(o, e) \in ReportObject
  <1>1. NextTime(e) \in Nat
    BY DEF ScheduleAdvances
  <1> QED BY <1>1 DEF AfterReport, ReportObject, OptTime, Reasons

(* What the API server stores for an object is an object.                  *)
LEMMA StoredType == \A o \in ReportObject : Stored(o) \in ReportObject
  BY DEF Stored, ReportObject, Phases

-----------------------------------------------------------------------------
(* Type correctness, one group of variables at a time                      *)

ApiOK == /\ api \in [Reports -> ReportObject]
         /\ cache \in [Reports -> ReportObject]
         /\ cacheCur \in [Reports -> BOOLEAN]

QueueOK == /\ queue \subseteq Reports
           /\ timer \in [Reports -> OptTime]
           /\ requeues \in [Reports -> 0..MaxRequeues]
           /\ dropped \subseteq Reports

WorkOK == /\ pc \in [Reports -> Steps]
          /\ obj \in [Reports -> ReportObject]
          /\ cur \in [Reports -> BOOLEAN]
          /\ period \in [Reports -> Period]
          /\ read \in [Reports -> Read]

ImportOK == imported \in Import /\ coverage \in Import

TableOK == rows \in [Reports -> Seq(Row)] /\ wiped \in [Reports -> BOOLEAN]

HistOK == /\ redone \in [Reports -> BOOLEAN]
          /\ rescoped \in [Reports -> BOOLEAN]
          /\ first \in [Reports -> OptTime]

EnvOK == /\ now \in Nat
         /\ queryReady \in [Reports -> BOOLEAN]
         /\ edits \in 0..MaxEdits
         /\ faults \in 0..MaxFaults

(* TypeOK is the conjunction of its groups.                                *)
LEMMA TypeGroups ==
  /\ TypeOK <=> /\ ApiOK /\ QueueOK /\ WorkOK /\ ImportOK
                /\ TableOK /\ HistOK /\ EnvOK
  /\ TypeOK' <=> /\ ApiOK' /\ QueueOK' /\ WorkOK' /\ ImportOK'
                 /\ TableOK' /\ HistOK' /\ EnvOK'
  BY DEF TypeOK, ApiOK, QueueOK, WorkOK, ImportOK, TableOK, HistOK, EnvOK

(* A group that does not change stays well-typed.                          *)
LEMMA GroupsUnchanged ==
  /\ ApiOK /\ UNCHANGED apiVars => ApiOK'
  /\ QueueOK /\ UNCHANGED queueVars => QueueOK'
  /\ WorkOK /\ UNCHANGED workVars => WorkOK'
  /\ ImportOK /\ UNCHANGED importVars => ImportOK'
  /\ TableOK /\ UNCHANGED tableVars => TableOK'
  /\ HistOK /\ UNCHANGED histVars => HistOK'
  /\ EnvOK /\ UNCHANGED envVars => EnvOK'
  BY DEF ApiOK, QueueOK, WorkOK, ImportOK, TableOK, HistOK, EnvOK,
         apiVars, queueVars, workVars, importVars, tableVars, histVars, envVars

(* What runReport reads is well-typed.                                     *)
LEMMA ReadType ==
  /\ NoImport \in Import /\ NothingRead \in Read
  /\ now \in Nat /\ cache \in [Reports -> ReportObject] /\ coverage \in Import =>
       \A r \in Reports : ReadNow(r) \in Read
  <1>1. NoImport \in Import
    BY DEF NoImport, Import, OptTime
  <1>2. NothingRead \in Read
    BY <1>1 DEF NothingRead, Read, OptTime
  <1>3. ASSUME now \in Nat, cache \in [Reports -> ReportObject], coverage \in Import,
               NEW r \in Reports
        PROVE  ReadNow(r) \in Read
    <2>1. \A s \in Reports : cache[s].last \in OptTime /\ Null \in OptTime
      BY <1>3 DEF ReportObject, OptTime
    <2>2. [s \in Reports |-> IF s \in DependsOn[r] THEN cache[s].last ELSE Null]
            \in [Reports -> OptTime]
      BY <2>1
    <2> QED BY <1>1, <1>3, <2>2 DEF ReadNow, Read
  <1> QED BY <1>1, <1>2, <1>3

(* The end of a sync, and the number of faults, are well-typed.            *)
LEMMA ReleaseType ==
  ASSUME WorkOK, NEW r \in Reports, Release(r)
  PROVE  WorkOK'
  BY NoTypes, ReadType DEF WorkOK, Release, Steps

(* A worker that moves on with a new copy stays well-typed.                *)
LEMMA MoveType ==
  ASSUME WorkOK, NEW r \in Reports, NEW step \in Steps, NEW copy \in ReportObject,
         pc' = [pc EXCEPT ![r] = step], obj' = [obj EXCEPT ![r] = copy],
         cur' \in [Reports -> BOOLEAN],
         period' \in [Reports -> Period], read' \in [Reports -> Read]
  PROVE  WorkOK'
  BY DEF WorkOK

LEMMA FaultType ==
  ASSUME faults \in 0..MaxFaults, Fault \/ UNCHANGED faults
  PROVE  faults' \in 0..MaxFaults
  BY ControllerAssumption DEF Fault

(* The delaying queue stays well-typed.                                    *)
LEMMA DelayType ==
  ASSUME timer \in [Reports -> OptTime], NEW r \in Reports, NEW t \in Nat, Delay(r, t)
  PROVE  timer' \in [Reports -> OptTime]
  BY DEF Delay, Sooner, OptTime

LEMMA enqueueType ==
  ASSUME QueueOK, now \in Nat, NEW r \in Reports, NEW t \in Nat, enqueueReportAfter(r, t)
  PROVE  queue' \subseteq Reports /\ timer' \in [Reports -> OptTime]
  BY DelayType DEF QueueOK, enqueueReportAfter

(* A retry counter never passes maxRequeues.                               *)
LEMMA FailType ==
  ASSUME QueueOK, WorkOK, now \in Nat, NEW r \in Reports, Fail(r)
  PROVE  QueueOK' /\ WorkOK'
  <1>1. WorkOK'
    BY ReleaseType DEF Fail
  <1>2. timer' \in [Reports -> OptTime]
    BY DelayType DEF Fail, handleErr, QueueOK
  <1>3. requeues' \in [Reports -> 0..MaxRequeues]
    BY ControllerAssumption DEF Fail, handleErr, QueueOK
  <1> QED BY <1>1, <1>2, <1>3 DEF Fail, handleErr, QueueOK

LEMMA ForgetType ==
  ASSUME QueueOK, NEW r \in Reports, Forget(r)
  PROVE  requeues' \in [Reports -> 0..MaxRequeues] /\ dropped' \subseteq Reports
  BY ControllerAssumption DEF Forget, QueueOK

LEMMA SucceedType ==
  ASSUME QueueOK, WorkOK, NEW r \in Reports, Succeed(r)
  PROVE  QueueOK' /\ WorkOK'
  BY ReleaseType, ForgetType DEF Succeed, QueueOK

(* Accepted and refused Updates keep the objects well-typed.               *)
LEMMA AcceptedType ==
  ASSUME ApiOK, WorkOK, NEW r \in Reports, UpdateAccepted(r)
  PROVE  ApiOK'
  <1>1. Stored(obj[r]) \in ReportObject
    BY StoredType DEF WorkOK
  <1> QED BY <1>1 DEF UpdateAccepted, ApiOK

LEMMA RefusedType ==
  ASSUME ApiOK, faults \in 0..MaxFaults, NEW r \in Reports, UpdateRefused(r)
  PROVE  ApiOK' /\ faults' \in 0..MaxFaults
  BY FaultType, GroupsUnchanged DEF UpdateRefused

LEMMA OutdateType ==
  ASSUME ApiOK, WorkOK, NEW r \in Reports, Outdate(r)
  PROVE  WorkOK' /\ cache' \in [Reports -> ReportObject] /\ cacheCur' \in [Reports -> BOOLEAN]
  BY DEF Outdate, ApiOK, WorkOK

(* Whatever DependentsQueued allows is a set of Reports.                   *)
LEMMA DependentsType ==
  ASSUME NEW wanted, NEW S \in DependentsQueued(wanted)
  PROVE  S \subseteq Reports
  BY DEF DependentsQueued

(* Every step of a worker keeps the types.                                 *)
LEMMA WorkerTypeStep ==
  ASSUME ScheduleAdvances, TypeOK, NEW r \in Reports, worker(r)
  PROVE  TypeOK'
  <1> USE TypeGroups, GroupsUnchanged
  <1>0. /\ ApiOK /\ QueueOK /\ WorkOK /\ ImportOK /\ TableOK /\ HistOK /\ EnvOK
        /\ now \in Nat /\ faults \in 0..MaxFaults
        /\ obj[r] \in ReportObject /\ period[r] \in Period /\ cache[r] \in ReportObject
    BY DEF EnvOK, WorkOK, ApiOK
  <1>e. ASSUME UNCHANGED <<now, queryReady, edits>>, faults' \in 0..MaxFaults
        PROVE  EnvOK'
    BY <1>0, <1>e DEF EnvOK
  <1>p. ASSUME UNCHANGED <<importVars, tableVars, histVars, now, queryReady, edits>>,
               \/ UpdateAccepted(r) /\ QueueOK' /\ WorkOK'
               \/ UpdateRefused(r) /\ Fail(r)
        PROVE  TypeOK'
    <2>1. ApiOK' /\ faults' \in 0..MaxFaults
      BY <1>0, <1>p, AcceptedType, RefusedType DEF UpdateAccepted
    <2>2. QueueOK' /\ WorkOK'
      BY <1>0, <1>p, FailType
    <2> QED BY <1>0, <1>p, <1>e, <2>1, <2>2
  <1>1. CASE syncReport(r)
    <2>1. QueueOK'
      BY <1>0, <1>1, ForgetType DEF syncReport, QueueOK
    <2>2. WorkOK'
      <3>1. \A b \in BOOLEAN : [cache[r] EXCEPT !.finalizer = b] \in ReportObject
        BY <1>0 DEF ReportObject
      <3>2. ASSUME NEW step \in Steps, NEW copy \in ReportObject,
                   pc' = [pc EXCEPT ![r] = step], obj' = [obj EXCEPT ![r] = copy],
                   cur' = [cur EXCEPT ![r] = cacheCur[r]], UNCHANGED <<period, read>>
            PROVE  WorkOK'
        BY <1>0, <3>2, MoveType DEF WorkOK, ApiOK
      <3>3. {"removeFinalizer", "addFinalizer", "run"} \subseteq Steps
        BY DEF Steps
      <3>4. CASE UNCHANGED workVars
        BY <1>0, <3>4
      <3>5. CASE UNCHANGED <<period, read>>
        BY <1>0, <1>1, <3>1, <3>2, <3>3, <3>4, <3>5 DEF syncReport
      <3> QED BY <1>1, <3>4, <3>5 DEF syncReport
    <2> QED BY <1>0, <1>1, <2>1, <2>2 DEF syncReport
  <1>2. CASE addReportFinalizer(r)
    <2>1. \/ UpdateAccepted(r) /\ QueueOK' /\ WorkOK'
          \/ UpdateRefused(r) /\ Fail(r)
      BY <1>0, <1>2 DEF addReportFinalizer, WorkOK, Steps, QueueOK, queueVars
    <2> QED BY <1>2, <1>p, <2>1 DEF addReportFinalizer
  <1>3. CASE removeReportFinalizer(r)
    BY <1>0, <1>3, <1>p, SucceedType DEF removeReportFinalizer
  <1>4. CASE runReport(r)
    <2>1. faults' \in 0..MaxFaults
      BY <1>0, <1>4, FaultType DEF runReport
    <2>2. ASSUME Succeed(r) \/ Fail(r)
          PROVE  QueueOK' /\ WorkOK'
      BY <1>0, <2>2, SucceedType, FailType
    <2>3. ASSUME NEW step \in Steps, NEW copy \in ReportObject,
                 pc' = [pc EXCEPT ![r] = step], obj' = [obj EXCEPT ![r] = copy],
                 UNCHANGED <<cur, queueVars>>,
                 period' \in [Reports -> Period], read' \in [Reports -> Read]
          PROVE  QueueOK' /\ WorkOK'
      BY <1>0, <2>3 DEF WorkOK
    <2>4. /\ [obj[r] EXCEPT !.cond = "Invalid"] \in ReportObject
          /\ ~PeriodFails(obj[r].spec) =>
               /\ [obj[r] EXCEPT !.next = nextReportTimeAfter(now, obj[r])] \in ReportObject
               /\ getReportPeriod(now, obj[r]) \in Period
      BY <1>0, PeriodType DEF ReportObject, Reasons
    <2>5. /\ period \in [Reports -> Period] /\ read \in [Reports -> Read]
          /\ {"decide", "createTable", "putInvalid"} \subseteq Steps
      BY <1>0 DEF WorkOK, Steps
    <2>6. QueueOK' /\ WorkOK'
      <3>1. CASE Succeed(r) \/ Fail(r)
        BY <2>2, <3>1
      <3>2. CASE /\ pc' = [pc EXCEPT ![r] = "putInvalid"]
                 /\ obj' = [obj EXCEPT ![r] = [obj[r] EXCEPT !.cond = "Invalid"]]
                 /\ UNCHANGED <<cur, queueVars, period, read>>
        <4>1. "putInvalid" \in Steps
          BY <2>5
        <4> QED BY <2>3, <2>4, <2>5, <3>2, <4>1
      <3>3. CASE /\ ~PeriodFails(obj[r].spec)
                 /\ pc' = [pc EXCEPT ![r] = IF obj[r].table THEN "decide" ELSE "createTable"]
                 /\ obj' = [obj EXCEPT ![r] =
                      [obj[r] EXCEPT !.next = nextReportTimeAfter(now, obj[r])]]
                 /\ UNCHANGED <<cur, queueVars>>
                 /\ period' = [period EXCEPT ![r] = getReportPeriod(now, obj[r])]
                 /\ read' = [read EXCEPT ![r] = ReadNow(r)]
        <4>1. (IF obj[r].table THEN "decide" ELSE "createTable") \in Steps
          BY <2>5
        <4>2. period' \in [Reports -> Period] /\ read' \in [Reports -> Read]
          <5>1. ReadNow(r) \in Read
            BY <1>0, ReadType DEF ApiOK, ImportOK
          <5> QED BY <2>4, <2>5, <3>3, <5>1
        <4> QED BY <2>3, <2>4, <3>3, <4>1, <4>2
      <3> QED BY <1>4, <3>1, <3>2, <3>3 DEF runReport
    <2> QED BY <1>0, <1>4, <1>e, <2>1, <2>6 DEF runReport
  <1>5. CASE setReportStatusInvalidReport(r)
    BY <1>0, <1>5, <1>p, SucceedType DEF setReportStatusInvalidReport
  <1>6. CASE createTable(r)
    <2>1. faults' \in 0..MaxFaults
      BY <1>0, <1>6, FaultType DEF createTable
    <2>2. QueueOK' /\ WorkOK'
      <3>1. CASE Fail(r)
        BY <1>0, <3>1, FailType
      <3>2. CASE ~Fail(r)
        <4>1. "putTable" \in Steps /\ [obj[r] EXCEPT !.table = TRUE] \in ReportObject
          BY <1>0 DEF Steps, ReportObject
        <4> QED BY <1>0, <1>6, <3>2, <4>1, MoveType DEF createTable, WorkOK
      <3> QED BY <3>1, <3>2
    <2> QED BY <1>0, <1>6, <1>e, <2>1, <2>2 DEF createTable
  <1>7. CASE putTable(r)
    <2>1. CASE UpdateRefused(r) /\ Fail(r)
      BY <1>7, <1>p, <2>1 DEF putTable
    <2>2. CASE /\ UpdateAccepted(r)
               /\ pc' = [pc EXCEPT ![r] = "decide"]
               /\ \E S \in DependentsQueued(Dependents(r)) : queue' = queue \cup S
               /\ UNCHANGED <<obj, cur, period, read, timer, requeues, dropped>>
      <3>1. QueueOK'
        BY <1>0, <2>2, DependentsType DEF QueueOK
      <3>2. WorkOK'
        BY <1>0, <2>2 DEF WorkOK, Steps
      <3> QED BY <1>7, <1>p, <2>2, <3>1, <3>2 DEF putTable
    <2> QED BY <1>7, <2>1, <2>2 DEF putTable
  <1>8. CASE decide(r)
    <2>1. UnmetSubReports(r) \subseteq Reports
      BY ControllerAssumption DEF UnmetSubReports
    <2>2. QueueOK'
      BY <1>0, <1>8, <2>1, ForgetType DEF decide, QueueOK
    <2>3. WorkOK'
      <3>1. CASE Release(r)
        BY <1>0, <3>1, ReleaseType
      <3>2. CASE ~Release(r)
        <4>1. \A c \in Reasons : [obj[r] EXCEPT !.cond = c] \in ReportObject
          BY <1>0 DEF ReportObject
        <4>2. /\ {"putWaiting", "putUnmet", "putRunning"} \subseteq Steps
              /\ {"Waiting", "Unmet", "RunImmediately", "Scheduled"} \subseteq Reasons
          BY DEF Steps, Reasons
        <4>3. PICK step \in Steps, c \in Reasons :
                 /\ pc' = [pc EXCEPT ![r] = step]
                 /\ obj' = [obj EXCEPT ![r] = [obj[r] EXCEPT !.cond = c]]
                 /\ UNCHANGED <<cur, period, read>>
          BY <1>0, <1>8, <3>2, <4>2 DEF decide, WorkOK
        <4> QED BY <1>0, <4>1, <4>3, MoveType DEF WorkOK
      <3> QED BY <3>1, <3>2
    <2> QED BY <1>0, <1>8, <2>2, <2>3 DEF decide
  <1>9. CASE putWaiting(r)
    <2>1. CASE UpdateRefused(r) /\ Fail(r)
      BY <1>9, <1>p, <2>1 DEF putWaiting
    <2>2. CASE /\ UpdateAccepted(r)
               /\ enqueueReportAfter(r, now + (period[r].end - read[r].now))
               /\ Release(r) /\ Forget(r)
      <3>1. period[r].end \in Nat /\ read[r].now \in Nat
        BY <1>0 DEF WorkOK, Period, Read
      <3>2. QueueOK'
        <4> DEFINE at == now + (period[r].end - read[r].now)
        <4>1. at \in Int
          BY <1>0, <3>1
        <4>2. CASE at <= now
          BY <1>0, <2>2, <4>2, ForgetType DEF enqueueReportAfter, QueueOK
        <4>3. CASE ~(at <= now)
          <5>1. at \in Nat
            BY <1>0, <4>1, <4>3
          <5> QED BY <1>0, <2>2, <5>1, enqueueType, ForgetType DEF QueueOK
        <4> QED BY <4>2, <4>3
      <3>3. WorkOK'
        BY <1>0, <2>2, ReleaseType
      <3> QED BY <1>9, <1>p, <2>2, <3>2, <3>3 DEF putWaiting
    <2> QED BY <1>9, <2>1, <2>2 DEF putWaiting
  <1>10. CASE putUnmet(r)
    BY <1>0, <1>10, <1>p, SucceedType DEF putUnmet
  <1>11. CASE putRunning(r)
    <2>1. \/ UpdateAccepted(r) /\ QueueOK' /\ WorkOK'
          \/ UpdateRefused(r) /\ Fail(r)
      BY <1>0, <1>11 DEF putRunning, WorkOK, Steps, QueueOK, queueVars
    <2> QED BY <1>11, <1>p, <2>1 DEF putRunning
  <1>12. CASE renderAndDelete(r)
    <2>1. faults' \in 0..MaxFaults
      BY <1>0, <1>12, FaultType DEF renderAndDelete
    <2>2. QueueOK' /\ WorkOK'
      <3>1. CASE Fail(r)
        BY <1>0, <3>1, FailType
      <3>2. CASE ~Fail(r)
        <4>1. /\ "insert" \in Steps /\ "putFailed" \in Steps
              /\ [obj[r] EXCEPT !.cond = "Failed"] \in ReportObject
          BY <1>0 DEF Steps, ReportObject, Reasons
        <4> QED BY <1>0, <1>12, <3>2, <4>1, MoveType DEF renderAndDelete, WorkOK
      <3> QED BY <3>1, <3>2
    <2>3. TableOK'
      <3>1. obj[r].spec.overwrite \in BOOLEAN
        BY <1>0 DEF ReportObject, ReportSpec
      <3>2. rows' \in [Reports -> Seq(Row)]
        <4>1. << >> \in Seq(Row)
          OBVIOUS
        <4> QED BY <1>0, <1>12, <4>1 DEF renderAndDelete, TableOK, tableVars
      <3>3. wiped' \in [Reports -> BOOLEAN]
        BY <1>0, <1>12, <3>1 DEF renderAndDelete, TableOK, tableVars
      <3> QED BY <3>2, <3>3 DEF TableOK
    <2> QED BY <1>0, <1>12, <1>e, <2>1, <2>2, <2>3 DEF renderAndDelete
  <1>13. CASE insertResults(r)
    <2>1. faults' \in 0..MaxFaults
      BY <1>0, <1>13, FaultType DEF insertResults
    <2>2. period[r].start \in Nat /\ period[r].end \in Nat
      BY <1>0 DEF Period
    <2>3. AfterReport(obj[r], period[r].end) \in ReportObject
      BY <1>0, <2>2, AfterReportType
    <2>4. WorkOK'
      <3>1. /\ "putFinal" \in Steps /\ "putFailed" \in Steps
            /\ [obj[r] EXCEPT !.cond = "Failed"] \in ReportObject
        BY <1>0 DEF Steps, ReportObject, Reasons
      <3> QED BY <1>0, <1>13, <2>3, <3>1, MoveType DEF insertResults, WorkOK
    <2>5. TableOK'
      <3>1. obj[r].spec.runImmediately \in BOOLEAN
        BY <1>0 DEF ReportObject, ReportSpec
      <3>2. [start |-> period[r].start, end |-> period[r].end,
             forced |-> obj[r].spec.runImmediately] \in Row
        BY <2>2, <3>1 DEF Row
      <3> DEFINE row == [start |-> period[r].start, end |-> period[r].end,
                         forced |-> obj[r].spec.runImmediately]
      <3>3. Append(rows[r], row) \in Seq(Row)
        BY <1>0, <3>2 DEF TableOK
      <3>4. UNCHANGED wiped /\ (UNCHANGED rows \/ rows' = [rows EXCEPT ![r] = Append(@, row)])
        BY <1>13 DEF insertResults
      <3> QED BY <1>0, <3>3, <3>4 DEF TableOK
    <2>6. HistOK'
      BY <1>0, <1>13, <2>2 DEF insertResults, HistOK
    <2>7. QueueOK'
      <3>1. NextTime(period[r].end) \in Nat
        BY <2>2 DEF ScheduleAdvances
      <3>2. CASE UNCHANGED <<queue, timer>>
        BY <1>0, <1>13, <3>2 DEF insertResults, QueueOK
      <3>3. CASE enqueueReportAfter(r, NextTime(period[r].end))
        <4>1. queue' \subseteq Reports /\ timer' \in [Reports -> OptTime]
          BY <1>0, <3>1, <3>3, enqueueType
        <4> QED BY <1>0, <1>13, <4>1 DEF insertResults, QueueOK
      <3> QED BY <1>13, <3>2, <3>3 DEF insertResults
    <2> QED BY <1>0, <1>13, <1>e, <2>1, <2>4, <2>5, <2>6, <2>7 DEF insertResults, apiVars
  <1>14. CASE putFailed(r)
    <2>1. QueueOK' /\ WorkOK'
      BY <1>0, <1>14, FailType DEF putFailed
    <2> QED BY <1>14, <1>p, <2>1 DEF putFailed
  <1>15. CASE putFinal(r)
    <2>1. ApiOK' /\ faults' \in 0..MaxFaults
      BY <1>0, <1>15, AcceptedType, RefusedType DEF putFinal, UpdateAccepted
    <2>2. period[r].start \in Nat
      BY <1>0 DEF Period
    <2>3. HistOK'
      BY <1>0, <1>15, <2>2 DEF putFinal, HistOK, OptTime
    <2>4. QueueOK' /\ WorkOK'
      <3>1. CASE Fail(r)
        BY <1>0, <3>1, FailType
      <3>2. CASE ~Fail(r)
        <4>1. Release(r) /\ Forget(r) /\ UNCHANGED timer
          BY <1>15, <3>2 DEF putFinal
        <4>2. PICK S \in DependentsQueued(Dependents(r)) : queue' = queue \cup S
          BY <1>15, <3>2 DEF putFinal
        <4> QED BY <1>0, <4>1, <4>2, DependentsType, ReleaseType, ForgetType DEF QueueOK
      <3> QED BY <3>1, <3>2
    <2> QED BY <1>0, <1>15, <1>e, <2>1, <2>3, <2>4 DEF putFinal
  <1> QED BY <1>1, <1>2, <1>3, <1>4, <1>5, <1>6, <1>7, <1>8, <1>9, <1>10, <1>11, <1>12,
             <1>13, <1>14, <1>15 DEF worker

(* Every other step keeps the types too.                                   *)
LEMMA EnvironmentTypeStep ==
  ASSUME TypeOK,
         \/ \E r \in Reports : deliver(r) \/ fireTimer(r) \/ user(r)
         \/ \E some \in BOOLEAN : importMetrics(some)
         \/ publishImport \/ tick \/ restart
  PROVE  TypeOK'
  <1> USE TypeGroups, GroupsUnchanged
  <1>0. /\ ApiOK /\ QueueOK /\ WorkOK /\ ImportOK /\ TableOK /\ HistOK /\ EnvOK
        /\ now \in Nat /\ faults \in 0..MaxFaults
    BY DEF EnvOK
  <1>1. ASSUME NEW r \in Reports, deliver(r) PROVE TypeOK'
    <2>1. ApiOK' /\ QueueOK'
      BY <1>0, <1>1 DEF deliver, ApiOK, QueueOK
    <2> QED BY <1>0, <1>1, <2>1 DEF deliver
  <1>2. ASSUME NEW r \in Reports, fireTimer(r) PROVE TypeOK'
    <2>1. QueueOK'
      BY <1>0, <1>2 DEF fireTimer, QueueOK, OptTime
    <2> QED BY <1>0, <1>2, <2>1 DEF fireTimer
  <1>3. ASSUME NEW r \in Reports, user(r) PROVE TypeOK'
    <2>e. ASSUME Edit, UNCHANGED <<now, queryReady, faults>> PROVE EnvOK'
      BY <1>0, <2>e, ControllerAssumption DEF Edit, EnvOK
    <2>1. ASSUME NEW s \in UserSpecs, createReport(r, s) PROVE TypeOK'
      <3>1. s \in ReportSpec
        BY ControllerAssumption
      <3>2. [NoReport EXCEPT !.phase = "live", !.spec = s] \in ReportObject
        BY <3>1, NoTypes DEF ReportObject, Phases
      <3>3. ApiOK' /\ WorkOK'
        BY <1>0, <2>1, <3>2, OutdateType DEF createReport, ApiOK
      <3> QED BY <1>0, <2>1, <2>e, <3>3 DEF createReport
    <2>2. ASSUME NEW s \in UserSpecs, editReport(r, s) PROVE TypeOK'
      <3>1. s \in ReportSpec
        BY ControllerAssumption
      <3>2. [api[r] EXCEPT !.spec = s] \in ReportObject
        BY <1>0, <3>1 DEF ReportObject, ApiOK
      <3>3. ApiOK' /\ WorkOK'
        BY <1>0, <2>2, <3>2, OutdateType DEF editReport, ApiOK
      <3>4. HistOK'
        BY <1>0, <2>2 DEF editReport, HistOK
      <3> QED BY <1>0, <2>2, <2>e, <3>3, <3>4 DEF editReport
    <2>3. CASE deleteReport(r)
      <3>1. \A p \in Phases : [api[r] EXCEPT !.phase = p] \in ReportObject
        BY <1>0 DEF ReportObject, ApiOK
      <3>2. {"terminating", "gone"} \subseteq Phases
        BY DEF Phases
      <3>3. ApiOK' /\ WorkOK'
        BY <1>0, <2>3, <3>1, <3>2, OutdateType DEF deleteReport, ApiOK
      <3> QED BY <1>0, <2>3, <2>e, <3>3 DEF deleteReport
    <2>4. CASE createReportQuery(r)
      <3>1. EnvOK'
        BY <1>0, <2>4 DEF createReportQuery, EnvOK
      <3> QED BY <1>0, <2>4, <3>1 DEF createReportQuery
    <2> QED BY <1>3, <2>1, <2>2, <2>3, <2>4 DEF user
  <1>4. ASSUME NEW some \in BOOLEAN, importMetrics(some) PROVE TypeOK'
    <2>1. ImportOK'
      BY <1>0, <1>4, ControllerAssumption DEF importMetrics, ImportOK, Import, OptTime
    <2>2. QueueOK'
      BY <1>0, <1>4, DependentsType DEF importMetrics, QueueOK
    <2> QED BY <1>0, <1>4, <2>1, <2>2 DEF importMetrics
  <1>5. CASE publishImport
    <2>1. ImportOK'
      BY <1>0, <1>5 DEF publishImport, ImportOK
    <2> QED BY <1>0, <1>5, <2>1 DEF publishImport
  <1>6. CASE tick
    <2>1. EnvOK'
      BY <1>0, <1>6 DEF tick, EnvOK
    <2> QED BY <1>0, <1>6, <2>1 DEF tick
  <1>7. CASE restart
    <2>1. ApiOK'
      BY <1>0, <1>7 DEF restart, ApiOK
    <2>2. QueueOK'
      BY <1>0, <1>7, ControllerAssumption DEF restart, QueueOK, OptTime
    <2>3. WorkOK'
      BY <1>0, <1>7, NoTypes, ReadType DEF restart, WorkOK, Steps
    <2>4. HistOK'
      BY <1>0, <1>7 DEF restart, HistOK
    <2>5. EnvOK'
      BY <1>0, <1>7, FaultType DEF restart, EnvOK
    <2> QED BY <1>0, <1>7, <2>1, <2>2, <2>3, <2>4, <2>5 DEF restart
  <1> QED BY <1>1, <1>2, <1>3, <1>4, <1>5, <1>6, <1>7

(* The initial state is well-typed.                                        *)
LEMMA TypeInit == Init => TypeOK
  <1> SUFFICES ASSUME Init PROVE TypeOK
    OBVIOUS
  <1>1. rows \in [Reports -> Seq(Row)]
    <2>1. << >> \in Seq(Row)
      OBVIOUS
    <2> QED BY <2>1 DEF Init
  <1>2. api \in [Reports -> ReportObject] /\ period \in [Reports -> Period]
    BY NoTypes DEF Init
  <1>3. read \in [Reports -> Read] /\ imported \in Import /\ coverage \in Import
    BY ReadType DEF Init
  <1> QED
    BY <1>1, <1>2, <1>3, ControllerAssumption DEF Init, TypeOK, OptTime, Steps

LEMMA TypeStep ==
  ASSUME ScheduleAdvances, TypeOK, [Next]_vars
  PROVE  TypeOK'
  <1>1. CASE Next
    BY <1>1, WorkerTypeStep, EnvironmentTypeStep DEF Next
  <1>2. CASE UNCHANGED vars
    BY <1>2, TypeGroups, GroupsUnchanged DEF vars
  <1> QED BY <1>1, <1>2

(***************************************************************************)
(* Type correctness of every behaviour, and with it that the retry counter *)
(* of a key never passes maxRequeues.                                      *)
(***************************************************************************)
THEOREM TypeCorrect ==
  ASSUME ScheduleAdvances
  PROVE  Spec => []TypeOK
  <1>1. TypeOK /\ [Next]_vars => TypeOK'
    BY TypeStep
  <1> QED BY <1>1, TypeInit, PTL DEF Spec

-----------------------------------------------------------------------------
(* The inductive invariant behind ExactlyOnce and NoLostPeriod             *)

(* The steps at which runReport has chosen the period and not stored it.   *)
Planned == { "createTable", "putTable", "decide", "putWaiting", "putUnmet",
             "putRunning", "generate", "insert" }

(* A copy with the stored resourceVersion agrees with the stored object.   *)
CopiesSound(r) ==
  /\ cacheCur[r] => cache[r] = api[r]
  /\ pc[r] = "idle" => ~cur[r]
  /\ cur[r] => /\ obj[r].spec = api[r].spec
               /\ pc[r] # "putFinal" => obj[r].last = api[r].last
               /\ pc[r] \in {"run", "addFinalizer", "removeFinalizer"} =>
                    obj[r].cond = api[r].cond

(* A sync works on a Report that was there; one that never was has no past.*)
ObjectsExist(r) ==
  /\ api[r].phase = "absent" => api[r].last = Null
  /\ pc[r] # "idle" => Exists(obj[r])

(* A run-once Report that has reported is finished and is not run again.   *)
RunOnceOnce(r) ==
  ~rescoped[r] =>
    /\ api[r].last # Null /\ api[r].spec.schedule = "none" => api[r].cond = "Finished"
    /\ cur[r] /\ pc[r] \in Planned \cup {"putInvalid", "putFailed"} =>
         obj[r].last = Null \/ obj[r].spec.schedule # "none"
    /\ pc[r] \in {"generate", "insert"} =>
         obj[r].last = Null \/ obj[r].spec.schedule # "none"

(* The period that is worked on starts where the copy says reporting       *)
(* stopped; a run-once period is the whole of the spec.                    *)
PeriodSound(r) ==
  /\ pc[r] \in Planned =>
       /\ obj[r].spec.schedule # "none" /\ obj[r].last # Null => period[r].start = obj[r].last
       /\ obj[r].spec.schedule = "none" => period[r].end = obj[r].spec.end
                                          /\ obj[r].spec.end # Null
  /\ pc[r] \in {"generate", "insert"} => obj[r].last = api[r].last
  /\ pc[r] = "putFinal" =>
       /\ obj[r].last = period[r].end
       /\ obj[r].spec.schedule = "none" => obj[r].cond = "Finished"
       /\ api[r].last # Null /\ ~rescoped[r] => period[r].start = api[r].last
       /\ Len(rows[r]) > 0
       /\ rows[r][Len(rows[r])].start = period[r].start
       /\ rows[r][Len(rows[r])].end = period[r].end

(* ExactlyOnce and NoLostPeriod of one Report.                             *)
Once(r) ==
  ~redone[r] /\ ~rescoped[r] /\ ~wiped[r] =>
    /\ Chain(rows[r])
    /\ api[r].last = IF Recorded(r) = 0 THEN Null ELSE rows[r][Recorded(r)].end

Covered(r) ==
  api[r].last # Null =>
    /\ first[r] # Null
    /\ ~rescoped[r] /\ ~wiped[r] =>
         \A t \in first[r]..(api[r].last - 1) :
           \E i \in 1..Len(rows[r]) : rows[r][i].start <= t /\ t < rows[r][i].end

LedgerInv(r) ==
  CopiesSound(r) /\ ObjectsExist(r) /\ RunOnceOnce(r) /\ PeriodSound(r) /\ Once(r) /\ Covered(r)

(* What the induction carries: every Report's ledger is in order.          *)
Ledgers == \A r \in Reports : LedgerInv(r)

-----------------------------------------------------------------------------
(* Facts about the operators                                               *)

(* An accepted write stores the copy's spec and status.                    *)
LEMMA StoredSame ==
  ASSUME NEW o \in ReportObject
  PROVE  /\ Stored(o).last = o.last
         /\ Stored(o).spec = o.spec
         /\ Stored(o).cond = o.cond
         /\ Exists(o) => Stored(o).phase # "absent"
  BY DEF Stored, ReportObject, Exists

(* A scheduled period starts at LastReportTime; a run-once period ends at  *)
(* ReportingEnd.                                                           *)
LEMMA PeriodStarts ==
  ASSUME ScheduleAdvances, NEW t \in Nat, NEW o \in ReportObject, ~PeriodFails(o.spec)
  PROVE  /\ o.spec.schedule # "none" /\ o.last # Null =>
              getReportPeriod(t, o).start = o.last
         /\ o.spec.schedule = "none" =>
              getReportPeriod(t, o).end = o.spec.end /\ o.spec.end # Null
  <1>1. /\ o.spec.schedule \in {"none", "cron", "malformed"}
        /\ o.spec.end \in OptTime
        /\ o.last \in OptTime
    BY DEF ReportObject, ReportSpec
  <1>2. CASE o.spec.schedule = "none"
    <2>1. FullPeriod(t, o) = [start |-> o.spec.start, end |-> o.spec.end]
      BY <1>2 DEF FullPeriod, getRunOnceReportPeriod
    <2>2. o.spec.end \in Nat /\ o.spec.end # Null
      BY <1>1, <1>2, NullAssumption DEF PeriodFails, OptTime
    <2> QED BY <1>2, <2>1, <2>2 DEF getReportPeriod
  <1>3. CASE o.spec.schedule = "cron" /\ o.last # Null
    <2>1. ScheduledStart(t, o) = o.last
      BY <1>3 DEF ScheduledStart
    <2>2. FullPeriod(t, o) = [start |-> o.last, end |-> NextTime(o.last)]
      BY <1>3, <2>1 DEF FullPeriod, getNextReportPeriod
    <2> QED BY <1>3, <2>2 DEF getReportPeriod
  <1> QED BY <1>1, <1>2, <1>3 DEF PeriodFails

(* LastReportTime, spec and condition after a report.                      *)
LEMMA AfterReportSame ==
  ASSUME NEW o \in ReportObject, NEW e \in Nat
  PROVE  /\ AfterReport(o, e).last = e
         /\ AfterReport(o, e).spec = o.spec
         /\ AfterReport(o, e).phase = o.phase
         /\ e = o.spec.end /\ o.spec.end # Null => AfterReport(o, e).cond = "Finished"
  BY DEF AfterReport, ReportObject, ReachedEnd, HasNextPeriod

-----------------------------------------------------------------------------
(* Frames                                                                  *)

(* Nothing of the ledger of r changes.                                     *)
Same(r) ==
  /\ api'[r] = api[r] /\ cache'[r] = cache[r] /\ cacheCur'[r] = cacheCur[r]
  /\ pc'[r] = pc[r] /\ obj'[r] = obj[r] /\ cur'[r] = cur[r] /\ period'[r] = period[r]
  /\ rows'[r] = rows[r] /\ wiped'[r] = wiped[r]
  /\ redone'[r] = redone[r] /\ rescoped'[r] = rescoped[r] /\ first'[r] = first[r]

LEMMA Frame ==
  ASSUME NEW r \in Reports, LedgerInv(r), Same(r)
  PROVE  LedgerInv(r)'
  <1>1. CopiesSound(r)' /\ ObjectsExist(r)'
    BY DEF LedgerInv, Same, CopiesSound, ObjectsExist, Exists
  <1>2. RunOnceOnce(r)'
    BY DEF LedgerInv, Same, RunOnceOnce
  <1>3. PeriodSound(r)'
    BY DEF LedgerInv, Same, PeriodSound
  <1>4. Once(r)'
    BY DEF LedgerInv, Same, Once, Recorded
  <1>5. Covered(r)'
    BY DEF LedgerInv, Same, Covered
  <1> QED BY <1>1, <1>2, <1>3, <1>4, <1>5 DEF LedgerInv

(* A worker's step on one Report leaves the ledgers of the others alone.   *)
LEMMA WorkerFrame ==
  ASSUME TypeOK, NEW r \in Reports, worker(r), NEW q \in Reports, q # r
  PROVE  Same(q)
  <1> USE DEF apiVars, queueVars, workVars, tableVars, histVars, Release,
              UpdateAccepted, UpdateRefused, Succeed, Fail, TypeOK
  <1>1. CASE syncReport(r)
    BY <1>1 DEF syncReport, Same
  <1>2. CASE addReportFinalizer(r)
    BY <1>2 DEF addReportFinalizer, Same
  <1>3. CASE removeReportFinalizer(r)
    BY <1>3 DEF removeReportFinalizer, Same
  <1>4. CASE runReport(r)
    BY <1>4 DEF runReport, Same
  <1>5. CASE setReportStatusInvalidReport(r)
    BY <1>5 DEF setReportStatusInvalidReport, Same
  <1>6. CASE createTable(r)
    BY <1>6 DEF createTable, Same
  <1>7. CASE putTable(r)
    BY <1>7 DEF putTable, Same
  <1>8. CASE decide(r)
    BY <1>8 DEF decide, Same
  <1>9. CASE putWaiting(r)
    BY <1>9 DEF putWaiting, Same
  <1>10. CASE putUnmet(r)
    BY <1>10 DEF putUnmet, Same
  <1>11. CASE putRunning(r)
    BY <1>11 DEF putRunning, Same
  <1>12. CASE renderAndDelete(r)
    BY <1>12 DEF renderAndDelete, Same
  <1>13. CASE insertResults(r)
    BY <1>13 DEF insertResults, Same
  <1>14. CASE putFailed(r)
    BY <1>14 DEF putFailed, Same
  <1>15. CASE putFinal(r)
    BY <1>15 DEF putFinal, Same
  <1> QED BY <1>1, <1>2, <1>3, <1>4, <1>5, <1>6, <1>7, <1>8, <1>9, <1>10, <1>11, <1>12,
             <1>13, <1>14, <1>15 DEF worker

(* The table and the history of a Report do not change.                    *)
BooksSame(r) ==
  /\ rows'[r] = rows[r] /\ wiped'[r] = wiped[r] /\ rescoped'[r] = rescoped[r]
  /\ first'[r] = first[r]

(* A sync that ends without writing keeps the ledger; if it had stored a   *)
(* period already, that period is redone.                                  *)
LEMMA EndOfSync ==
  ASSUME TypeOK, NEW r \in Reports, LedgerInv(r), Release(r), UNCHANGED apiVars,
         BooksSame(r), redone[r] => redone'[r], pc[r] = "putFinal" => redone'[r]
  PROVE  LedgerInv(r)'
  <1>1. pc'[r] = "idle" /\ ~cur'[r]
    BY DEF Release, TypeOK
  <1>2. api'[r] = api[r] /\ cache'[r] = cache[r] /\ cacheCur'[r] = cacheCur[r]
    BY DEF apiVars
  <1>3. CopiesSound(r)' /\ ObjectsExist(r)'
    BY <1>1, <1>2 DEF LedgerInv, CopiesSound, ObjectsExist
  <1>4. RunOnceOnce(r)' /\ PeriodSound(r)'
    BY <1>1, <1>2 DEF LedgerInv, RunOnceOnce, PeriodSound, Planned, BooksSame
  <1>5. Once(r)'
    BY <1>1, <1>2 DEF LedgerInv, Once, Recorded, BooksSame
  <1>6. Covered(r)'
    BY <1>1, <1>2 DEF LedgerInv, Covered, BooksSame
  <1> QED BY <1>3, <1>4, <1>5, <1>6 DEF LedgerInv

(* An accepted Update before anything is stored: LastReportTime stays, and *)
(* a finished run-once Report stays finished.                              *)
LEMMA Accepted ==
  ASSUME TypeOK, NEW r \in Reports, LedgerInv(r), UpdateAccepted(r),
         pc[r] \in Planned \cup {"addFinalizer", "removeFinalizer", "putInvalid", "putFailed"}
  PROVE  /\ cur[r] /\ cache'[r] = cache[r]
         /\ api'[r].last = api[r].last /\ api'[r].last = obj[r].last
         /\ api'[r].spec = api[r].spec /\ api'[r].spec = obj[r].spec
         /\ api'[r].cond = obj[r].cond /\ api'[r].phase # "absent"
         /\ cacheCur'[r] => cacheCur[r] /\ api'[r] = api[r]
         /\ ~rescoped[r] /\ api[r].last # Null /\ api[r].spec.schedule = "none" =>
              api'[r].cond = "Finished"
  <1>1. /\ cur[r] /\ cache'[r] = cache[r] /\ api'[r] = Stored(obj[r])
        /\ cacheCur'[r] => cacheCur[r] /\ Stored(obj[r]) = api[r]
    BY DEF UpdateAccepted, TypeOK
  <1>2. obj[r] \in ReportObject
    BY DEF TypeOK
  <1>3. /\ pc[r] # "putFinal" /\ pc[r] # "idle"
    BY DEF Planned
  <1>4. obj[r].last = api[r].last /\ obj[r].spec = api[r].spec /\ Exists(obj[r])
    BY <1>1, <1>3 DEF LedgerInv, CopiesSound, ObjectsExist
  <1>5. ~rescoped[r] /\ api[r].last # Null /\ api[r].spec.schedule = "none" =>
          obj[r].cond = "Finished"
    <2>1. CASE pc[r] \in {"addFinalizer", "removeFinalizer"}
      BY <1>1, <2>1 DEF LedgerInv, CopiesSound, RunOnceOnce
    <2>2. CASE pc[r] \in Planned \cup {"putInvalid", "putFailed"}
      BY <1>1, <1>4, <2>2 DEF LedgerInv, RunOnceOnce
    <2> QED BY <2>1, <2>2
  <1> QED BY <1>1, <1>2, <1>4, <1>5, StoredSame

(* An accepted Update that ends the sync keeps the ledger.                 *)
LEMMA AcceptedEnd ==
  ASSUME TypeOK, NEW r \in Reports, LedgerInv(r), UpdateAccepted(r), Release(r),
         pc[r] \in Planned \cup {"addFinalizer", "removeFinalizer", "putInvalid", "putFailed"},
         BooksSame(r), redone'[r] = redone[r]
  PROVE  LedgerInv(r)'
  <1>1. pc'[r] = "idle" /\ ~cur'[r] /\ pc[r] # "putFinal"
    BY DEF Release, TypeOK, Planned
  <1>2. CopiesSound(r)' /\ ObjectsExist(r)'
    BY <1>1, Accepted DEF LedgerInv, CopiesSound, ObjectsExist
  <1>3. RunOnceOnce(r)' /\ PeriodSound(r)'
    BY <1>1, Accepted DEF RunOnceOnce, PeriodSound, Planned, BooksSame
  <1>4. Once(r)'
    <2>1. api'[r].last = api[r].last
      BY Accepted
    <2> QED BY <1>1, <2>1 DEF LedgerInv, Once, Recorded, BooksSame
  <1>5. Covered(r)'
    <2>1. api'[r].last = api[r].last
      BY Accepted
    <2> QED BY <2>1 DEF LedgerInv, Covered, BooksSame
  <1> QED BY <1>2, <1>3, <1>4, <1>5 DEF LedgerInv

(* An accepted Update after which the sync goes on keeps the ledger.       *)
LEMMA AcceptedOn ==
  ASSUME TypeOK, NEW r \in Reports, LedgerInv(r), UpdateAccepted(r),
         UNCHANGED <<obj, cur, period>>, BooksSame(r), redone'[r] = redone[r],
         \/ pc[r] = "addFinalizer" /\ pc'[r] = "run"
         \/ pc[r] = "putTable" /\ pc'[r] = "decide"
         \/ pc[r] = "putRunning" /\ pc'[r] = "generate"
  PROVE  LedgerInv(r)'
  <1>1. pc[r] \in Planned \cup {"addFinalizer", "removeFinalizer", "putInvalid", "putFailed"}
    BY DEF Planned
  <1>2. /\ cur[r] /\ cache'[r] = cache[r]
        /\ api'[r].last = api[r].last /\ api'[r].last = obj[r].last
        /\ api'[r].spec = api[r].spec /\ api'[r].spec = obj[r].spec
        /\ api'[r].cond = obj[r].cond /\ api'[r].phase # "absent"
        /\ cacheCur'[r] => cacheCur[r] /\ api'[r] = api[r]
        /\ ~rescoped[r] /\ api[r].last # Null /\ api[r].spec.schedule = "none" =>
             api'[r].cond = "Finished"
    BY <1>1, Accepted
  <1>3. obj'[r] = obj[r] /\ cur'[r] = cur[r] /\ period'[r] = period[r]
    OBVIOUS
  <1>4. CopiesSound(r)'
    BY <1>2, <1>3 DEF LedgerInv, CopiesSound
  <1>5. ObjectsExist(r)'
    BY <1>2, <1>3 DEF LedgerInv, ObjectsExist
  <1>6. RunOnceOnce(r)'
    BY <1>2, <1>3 DEF LedgerInv, RunOnceOnce, BooksSame, Planned
  <1>7. PeriodSound(r)'
    BY <1>2, <1>3 DEF LedgerInv, PeriodSound, Planned
  <1>8. Once(r)' /\ Covered(r)'
    BY <1>2 DEF LedgerInv, Once, Covered, Recorded, BooksSame
  <1> QED BY <1>4, <1>5, <1>6, <1>7, <1>8 DEF LedgerInv

(* A step that writes nothing keeps the ledger when the copy it goes on    *)
(* with still says what the next steps rely on.                            *)
LEMMA Move ==
  ASSUME TypeOK, NEW r \in Reports, LedgerInv(r), UNCHANGED apiVars,
         pc[r] # "putFinal", pc'[r] # "putFinal", pc'[r] # "idle", Exists(obj'[r]),
         BooksSame(r), redone'[r] = redone[r],
         cur'[r] => /\ obj'[r].spec = api[r].spec /\ obj'[r].last = api[r].last
                    /\ pc'[r] \in {"run", "addFinalizer", "removeFinalizer"} =>
                         obj'[r].cond = api[r].cond,
         ~rescoped[r] => /\ cur'[r] /\ pc'[r] \in Planned \cup {"putInvalid", "putFailed"} =>
                              obj'[r].last = Null \/ obj'[r].spec.schedule # "none"
                         /\ pc'[r] \in {"generate", "insert"} =>
                              obj'[r].last = Null \/ obj'[r].spec.schedule # "none",
         pc'[r] \in Planned =>
           /\ obj'[r].spec.schedule # "none" /\ obj'[r].last # Null =>
                period'[r].start = obj'[r].last
           /\ obj'[r].spec.schedule = "none" =>
                period'[r].end = obj'[r].spec.end /\ obj'[r].spec.end # Null,
         pc'[r] \in {"generate", "insert"} => obj'[r].last = api[r].last
  PROVE  LedgerInv(r)'
  <1>1. api'[r] = api[r] /\ cache'[r] = cache[r] /\ cacheCur'[r] = cacheCur[r]
    BY DEF apiVars
  <1>2. CopiesSound(r)'
    BY <1>1 DEF LedgerInv, CopiesSound
  <1>3. ObjectsExist(r)'
    BY <1>1 DEF LedgerInv, ObjectsExist, Exists
  <1>4. RunOnceOnce(r)'
    BY <1>1 DEF LedgerInv, RunOnceOnce, BooksSame
  <1>5. PeriodSound(r)'
    BY <1>1 DEF PeriodSound
  <1>6. Once(r)' /\ Covered(r)'
    BY <1>1 DEF LedgerInv, Once, Covered, Recorded, BooksSame
  <1> QED BY <1>2, <1>3, <1>4, <1>5, <1>6 DEF LedgerInv

(* runReport chooses the period from the copy it has.                      *)
LEMMA runReportLedger ==
  ASSUME ScheduleAdvances, TypeOK, NEW r \in Reports, LedgerInv(r), runReport(r)
  PROVE  LedgerInv(r)'
  <1> DEFINE o == obj[r]
  <1>1. /\ pc[r] = "run" /\ UNCHANGED apiVars /\ BooksSame(r) /\ redone'[r] = redone[r]
        /\ o \in ReportObject /\ Exists(o) /\ now \in Nat
    BY DEF runReport, tableVars, histVars, BooksSame, TypeOK, LedgerInv, ObjectsExist
  <1>2. CASE Release(r)
    BY <1>1, <1>2, EndOfSync
  <1>3. ASSUME ~isReportFinished(o), ~rescoped[r], cur[r]
        PROVE  o.last = Null \/ o.spec.schedule # "none"
    BY <1>1, <1>3 DEF LedgerInv, CopiesSound, RunOnceOnce, isReportFinished
  <1>4. CASE /\ ~isReportFinished(o)
             /\ pc' = [pc EXCEPT ![r] = "putInvalid"]
             /\ obj' = [obj EXCEPT ![r] = [o EXCEPT !.cond = "Invalid"]]
             /\ UNCHANGED <<cur, period>>
    <2>1. pc'[r] = "putInvalid" /\ obj'[r] = [o EXCEPT !.cond = "Invalid"] /\ cur'[r] = cur[r]
      BY <1>4 DEF TypeOK
    <2>2. /\ obj'[r].spec = o.spec /\ obj'[r].last = o.last /\ obj'[r].phase = o.phase
      BY <1>1, <2>1 DEF ReportObject
    <2>3. Exists(obj'[r])
      BY <1>1, <2>2 DEF Exists
    <2>4. cur'[r] => obj'[r].spec = api[r].spec /\ obj'[r].last = api[r].last
      BY <1>1, <2>1, <2>2 DEF LedgerInv, CopiesSound
    <2> QED BY <1>1, <1>3, <1>4, <2>1, <2>2, <2>3, <2>4, Move DEF Planned
  <1>5. CASE /\ ~isReportFinished(o) /\ ~PeriodFails(o.spec)
             /\ pc' = [pc EXCEPT ![r] = IF o.table THEN "decide" ELSE "createTable"]
             /\ obj' = [obj EXCEPT ![r] = [o EXCEPT !.next = nextReportTimeAfter(now, o)]]
             /\ UNCHANGED cur
             /\ period' = [period EXCEPT ![r] = getReportPeriod(now, o)]
    <2>1. /\ pc'[r] \in {"decide", "createTable"} /\ cur'[r] = cur[r]
          /\ obj'[r] = [o EXCEPT !.next = nextReportTimeAfter(now, o)]
          /\ period'[r] = getReportPeriod(now, o)
      BY <1>5 DEF TypeOK
    <2>2. /\ obj'[r].spec = o.spec /\ obj'[r].last = o.last /\ obj'[r].phase = o.phase
      BY <1>1, <2>1 DEF ReportObject
    <2>3. Exists(obj'[r])
      BY <1>1, <2>2 DEF Exists
    <2>4. cur'[r] => obj'[r].spec = api[r].spec /\ obj'[r].last = api[r].last
      BY <1>1, <2>1, <2>2 DEF LedgerInv, CopiesSound
    <2>5. /\ o.spec.schedule # "none" /\ o.last # Null => period'[r].start = o.last
          /\ o.spec.schedule = "none" => period'[r].end = o.spec.end /\ o.spec.end # Null
      BY <1>1, <1>5, <2>1, PeriodStarts
    <2> QED BY <1>1, <1>3, <1>5, <2>1, <2>2, <2>3, <2>4, <2>5, Move DEF Planned
  <1> QED BY <1>2, <1>4, <1>5 DEF runReport, Succeed, Fail

(* A sync starts with the informer's copy.                                 *)
LEMMA syncReportLedger ==
  ASSUME TypeOK, NEW r \in Reports, LedgerInv(r), syncReport(r)
  PROVE  LedgerInv(r)'
  <1>1. /\ pc[r] = "idle" /\ UNCHANGED apiVars /\ BooksSame(r) /\ redone'[r] = redone[r]
        /\ cache[r] \in ReportObject /\ rows'[r] = rows[r]
    BY DEF syncReport, tableVars, histVars, BooksSame, TypeOK
  <1>2. CASE UNCHANGED workVars
    <2>1. Same(r)
      BY <1>1, <1>2 DEF Same, workVars, apiVars, BooksSame
    <2> QED BY <2>1, Frame
  <1>3. ASSUME NEW step \in {"addFinalizer", "removeFinalizer", "run"},
               NEW copy, copy.spec = cache[r].spec, copy.last = cache[r].last,
               copy.cond = cache[r].cond, copy.phase = cache[r].phase, Exists(cache[r]),
               pc' = [pc EXCEPT ![r] = step], obj' = [obj EXCEPT ![r] = copy],
               cur' = [cur EXCEPT ![r] = cacheCur[r]]
        PROVE  LedgerInv(r)'
    <2>1. pc'[r] = step /\ obj'[r] = copy /\ cur'[r] = cacheCur[r]
      BY <1>3 DEF TypeOK
    <2>2. Exists(obj'[r])
      BY <1>3, <2>1 DEF Exists
    <2>3. cacheCur[r] => cache[r] = api[r]
      BY DEF LedgerInv, CopiesSound
    <2> QED BY <1>1, <1>3, <2>1, <2>2, <2>3, Move DEF Planned
  <1>4. \A b \in BOOLEAN :
          /\ [cache[r] EXCEPT !.finalizer = b].spec = cache[r].spec
          /\ [cache[r] EXCEPT !.finalizer = b].last = cache[r].last
          /\ [cache[r] EXCEPT !.finalizer = b].cond = cache[r].cond
          /\ [cache[r] EXCEPT !.finalizer = b].phase = cache[r].phase
    BY <1>1 DEF ReportObject
  <1> QED BY <1>2, <1>3, <1>4 DEF syncReport, Exists

(* Making the table, deciding and emptying the table keep the copy.        *)
LEMMA KeepsCopy ==
  ASSUME TypeOK, NEW r \in Reports, LedgerInv(r), UNCHANGED apiVars, BooksSame(r),
         redone'[r] = redone[r],
         \/ pc[r] = "createTable" /\ pc'[r] = "putTable"
         \/ pc[r] = "decide" /\ pc'[r] \in {"putWaiting", "putUnmet", "putRunning"}
         \/ pc[r] = "generate" /\ pc'[r] \in {"insert", "putFailed"}
         \/ pc[r] = "insert" /\ pc'[r] = "putFailed",
         obj'[r].spec = obj[r].spec, obj'[r].last = obj[r].last, obj'[r].phase = obj[r].phase,
         cur'[r] = cur[r], period'[r] = period[r]
  PROVE  LedgerInv(r)'
  <1>1. Exists(obj'[r])
    BY DEF LedgerInv, ObjectsExist, Exists
  <1>2. cur'[r] => obj'[r].spec = api[r].spec /\ obj'[r].last = api[r].last
    BY DEF LedgerInv, CopiesSound
  <1>3. pc[r] \in Planned
    BY DEF Planned
  <1>4. ~rescoped[r] => /\ cur'[r] => obj'[r].last = Null \/ obj'[r].spec.schedule # "none"
                        /\ pc'[r] \in {"generate", "insert"} =>
                             obj'[r].last = Null \/ obj'[r].spec.schedule # "none"
    BY <1>3 DEF LedgerInv, RunOnceOnce
  <1>5. /\ obj'[r].spec.schedule # "none" /\ obj'[r].last # Null =>
             period'[r].start = obj'[r].last
        /\ obj'[r].spec.schedule = "none" =>
             period'[r].end = obj'[r].spec.end /\ obj'[r].spec.end # Null
        /\ pc'[r] \in {"generate", "insert"} => obj'[r].last = api[r].last
    BY <1>3 DEF LedgerInv, PeriodSound
  <1> QED BY <1>1, <1>2, <1>4, <1>5, Move

(* Emptying the table: what was there no longer counts.                    *)
LEMMA renderAndDeleteLedger ==
  ASSUME TypeOK, NEW r \in Reports, LedgerInv(r), renderAndDelete(r)
  PROVE  LedgerInv(r)'
  <1>1. /\ pc[r] = "generate" /\ UNCHANGED apiVars /\ redone'[r] = redone[r]
        /\ rescoped'[r] = rescoped[r] /\ first'[r] = first[r]
        /\ obj[r] \in ReportObject
    BY DEF renderAndDelete, histVars, TypeOK
  <1>2. CASE Fail(r) /\ UNCHANGED tableVars
    <2>1. BooksSame(r)
      BY <1>1, <1>2 DEF BooksSame, tableVars
    <2> QED BY <1>1, <1>2, <2>1, EndOfSync DEF Fail
  <1>3. CASE /\ pc' = [pc EXCEPT ![r] = "putFailed"]
             /\ obj' = [obj EXCEPT ![r].cond = "Failed"]
             /\ UNCHANGED <<cur, period, tableVars>>
    <2>1. BooksSame(r)
      BY <1>1, <1>3 DEF BooksSame, tableVars
    <2>2. /\ pc'[r] = "putFailed" /\ cur'[r] = cur[r] /\ period'[r] = period[r]
          /\ obj'[r].spec = obj[r].spec /\ obj'[r].last = obj[r].last
          /\ obj'[r].phase = obj[r].phase
      BY <1>1, <1>3 DEF TypeOK, ReportObject
    <2> QED BY <1>1, <2>1, <2>2, KeepsCopy
  <1>4. CASE /\ pc' = [pc EXCEPT ![r] = "insert"]
             /\ rows' = IF obj[r].spec.overwrite THEN [rows EXCEPT ![r] = << >>] ELSE rows
             /\ wiped' = [wiped EXCEPT ![r] = @ \/ obj[r].spec.overwrite]
             /\ UNCHANGED <<obj, cur, period>>
    <2>1. /\ pc'[r] = "insert" /\ cur'[r] = cur[r] /\ period'[r] = period[r]
          /\ obj'[r] = obj[r]
      BY <1>4 DEF TypeOK
    <2>2. obj[r].spec.overwrite \in BOOLEAN
      BY <1>1 DEF ReportObject, ReportSpec
    <2>3. CASE ~obj[r].spec.overwrite
      <3>1. wiped'[r] = wiped[r] /\ rows'[r] = rows[r]
        BY <1>4, <2>2, <2>3 DEF TypeOK
      <3> QED BY <1>1, <2>1, <3>1, KeepsCopy DEF BooksSame
    <2>4. CASE obj[r].spec.overwrite
      <3>1. wiped'[r]
        BY <1>4, <2>4 DEF TypeOK
      <3>2. /\ api'[r] = api[r] /\ cache'[r] = cache[r] /\ cacheCur'[r] = cacheCur[r]
        BY <1>1 DEF apiVars
      <3>3. CopiesSound(r)' /\ ObjectsExist(r)'
        BY <1>1, <2>1, <3>2 DEF LedgerInv, CopiesSound, ObjectsExist
      <3>4. RunOnceOnce(r)'
        BY <1>1, <2>1, <3>2 DEF LedgerInv, RunOnceOnce, Planned
      <3>5. PeriodSound(r)'
        BY <1>1, <2>1, <3>2 DEF LedgerInv, PeriodSound, Planned
      <3>6. Once(r)' /\ Covered(r)'
        BY <1>1, <3>1, <3>2 DEF LedgerInv, Once, Covered
      <3> QED BY <3>3, <3>4, <3>5, <3>6 DEF LedgerInv
    <2> QED BY <2>2, <2>3, <2>4
  <1> QED BY <1>2, <1>3, <1>4 DEF renderAndDelete

(* The results of a period are stored: the new row continues the table.    *)
LEMMA insertResultsLedger ==
  ASSUME ScheduleAdvances, TypeOK, NEW r \in Reports, LedgerInv(r), insertResults(r)
  PROVE  LedgerInv(r)'
  <1>1. /\ pc[r] = "insert" /\ UNCHANGED apiVars
        /\ wiped'[r] = wiped[r] /\ rescoped'[r] = rescoped[r] /\ first'[r] = first[r]
        /\ cur'[r] = cur[r] /\ period'[r] = period[r]
        /\ obj[r] \in ReportObject /\ period[r] \in Period
        /\ api'[r] = api[r] /\ cache'[r] = cache[r] /\ cacheCur'[r] = cacheCur[r]
    BY DEF insertResults, apiVars, TypeOK
  <1>2. CASE /\ pc' = [pc EXCEPT ![r] = "putFailed"]
             /\ obj' = [obj EXCEPT ![r].cond = "Failed"]
             /\ UNCHANGED <<rows, redone>>
    <2>1. BooksSame(r) /\ redone'[r] = redone[r]
      BY <1>1, <1>2 DEF BooksSame
    <2>2. /\ pc'[r] = "putFailed"
          /\ obj'[r].spec = obj[r].spec /\ obj'[r].last = obj[r].last
          /\ obj'[r].phase = obj[r].phase
      BY <1>1, <1>2 DEF TypeOK, ReportObject
    <2> QED BY <1>1, <2>1, <2>2, KeepsCopy
  <1>3. ASSUME NEW row, row.start = period[r].start, row.end = period[r].end,
               row \in Row,
               rows' = [rows EXCEPT ![r] = Append(@, row)],
               pc' = [pc EXCEPT ![r] = "putFinal"],
               obj' = [obj EXCEPT ![r] = AfterReport(obj[r], period[r].end)],
               redone' = [redone EXCEPT ![r] = @ \/ period[r].start >= period[r].end]
        PROVE  LedgerInv(r)'
    <2>1. /\ period[r].start \in Nat /\ period[r].end \in Nat
      BY <1>1 DEF Period
    <2>2. /\ pc'[r] = "putFinal" /\ obj'[r] = AfterReport(obj[r], period[r].end)
          /\ rows'[r] = Append(rows[r], row)
          /\ ~redone'[r] => ~redone[r] /\ period[r].start < period[r].end
      <3>1. redone'[r] = (redone[r] \/ period[r].start >= period[r].end)
        BY <1>3 DEF TypeOK
      <3>2. ~redone'[r] => ~redone[r] /\ ~(period[r].start >= period[r].end)
        BY <3>1
      <3> QED BY <1>3, <2>1, <3>2 DEF TypeOK
    <2>3. /\ obj'[r].last = period[r].end /\ obj'[r].spec = obj[r].spec
          /\ obj'[r].phase = obj[r].phase
          /\ period[r].end = obj[r].spec.end /\ obj[r].spec.end # Null =>
               obj'[r].cond = "Finished"
      BY <1>1, <2>1, <2>2, AfterReportSame
    <2> DEFINE n == Len(rows[r])
    <2>4. /\ rows[r] \in Seq(Row) /\ n \in Nat /\ Len(rows'[r]) = n + 1
          /\ \A i \in 1..n : rows'[r][i] = rows[r][i] /\ rows[r][i] \in Row
          /\ rows'[r][n + 1] = row
      BY <1>3, <2>2 DEF TypeOK
    <2>5. ~rescoped[r] /\ api[r].last # Null => period[r].start = api[r].last
      BY <1>1 DEF LedgerInv, RunOnceOnce, PeriodSound, Planned
    <2>6. CopiesSound(r)'
      BY <1>1, <2>2, <2>3 DEF LedgerInv, CopiesSound
    <2>7. ObjectsExist(r)'
      BY <1>1, <2>2, <2>3 DEF LedgerInv, ObjectsExist, Exists
    <2>8. RunOnceOnce(r)'
      BY <1>1, <2>2 DEF LedgerInv, RunOnceOnce, Planned
    <2>9. PeriodSound(r)'
      <3>1. obj'[r].spec.schedule = "none" => obj'[r].cond = "Finished"
        BY <1>1, <2>3 DEF LedgerInv, PeriodSound, Planned
      <3>2. /\ Len(rows'[r]) > 0 /\ rows'[r][Len(rows'[r])].start = period'[r].start
            /\ rows'[r][Len(rows'[r])].end = period'[r].end
        BY <1>1, <1>3, <2>4
      <3> QED BY <1>1, <2>2, <2>3, <2>5, <3>1, <3>2 DEF PeriodSound, Planned
    <2>10. Once(r)'
      <3> SUFFICES ASSUME ~redone'[r], ~rescoped[r], ~wiped[r]
                   PROVE  /\ Chain(rows'[r])
                          /\ api[r].last = IF Recorded(r)' = 0 THEN Null
                                           ELSE rows'[r][Recorded(r)'].end
        BY <1>1 DEF Once
      <3>1. /\ Chain(rows[r])
            /\ api[r].last = IF n = 0 THEN Null ELSE rows[r][n].end
        BY <1>1, <2>2, <2>4 DEF LedgerInv, Once, Recorded
      <3>2. Recorded(r)' = n
        BY <2>2, <2>4 DEF Recorded
      <3>3. n > 0 => rows[r][n].end = period[r].start
        <4>1. n > 0 => rows[r][n].end \in Nat
          BY <2>4 DEF Row
        <4> QED BY <2>4, <2>5, <3>1, <4>1, NullAssumption
      <3>4. Chain(rows'[r])
        <4> SUFFICES ASSUME NEW i \in 1..(n + 1)
                     PROVE  /\ rows'[r][i].start < rows'[r][i].end
                            /\ i < n + 1 => rows'[r][i].end = rows'[r][i + 1].start
          BY <2>4 DEF Chain
        <4>1. CASE i = n + 1
          BY <1>3, <2>2, <2>4, <4>1
        <4>2. CASE i = n
          <5>1. i \in 1..n /\ n > 0
            BY <2>4, <4>2
          <5>2. rows[r][i].start < rows[r][i].end
            BY <2>4, <3>1, <5>1 DEF Chain
          <5>3. rows'[r][i] = rows[r][i] /\ rows'[r][i + 1] = row
            BY <2>4, <4>2, <5>1
          <5> QED BY <1>3, <3>3, <4>2, <5>1, <5>2, <5>3
        <4>3. CASE i < n
          <5>1. i \in 1..n /\ i + 1 \in 1..n
            BY <2>4, <4>3
          <5>2. rows[r][i].start < rows[r][i].end /\ rows[r][i].end = rows[r][i + 1].start
            BY <2>4, <3>1, <4>3, <5>1 DEF Chain
          <5> QED BY <2>4, <5>1, <5>2
        <4> QED BY <2>4, <4>1, <4>2, <4>3
      <3>5. n # 0 => rows'[r][n] = rows[r][n]
        BY <2>4
      <3> QED BY <3>1, <3>2, <3>4, <3>5
    <2>11. Covered(r)'
      <3> SUFFICES ASSUME api[r].last # Null
                   PROVE  /\ first[r] # Null
                          /\ ~rescoped[r] /\ ~wiped[r] =>
                               \A t \in first[r]..(api[r].last - 1) :
                                 \E i \in 1..(n + 1) :
                                   rows'[r][i].start <= t /\ t < rows'[r][i].end
        BY <1>1, <2>4 DEF Covered
      <3>1. /\ first[r] # Null
            /\ ~rescoped[r] /\ ~wiped[r] =>
                 \A t \in first[r]..(api[r].last - 1) :
                   \E i \in 1..n : rows[r][i].start <= t /\ t < rows[r][i].end
        BY DEF LedgerInv, Covered
      <3>2. ASSUME NEW t, NEW i \in 1..n, rows[r][i].start <= t /\ t < rows[r][i].end
            PROVE  i \in 1..(n + 1) /\ rows'[r][i].start <= t /\ t < rows'[r][i].end
        BY <2>4, <3>2
      <3> QED BY <3>1, <3>2
    <2> QED BY <2>6, <2>7, <2>8, <2>9, <2>10, <2>11 DEF LedgerInv
  <1>4. obj[r].spec.runImmediately \in BOOLEAN
    BY <1>1 DEF ReportObject, ReportSpec
  <1>5. [start |-> period[r].start, end |-> period[r].end,
         forced |-> obj[r].spec.runImmediately] \in Row
    BY <1>1, <1>4 DEF Row, Period
  <1> QED BY <1>2, <1>3, <1>5 DEF insertResults

(* LastReportTime is stored: it becomes the end of the last row, and the   *)
(* new row closes the gap to it.                                           *)
LEMMA putFinalLedger ==
  ASSUME TypeOK, NEW r \in Reports, LedgerInv(r), putFinal(r)
  PROVE  LedgerInv(r)'
  <1>1. /\ pc[r] = "putFinal" /\ Release(r)
        /\ rows'[r] = rows[r] /\ wiped'[r] = wiped[r] /\ rescoped'[r] = rescoped[r]
    BY DEF putFinal, tableVars, Fail
  <1>2. CASE UpdateRefused(r) /\ redone' = [redone EXCEPT ![r] = TRUE] /\ UNCHANGED first
    <2>1. UNCHANGED apiVars /\ redone'[r] /\ BooksSame(r)
      BY <1>1, <1>2 DEF UpdateRefused, TypeOK, BooksSame
    <2> QED BY <1>1, <2>1, EndOfSync
  <1>3. CASE /\ UpdateAccepted(r)
             /\ first' = [first EXCEPT ![r] = IF api[r].last = Null THEN period[r].start ELSE @]
             /\ UNCHANGED redone
    <2>1. /\ api'[r] = Stored(obj[r]) /\ cache'[r] = cache[r] /\ pc'[r] = "idle" /\ ~cur'[r]
          /\ cacheCur'[r] => cacheCur[r] /\ Stored(obj[r]) = api[r]
          /\ first'[r] = (IF api[r].last = Null THEN period[r].start ELSE first[r])
          /\ redone'[r] = redone[r] /\ obj[r] \in ReportObject /\ period[r] \in Period
      BY <1>1, <1>3 DEF UpdateAccepted, Release, TypeOK
    <2>2. /\ api'[r].last = period[r].end /\ api'[r].spec = obj[r].spec
          /\ api'[r].cond = obj[r].cond /\ api'[r].phase # "absent"
      <3>1. obj[r].last = period[r].end /\ Exists(obj[r])
        BY <1>1 DEF LedgerInv, PeriodSound, ObjectsExist
      <3> QED BY <2>1, <3>1, StoredSame
    <2> DEFINE n == Len(rows[r])
    <2>3. /\ n > 0 /\ n \in Nat /\ rows[r][n].start = period[r].start
          /\ rows[r][n].end = period[r].end
          /\ period[r].start \in Nat /\ period[r].end \in Nat
      BY <1>1, <2>1 DEF LedgerInv, PeriodSound, TypeOK, Period
    <2>4. CopiesSound(r)'
      BY <2>1 DEF LedgerInv, CopiesSound
    <2>5. ObjectsExist(r)'
      BY <2>1, <2>2 DEF ObjectsExist
    <2>6. RunOnceOnce(r)'
      BY <1>1, <2>1, <2>2 DEF LedgerInv, RunOnceOnce, PeriodSound, Planned
    <2>7. PeriodSound(r)'
      BY <2>1 DEF PeriodSound, Planned
    <2>8. Once(r)'
      <3>1. Recorded(r)' = n
        BY <1>1, <2>1, <2>3 DEF Recorded
      <3> QED BY <1>1, <2>1, <2>2, <2>3, <3>1 DEF LedgerInv, Once
    <2>9. Covered(r)'
      <3>1. first'[r] # Null
        BY <2>1, <2>3, NullAssumption DEF LedgerInv, Covered
      <3>2. ASSUME ~rescoped[r], ~wiped[r], NEW t \in first'[r]..(period[r].end - 1)
            PROVE  \E i \in 1..n : rows[r][i].start <= t /\ t < rows[r][i].end
        <4>1. n \in 1..n
          BY <2>3
        <4>2. first'[r] \in Nat
          BY <2>1, <2>3, <3>1 DEF TypeOK, OptTime
        <4>3. t \in Int /\ first'[r] <= t /\ t < period[r].end
          BY <2>3, <4>2
        <4>4. CASE period[r].start <= t
          BY <2>3, <4>1, <4>3, <4>4
        <4>5. CASE t < period[r].start
          <5>1. api[r].last # Null
            BY <2>1, <2>3, <4>3, <4>5
          <5>2. period[r].start = api[r].last
            BY <1>1, <3>2, <5>1 DEF LedgerInv, PeriodSound
          <5>3. t \in first[r]..(api[r].last - 1)
            BY <2>1, <2>3, <4>2, <4>3, <4>5, <5>1, <5>2
          <5> QED BY <3>2, <5>1, <5>3 DEF LedgerInv, Covered
        <4> QED BY <2>3, <4>3, <4>4, <4>5
      <3> QED BY <1>1, <2>2, <3>1, <3>2 DEF Covered
    <2> QED BY <2>4, <2>5, <2>6, <2>7, <2>8, <2>9 DEF LedgerInv
  <1> QED BY <1>2, <1>3 DEF putFinal

(* Every step of a worker keeps the ledger of its Report.                  *)
LEMMA WorkerLedger ==
  ASSUME ScheduleAdvances, TypeOK, NEW r \in Reports, LedgerInv(r), worker(r)
  PROVE  LedgerInv(r)'
  <1>p. ASSUME UNCHANGED <<tableVars, histVars>>,
               pc[r] \in Planned \cup {"addFinalizer", "removeFinalizer", "putInvalid", "putFailed"},
               Release(r), UpdateAccepted(r) \/ UpdateRefused(r)
        PROVE  LedgerInv(r)'
    <2>1. BooksSame(r) /\ redone'[r] = redone[r] /\ pc[r] # "putFinal"
      BY <1>p DEF BooksSame, tableVars, histVars, Planned
    <2> QED BY <1>p, <2>1, AcceptedEnd, EndOfSync DEF UpdateRefused
  <1>n. ASSUME UNCHANGED <<tableVars, histVars>>, UNCHANGED apiVars, Release(r),
               pc[r] # "putFinal"
        PROVE  LedgerInv(r)'
    <2>1. BooksSame(r) /\ redone'[r] = redone[r]
      BY <1>n DEF BooksSame, tableVars, histVars
    <2> QED BY <1>n, <2>1, EndOfSync
  <1>1. CASE syncReport(r)
    BY <1>1, syncReportLedger
  <1>2. CASE addReportFinalizer(r)
    <2>1. CASE Release(r)
      BY <1>2, <1>p, <2>1 DEF addReportFinalizer, Planned
    <2>2. CASE ~Release(r)
      <3>1. /\ UpdateAccepted(r) /\ pc[r] = "addFinalizer" /\ pc'[r] = "run"
            /\ UNCHANGED <<obj, cur, period>> /\ UNCHANGED <<tableVars, histVars>>
        BY <1>2, <2>2 DEF addReportFinalizer, Fail, TypeOK
      <3> QED BY <3>1, AcceptedOn DEF BooksSame, tableVars, histVars
    <2> QED BY <2>1, <2>2
  <1>3. CASE removeReportFinalizer(r)
    BY <1>3, <1>p DEF removeReportFinalizer, Succeed, Fail
  <1>4. CASE runReport(r)
    BY <1>4, runReportLedger
  <1>5. CASE setReportStatusInvalidReport(r)
    BY <1>5, <1>p DEF setReportStatusInvalidReport, Succeed, Fail
  <1>6. CASE createTable(r)
    <2>1. CASE Release(r)
      BY <1>6, <1>n, <2>1 DEF createTable
    <2>2. CASE ~Release(r)
      <3>1. /\ pc[r] = "createTable" /\ pc'[r] = "putTable" /\ UNCHANGED apiVars
            /\ cur'[r] = cur[r] /\ period'[r] = period[r]
            /\ obj'[r] = [obj[r] EXCEPT !.table = TRUE]
            /\ BooksSame(r) /\ redone'[r] = redone[r] /\ obj[r] \in ReportObject
        BY <1>6, <2>2 DEF createTable, Fail, TypeOK, tableVars, histVars, BooksSame
      <3>2. /\ obj'[r].spec = obj[r].spec /\ obj'[r].last = obj[r].last
            /\ obj'[r].phase = obj[r].phase
        BY <3>1 DEF ReportObject
      <3> QED BY <3>1, <3>2, KeepsCopy
    <2> QED BY <2>1, <2>2
  <1>7. CASE putTable(r)
    <2>1. CASE Release(r)
      BY <1>7, <1>p, <2>1 DEF putTable, Planned
    <2>2. CASE ~Release(r)
      <3>1. /\ UpdateAccepted(r) /\ pc[r] = "putTable" /\ pc'[r] = "decide"
            /\ UNCHANGED <<obj, cur, period>> /\ UNCHANGED <<tableVars, histVars>>
        BY <1>7, <2>2 DEF putTable, Fail, TypeOK
      <3> QED BY <3>1, AcceptedOn DEF BooksSame, tableVars, histVars
    <2> QED BY <2>1, <2>2
  <1>8. CASE decide(r)
    <2>1. CASE Release(r)
      BY <1>8, <1>n, <2>1 DEF decide
    <2>2. CASE ~Release(r)
      <3>0. {"Waiting", "Unmet", "RunImmediately", "Scheduled"} \subseteq Reasons
        BY DEF Reasons
      <3>1. PICK step \in {"putWaiting", "putUnmet", "putRunning"}, c \in Reasons :
              /\ pc' = [pc EXCEPT ![r] = step]
              /\ obj' = [obj EXCEPT ![r] = [obj[r] EXCEPT !.cond = c]]
              /\ UNCHANGED <<cur, period>>
        BY <1>8, <2>2, <3>0 DEF decide, TypeOK
      <3>2. /\ pc[r] = "decide" /\ pc'[r] = step /\ UNCHANGED apiVars
            /\ cur'[r] = cur[r] /\ period'[r] = period[r]
            /\ obj'[r] = [obj[r] EXCEPT !.cond = c]
            /\ BooksSame(r) /\ redone'[r] = redone[r] /\ obj[r] \in ReportObject
        BY <1>8, <3>1 DEF decide, TypeOK, tableVars, histVars, BooksSame
      <3>3. /\ obj'[r].spec = obj[r].spec /\ obj'[r].last = obj[r].last
            /\ obj'[r].phase = obj[r].phase
        BY <3>2 DEF ReportObject
      <3> QED BY <3>1, <3>2, <3>3, KeepsCopy
    <2> QED BY <2>1, <2>2
  <1>9. CASE putWaiting(r)
    BY <1>9, <1>p DEF putWaiting, Fail, Planned
  <1>10. CASE putUnmet(r)
    BY <1>10, <1>p DEF putUnmet, Succeed, Fail, Planned
  <1>11. CASE putRunning(r)
    <2>1. CASE Release(r)
      BY <1>11, <1>p, <2>1 DEF putRunning, Planned
    <2>2. CASE ~Release(r)
      <3>1. /\ UpdateAccepted(r) /\ pc[r] = "putRunning" /\ pc'[r] = "generate"
            /\ UNCHANGED <<obj, cur, period>> /\ UNCHANGED <<tableVars, histVars>>
        BY <1>11, <2>2 DEF putRunning, Fail, TypeOK
      <3> QED BY <3>1, AcceptedOn DEF BooksSame, tableVars, histVars
    <2> QED BY <2>1, <2>2
  <1>12. CASE renderAndDelete(r)
    BY <1>12, renderAndDeleteLedger
  <1>13. CASE insertResults(r)
    BY <1>13, insertResultsLedger
  <1>14. CASE putFailed(r)
    BY <1>14, <1>p DEF putFailed, Fail
  <1>15. CASE putFinal(r)
    BY <1>15, putFinalLedger
  <1> QED BY <1>1, <1>2, <1>3, <1>4, <1>5, <1>6, <1>7, <1>8, <1>9, <1>10, <1>11, <1>12,
             <1>13, <1>14, <1>15 DEF worker

(* A user's write makes every copy stale and keeps the ledger.             *)
LEMMA UserLedger ==
  ASSUME TypeOK, NEW r \in Reports, LedgerInv(r), user(r)
  PROVE  LedgerInv(r)'
  <1>0. ASSUME Outdate(r), UNCHANGED <<tableVars, redone, first>>,
               api'[r].phase # "absent", api'[r].last = api[r].last,
               ~rescoped'[r] =>
                 /\ ~rescoped[r]
                 /\ api[r].last # Null /\ api'[r].spec.schedule = "none" =>
                      api[r].spec.schedule = "none" /\ api'[r].cond = api[r].cond
        PROVE  LedgerInv(r)'
    <2>1. /\ ~cacheCur'[r] /\ ~cur'[r] /\ pc'[r] = pc[r] /\ obj'[r] = obj[r]
          /\ period'[r] = period[r] /\ rows'[r] = rows[r] /\ wiped'[r] = wiped[r]
          /\ redone'[r] = redone[r] /\ first'[r] = first[r]
      BY <1>0 DEF Outdate, TypeOK, tableVars
    <2>2. CopiesSound(r)' /\ ObjectsExist(r)'
      BY <1>0, <2>1 DEF LedgerInv, CopiesSound, ObjectsExist
    <2>3. RunOnceOnce(r)'
      BY <1>0, <2>1 DEF LedgerInv, RunOnceOnce
    <2>4. PeriodSound(r)'
      BY <1>0, <2>1 DEF LedgerInv, PeriodSound
    <2>5. Once(r)' /\ Covered(r)'
      BY <1>0, <2>1 DEF LedgerInv, Once, Covered, Recorded
    <2> QED BY <2>2, <2>3, <2>4, <2>5 DEF LedgerInv
  <1>1. ASSUME NEW s \in UserSpecs, createReport(r, s)
        PROVE  LedgerInv(r)'
    <2>1. api'[r] = [NoReport EXCEPT !.phase = "live", !.spec = s]
      BY <1>1 DEF createReport, TypeOK
    <2>2. api'[r].phase # "absent" /\ api'[r].last = Null
      BY <2>1 DEF NoReport
    <2>3. api[r].last = Null
      BY <1>1 DEF createReport, LedgerInv, ObjectsExist
    <2> QED BY <1>0, <1>1, <2>2, <2>3 DEF createReport, histVars
  <1>2. ASSUME NEW s \in UserSpecs, editReport(r, s)
        PROVE  LedgerInv(r)'
    <2>1. /\ api[r] \in ReportObject /\ api'[r] = [api[r] EXCEPT !.spec = s]
          /\ rescoped'[r] = (rescoped[r] \/ /\ api[r].last # Null
                                            /\ api[r].spec.schedule # "none"
                                            /\ s.schedule = "none")
      BY <1>2 DEF editReport, TypeOK
    <2>2. /\ api'[r].phase = api[r].phase /\ api'[r].last = api[r].last
          /\ api'[r].cond = api[r].cond /\ api'[r].spec = s
      BY <2>1 DEF ReportObject
    <2>3. ~rescoped'[r] =>
            /\ ~rescoped[r]
            /\ api[r].last # Null /\ s.schedule = "none" => api[r].spec.schedule = "none"
      BY <2>1
    <2>4. api[r].phase = "live"
      BY <1>2 DEF editReport
    <2> QED BY <1>0, <1>2, <2>2, <2>3, <2>4 DEF editReport
  <1>3. CASE deleteReport(r)
    <2>1. /\ api[r] \in ReportObject
          /\ api'[r] = [api[r] EXCEPT !.phase = IF api[r].finalizer THEN "terminating"
                                                ELSE "gone"]
      BY <1>3 DEF deleteReport, TypeOK
    <2>2. /\ api'[r].phase # "absent" /\ api'[r].last = api[r].last
          /\ api'[r].cond = api[r].cond /\ api'[r].spec = api[r].spec
      BY <2>1 DEF ReportObject
    <2> QED BY <1>0, <1>3, <2>2 DEF deleteReport, histVars
  <1>4. CASE createReportQuery(r)
    <2>1. Same(r)
      BY <1>4 DEF createReportQuery, Same, apiVars, workVars, tableVars, histVars
    <2> QED BY <2>1, Frame
  <1> QED BY <1>1, <1>2, <1>3, <1>4 DEF user

(* Every other step keeps every ledger.                                    *)
LEMMA EnvironmentLedger ==
  ASSUME TypeOK, Ledgers, NEW q \in Reports,
         \/ \E r \in Reports : deliver(r) \/ fireTimer(r) \/ user(r)
         \/ \E some \in BOOLEAN : importMetrics(some)
         \/ publishImport \/ tick \/ restart
  PROVE  LedgerInv(q)'
  <1> USE DEF apiVars, workVars, tableVars, histVars
  <1>0. LedgerInv(q)
    BY DEF Ledgers
  <1>1. ASSUME NEW r \in Reports, deliver(r) PROVE LedgerInv(q)'
    <2>1. CASE q # r
      <3>1. Same(q)
        BY <1>1, <2>1 DEF deliver, Same, TypeOK
      <3> QED BY <1>0, <3>1, Frame
    <2>2. CASE q = r
      <3>1. /\ cache'[r] = api[r] /\ api'[r] = api[r] /\ pc'[r] = pc[r] /\ obj'[r] = obj[r]
            /\ cur'[r] = cur[r] /\ period'[r] = period[r] /\ rows'[r] = rows[r]
            /\ wiped'[r] = wiped[r] /\ redone'[r] = redone[r] /\ rescoped'[r] = rescoped[r]
            /\ first'[r] = first[r]
        BY <1>1 DEF deliver, TypeOK
      <3>2. CopiesSound(r)' /\ ObjectsExist(r)'
        BY <1>0, <2>2, <3>1 DEF LedgerInv, CopiesSound, ObjectsExist
      <3>3. RunOnceOnce(r)' /\ PeriodSound(r)'
        BY <1>0, <2>2, <3>1 DEF LedgerInv, RunOnceOnce, PeriodSound
      <3>4. Once(r)' /\ Covered(r)'
        BY <1>0, <2>2, <3>1 DEF LedgerInv, Once, Covered, Recorded
      <3> QED BY <2>2, <3>2, <3>3, <3>4 DEF LedgerInv
    <2> QED BY <2>1, <2>2
  <1>2. ASSUME NEW r \in Reports, fireTimer(r) PROVE LedgerInv(q)'
    <2>1. Same(q)
      BY <1>2 DEF fireTimer, Same
    <2> QED BY <1>0, <2>1, Frame
  <1>3. ASSUME NEW r \in Reports, user(r) PROVE LedgerInv(q)'
    <2>1. CASE q # r
      <3>1. Same(q)
        BY <1>3, <2>1 DEF user, createReport, editReport, deleteReport, createReportQuery,
                          Outdate, Same, TypeOK
      <3> QED BY <1>0, <3>1, Frame
    <2>2. CASE q = r
      BY <1>0, <1>3, <2>2, UserLedger
    <2> QED BY <2>1, <2>2
  <1>4. ASSUME NEW some \in BOOLEAN, importMetrics(some) PROVE LedgerInv(q)'
    <2>1. Same(q)
      BY <1>4 DEF importMetrics, Same
    <2> QED BY <1>0, <2>1, Frame
  <1>5. CASE publishImport \/ tick
    <2>1. Same(q)
      BY <1>5 DEF publishImport, tick, Same
    <2> QED BY <1>0, <2>1, Frame
  <1>6. CASE restart
    <2>1. /\ api'[q] = api[q] /\ cache'[q] = api[q] /\ pc'[q] = "idle" /\ ~cur'[q]
          /\ rows'[q] = rows[q] /\ wiped'[q] = wiped[q] /\ rescoped'[q] = rescoped[q]
          /\ first'[q] = first[q] /\ redone'[q] = (redone[q] \/ pc[q] = "putFinal")
      BY <1>6 DEF restart
    <2>2. CopiesSound(q)' /\ ObjectsExist(q)'
      BY <1>0, <2>1 DEF LedgerInv, CopiesSound, ObjectsExist
    <2>3. RunOnceOnce(q)' /\ PeriodSound(q)'
      BY <1>0, <2>1 DEF LedgerInv, RunOnceOnce, PeriodSound, Planned
    <2>4. ~redone'[q] => ~redone[q] /\ pc[q] # "putFinal"
      BY <2>1
    <2>5. Once(q)'
      BY <1>0, <2>1, <2>4 DEF LedgerInv, Once, Recorded
    <2>6. Covered(q)'
      BY <1>0, <2>1 DEF LedgerInv, Covered
    <2> QED BY <2>2, <2>3, <2>5, <2>6 DEF LedgerInv
  <1> QED BY <1>1, <1>2, <1>3, <1>4, <1>5, <1>6

-----------------------------------------------------------------------------
(* The theorems                                                            *)

LEMMA LedgersInit == Init => Ledgers
  <1> SUFFICES ASSUME Init, NEW r \in Reports PROVE LedgerInv(r)
    BY DEF Ledgers
  <1>1. /\ api[r] = NoReport /\ cache[r] = NoReport /\ pc[r] = "idle" /\ ~cur[r]
        /\ rows[r] = << >> /\ Len(rows[r]) = 0 /\ NoReport.last = Null
    BY DEF Init, NoReport
  <1>2. CopiesSound(r) /\ ObjectsExist(r) /\ RunOnceOnce(r) /\ PeriodSound(r) /\ Covered(r)
    BY <1>1 DEF CopiesSound, ObjectsExist, RunOnceOnce, PeriodSound, Covered, Planned
  <1>3. Once(r)
    BY <1>1 DEF Once, Chain, Recorded
  <1> QED BY <1>2, <1>3 DEF LedgerInv

LEMMA LedgersStep ==
  ASSUME ScheduleAdvances, TypeOK, Ledgers, [Next]_vars
  PROVE  Ledgers'
  <1> SUFFICES ASSUME NEW q \in Reports PROVE LedgerInv(q)'
    BY DEF Ledgers
  <1>0. LedgerInv(q)
    BY DEF Ledgers
  <1>1. ASSUME NEW r \in Reports, worker(r) PROVE LedgerInv(q)'
    <2>1. CASE q = r
      BY <1>0, <1>1, <2>1, WorkerLedger
    <2>2. CASE q # r
      <3>1. Same(q)
        BY <1>1, <2>2, WorkerFrame
      <3> QED BY <1>0, <3>1, Frame
    <2> QED BY <2>1, <2>2
  <1>2. CASE UNCHANGED vars
    <2>1. Same(q)
      BY <1>2 DEF vars, Same, apiVars, workVars, tableVars, histVars
    <2> QED BY <1>0, <2>1, Frame
  <1> QED BY <1>1, <1>2, EnvironmentLedger DEF Next

(* The invariant of the induction holds in every reachable state.          *)
THEOREM LedgersInvariant ==
  ASSUME ScheduleAdvances
  PROVE  Spec => [](TypeOK /\ Ledgers)
  <1>1. TypeOK /\ Ledgers /\ [Next]_vars => (TypeOK /\ Ledgers)'
    BY TypeStep, LedgersStep
  <1> QED BY <1>1, TypeInit, LedgersInit, PTL DEF Spec

(***************************************************************************)
(* Every period is stored exactly once unless a stored period could not be *)
(* recorded: stale caches, conflicting writes, users' edits, retries and   *)
(* restarts at any other step of runReport neither skip nor repeat one.    *)
(***************************************************************************)
THEOREM ReportsExactlyOnce ==
  ASSUME ScheduleAdvances
  PROVE  Spec => []ExactlyOnce
  <1>1. Ledgers => ExactlyOnce
    BY DEF Ledgers, LedgerInv, Once, ExactlyOnce
  <1> QED BY <1>1, LedgersInvariant, PTL

(***************************************************************************)
(* Backfill loses nothing, whatever was retried, lost or restarted: the    *)
(* table covers everything from the first recorded period to               *)
(* LastReportTime.                                                         *)
(***************************************************************************)
THEOREM ReportsLoseNoPeriod ==
  ASSUME ScheduleAdvances
  PROVE  Spec => []NoLostPeriod
  <1>1. Ledgers => NoLostPeriod
    BY DEF Ledgers, LedgerInv, Covered, NoLostPeriod
  <1> QED BY <1>1, LedgersInvariant, PTL

-----------------------------------------------------------------------------
(* The controller implements the ledger.                                   *)

(* The books of all Reports: what the refinement mapping shows.            *)
BooksUnchanged ==
  /\ rows' = rows /\ rescoped' = rescoped
  /\ \A r \in Reports : api'[r].last = api[r].last

(* A step that leaves the books alone is a stuttering step of the ledger.  *)
LEMMA Stutters ==
  ASSUME BooksUnchanged
  PROVE  UNCHANGED Ledger!vars
  BY DEF BooksUnchanged, Ledger!vars

(* An accepted write at any step but the last of a sync keeps              *)
(* LastReportTime, since it is made from a copy of the stored version.     *)
LEMMA WriteKeepsLast ==
  ASSUME TypeOK, NEW r \in Reports, LedgerInv(r), pc[r] # "putFinal",
         UpdateAccepted(r) \/ UpdateRefused(r)
  PROVE  \A q \in Reports : api'[q].last = api[q].last
  <1>1. CASE UpdateRefused(r)
    BY <1>1 DEF UpdateRefused, apiVars
  <1>2. CASE UpdateAccepted(r)
    <2>1. api' = [api EXCEPT ![r] = Stored(obj[r])] /\ obj[r].last = api[r].last
      BY <1>2 DEF UpdateAccepted, LedgerInv, CopiesSound
    <2>2. obj[r] \in ReportObject /\ api \in [Reports -> ReportObject]
      BY DEF TypeOK
    <2>3. Stored(obj[r]).last = obj[r].last
      BY <2>2, StoredSame
    <2> QED BY <2>1, <2>2, <2>3
  <1> QED BY <1>1, <1>2

(* What is stored continues the recorded periods.                          *)
LEMMA insertResultsStores ==
  ASSUME TypeOK, NEW r \in Reports, LedgerInv(r), insertResults(r)
  PROVE  BooksUnchanged \/ Ledger!Store(r)
  <1>1. CASE rows' = rows
    BY <1>1 DEF insertResults, BooksUnchanged, apiVars
  <1>2. CASE rows' # rows
    <2> DEFINE row == [ start |-> period[r].start, end |-> period[r].end,
                        forced |-> obj[r].spec.runImmediately ]
    <2>1. /\ pc[r] = "insert" /\ rows' = [rows EXCEPT ![r] = Append(@, row)]
          /\ api' = api /\ rescoped' = rescoped
      BY <1>2 DEF insertResults, apiVars
    <2>2. rows \in [Reports -> Seq(Row)] /\ row \in Row
      BY DEF TypeOK, Row, Period, ReportObject, ReportSpec
    <2> HIDE DEF row
    <2>3. rows'[r] = Append(rows[r], row) /\ rows[r] \in Seq(Row)
      BY <2>1, <2>2
    <2>4. Len(rows'[r]) = Len(rows[r]) + 1 /\ rows'[r][Len(rows[r]) + 1] = row
      BY <2>2, <2>3
    <2>5. api[r].last = Null \/ rescoped[r] \/ row.start = api[r].last
      BY <2>1 DEF LedgerInv, RunOnceOnce, PeriodSound, Planned, row
    <2> QED BY <2>1, <2>4, <2>5 DEF Ledger!Store
  <1> QED BY <1>1, <1>2

(* What is recorded is what was stored last.                               *)
LEMMA putFinalRecords ==
  ASSUME TypeOK, NEW r \in Reports, LedgerInv(r), putFinal(r)
  PROVE  BooksUnchanged \/ Ledger!Record(r)
  <1>1. rows' = rows /\ rescoped' = rescoped /\ pc[r] = "putFinal"
    BY DEF putFinal, tableVars
  <1>2. CASE UpdateRefused(r)
    BY <1>1, <1>2 DEF UpdateRefused, apiVars, BooksUnchanged
  <1>3. CASE UpdateAccepted(r)
    <2>1. /\ Len(rows[r]) > 0
          /\ obj[r].last = rows[r][Len(rows[r])].end
      BY <1>1 DEF LedgerInv, PeriodSound
    <2>2. obj[r] \in ReportObject /\ api \in [Reports -> ReportObject]
      BY DEF TypeOK
    <2>3. Stored(obj[r]).last = obj[r].last
      BY <2>2, StoredSame
    <2>4. api' = [api EXCEPT ![r] = Stored(obj[r])]
      BY <1>3 DEF UpdateAccepted
    <2>5. [q \in Reports |-> api'[q].last] =
            [[q \in Reports |-> api[q].last] EXCEPT ![r] = rows[r][Len(rows[r])].end]
      BY <2>1, <2>2, <2>3, <2>4
    <2> QED BY <1>1, <2>1, <2>5 DEF Ledger!Record
  <1> QED BY <1>2, <1>3 DEF putFinal

(* A step of a worker on r is a step of the ledger of r, or none.          *)
LEMMA WorkerRefines ==
  ASSUME TypeOK, NEW r \in Reports, LedgerInv(r), worker(r)
  PROVE  BooksUnchanged \/ Ledger!Store(r) \/ Ledger!Record(r) \/ Ledger!Empty(r)
  <1> USE DEF BooksUnchanged, apiVars, tableVars, histVars
  <1>1. CASE syncReport(r)
    BY <1>1 DEF syncReport
  <1>2. CASE addReportFinalizer(r)
    BY <1>2, WriteKeepsLast DEF addReportFinalizer
  <1>3. CASE removeReportFinalizer(r)
    BY <1>3, WriteKeepsLast DEF removeReportFinalizer
  <1>4. CASE runReport(r)
    BY <1>4 DEF runReport
  <1>5. CASE setReportStatusInvalidReport(r)
    BY <1>5, WriteKeepsLast DEF setReportStatusInvalidReport
  <1>6. CASE createTable(r)
    BY <1>6 DEF createTable
  <1>7. CASE putTable(r)
    BY <1>7, WriteKeepsLast DEF putTable
  <1>8. CASE decide(r)
    BY <1>8 DEF decide
  <1>9. CASE putWaiting(r)
    BY <1>9, WriteKeepsLast DEF putWaiting
  <1>10. CASE putUnmet(r)
    BY <1>10, WriteKeepsLast DEF putUnmet
  <1>11. CASE putRunning(r)
    BY <1>11, WriteKeepsLast DEF putRunning
  <1>12. CASE renderAndDelete(r)
    <2>1. rows' = rows \/ rows' = [rows EXCEPT ![r] = << >>]
      BY <1>12 DEF renderAndDelete
    <2> QED BY <1>12, <2>1 DEF renderAndDelete, Ledger!Empty
  <1>13. CASE insertResults(r)
    BY <1>13, insertResultsStores
  <1>14. CASE putFailed(r)
    BY <1>14, WriteKeepsLast DEF putFailed
  <1>15. CASE putFinal(r)
    BY <1>15, putFinalRecords
  <1> QED BY <1>1, <1>2, <1>3, <1>4, <1>5, <1>6, <1>7, <1>8, <1>9, <1>10, <1>11, <1>12,
             <1>13, <1>14, <1>15 DEF worker

(* A user creates, edits or deletes a Report.                              *)
LEMMA UserRefines ==
  ASSUME TypeOK, NEW r \in Reports, LedgerInv(r), user(r)
  PROVE  BooksUnchanged \/ Ledger!Rescope(r)
  <1> USE DEF BooksUnchanged, apiVars, tableVars, histVars
  <1>0. api \in [Reports -> ReportObject] /\ rescoped \in [Reports -> BOOLEAN]
    BY DEF TypeOK
  <1>1. ASSUME NEW s \in UserSpecs, createReport(r, s) PROVE BooksUnchanged
    <2>1. api[r].last = Null /\ NoReport.last = Null
      BY <1>1 DEF createReport, LedgerInv, ObjectsExist, NoReport
    <2>2. [NoReport EXCEPT !.phase = "live", !.spec = s].last = Null
      BY DEF NoReport
    <2> QED BY <1>0, <1>1, <2>1, <2>2 DEF createReport
  <1>2. ASSUME NEW s \in UserSpecs, editReport(r, s) PROVE BooksUnchanged \/ Ledger!Rescope(r)
    <2>1. rows' = rows /\ api' = [api EXCEPT ![r].spec = s]
      BY <1>2 DEF editReport
    <2>2. \A q \in Reports : api'[q].last = api[q].last
      BY <1>0, <2>1 DEF ReportObject
    <2>3. rescoped' = rescoped
            \/ (api[r].last # Null /\ rescoped' = [rescoped EXCEPT ![r] = TRUE])
      BY <1>0, <1>2 DEF editReport
    <2> QED BY <2>1, <2>2, <2>3 DEF Ledger!Rescope
  <1>3. CASE deleteReport(r)
    BY <1>0, <1>3 DEF deleteReport, ReportObject
  <1>4. CASE createReportQuery(r)
    BY <1>4 DEF createReportQuery
  <1> QED BY <1>1, <1>2, <1>3, <1>4 DEF user

(* Every step of the controller is a step of the ledger or a stutter.      *)
LEMMA StepRefines ==
  ASSUME TypeOK, Ledgers, [Next]_vars
  PROVE  [Ledger!Next]_(Ledger!vars)
  <1>1. BooksUnchanged \/ Ledger!Next
    <2>1. ASSUME NEW r \in Reports, worker(r) PROVE BooksUnchanged \/ Ledger!Next
      BY <2>1, WorkerRefines DEF Ledgers, Ledger!Next
    <2>2. ASSUME NEW r \in Reports, user(r) PROVE BooksUnchanged \/ Ledger!Next
      BY <2>2, UserRefines DEF Ledgers, Ledger!Next
    <2>3. ASSUME NEW r \in Reports, deliver(r) \/ fireTimer(r) PROVE BooksUnchanged
      BY <2>3 DEF deliver, fireTimer, BooksUnchanged, apiVars, tableVars, histVars
    <2>4. ASSUME NEW some \in BOOLEAN, importMetrics(some) PROVE BooksUnchanged
      BY <2>4 DEF importMetrics, BooksUnchanged, apiVars, tableVars, histVars
    <2>5. CASE publishImport \/ tick
      BY <2>5 DEF publishImport, tick, BooksUnchanged, apiVars, tableVars, histVars
    <2>6. CASE restart
      BY <2>6 DEF restart, BooksUnchanged, tableVars
    <2>7. CASE UNCHANGED vars
      BY <2>7 DEF vars, BooksUnchanged, apiVars, tableVars, histVars
    <2> QED BY <2>1, <2>2, <2>3, <2>4, <2>5, <2>6, <2>7 DEF Next
  <1> QED BY <1>1, Stutters

(* At first nothing is stored and nothing is recorded.                     *)
LEMMA InitRefines == Init => Ledger!Init
  BY DEF Init, Ledger!Init, NoReport

(***************************************************************************)
(* The Report controller implements the ledger: through conflicts, stale   *)
(* caches, retries, user edits and restarts, runReport only ever stores    *)
(* the period that follows the stored LastReportTime, and only ever        *)
(* records the period it stored last.                                      *)
(***************************************************************************)
THEOREM ControllerImplementsLedger ==
  ASSUME ScheduleAdvances
  PROVE  Spec => ImplementsLedger
  <1>1. TypeOK /\ Ledgers /\ [Next]_vars => [Ledger!Next]_(Ledger!vars)
    BY StepRefines
  <1> QED BY <1>1, InitRefines, LedgersInvariant, PTL DEF Spec, ImplementsLedger, Ledger!Spec

-----------------------------------------------------------------------------
(* The inductive invariant                                                 *)

(* The stored metrics hold all of the period p.                            *)
Covers(import, p) ==
  /\ import.start # Null /\ import.start <= p.start
  /\ import.end # Null /\ p.end <= import.end

(* The import status that the lister shows never promises more than the    *)
(* importer has stored.                                                    *)
Promised(import, status) ==
  /\ status.start # Null => status.start = import.start
  /\ status.end # Null => import.end # Null /\ status.end <= import.end

ImportSound ==
  /\ imported.start = Null <=> imported.end = Null
  /\ imported.end # Null => imported.end <= now
  /\ Promised(imported, coverage)

(* The data of the period p of r is there.                                 *)
Backed(r, p) == p.end <= now /\ (r \in Metered => Covers(imported, p))

(* What runReport has read was so once.                                    *)
ReadSound(r) == read[r].now <= now /\ Promised(imported, read[r].coverage)

RowsBacked(r) ==
  /\ ReadSound(r)
  /\ pc[r] \in {"putRunning", "generate", "insert"} /\ ~obj[r].spec.runImmediately =>
       Backed(r, period[r])
  /\ \A i \in 1..Len(rows[r]) : ~rows[r][i].forced => Backed(r, rows[r][i])

(* While the table may be emptied or appended to, the stored condition is  *)
(* not Finished; the copies that overwrite it in between do not bring      *)
(* Finished back.                                                          *)
FinishedBacked(r) ==
  /\ api[r].cond = "Finished" =>
       rows[r] # << >> /\ rows[r][Len(rows[r])].end = api[r].last
  /\ pc[r] \in {"generate", "insert"} => api[r].cond # "Finished"
  /\ cur[r] /\ pc[r] \in {"createTable", "putTable"} => obj[r].cond = api[r].cond
  /\ pc[r] \in {"putInvalid", "putWaiting", "putUnmet", "putRunning", "putFailed"} =>
       obj[r].cond # "Finished"

(* The table of r goes at least up to t.                                   *)
Reaches(r, t) == \E i \in 1..Len(rows[r]) : rows[r][i].end >= t

LastReached(r) ==
  ~wiped[r] => /\ api[r].last # Null => Reaches(r, api[r].last)
               /\ cache[r].last # Null => Reaches(r, cache[r].last)

(* The period worked on ends at ReportingEnd or after it starts.           *)
PeriodEnds(r) ==
  /\ pc[r] \in Planned \cup {"putFinal"} =>
       \/ obj[r].spec.end # Null /\ period[r].end = obj[r].spec.end
       \/ obj[r].spec.schedule # "none" /\ period[r].end > period[r].start
  /\ pc[r] = "putFinal" /\ obj[r].spec.schedule # "none" /\ api[r].last # Null =>
       period[r].start = api[r].last

(* A sub-report had rows up to the LastReportTime that r has read.         *)
ReadReached(r, s) == read[r].last[s] # Null /\ ~wiped[s] => Reaches(s, read[r].last[s])

StatusInv(r) == RowsBacked(r) /\ FinishedBacked(r) /\ LastReached(r) /\ PeriodEnds(r)

(* What the induction carries on top of TypeOK and Ledgers.                *)
Statuses ==
  /\ ImportSound
  /\ \A r \in Reports : StatusInv(r)
  /\ \A r \in Reports : \A s \in Reports : ReadReached(r, s)

-----------------------------------------------------------------------------
(* The kinds of steps of a worker, by what they do to the Report they are  *)
(* about.                                                                  *)

TableSame(r) == rows'[r] = rows[r] /\ wiped'[r] = wiped[r]

StoreSame(r) == api'[r] = api[r] /\ cache'[r] = cache[r]

PlanSame(r) ==
  /\ obj'[r].spec = obj[r].spec /\ cur'[r] = cur[r]
  /\ period'[r] = period[r] /\ read'[r] = read[r]

(* The sync ends, or does not begin.                                       *)
Quits(r) ==
  /\ pc'[r] = "idle" /\ read'[r] \in {NothingRead, read[r]}
  /\ StoreSame(r) /\ TableSame(r)

Starts(r) ==
  /\ pc'[r] \in {"run", "addFinalizer", "removeFinalizer"} /\ read'[r] = read[r]
  /\ StoreSame(r) /\ TableSame(r)

Rejects(r) ==
  /\ pc'[r] = "putInvalid" /\ obj'[r].cond = "Invalid" /\ read'[r] = read[r]
  /\ StoreSame(r) /\ TableSame(r)

Plans(r) ==
  /\ pc[r] = "run" /\ pc'[r] \in {"decide", "createTable"} /\ ~PeriodFails(obj[r].spec)
  /\ obj'[r].cond = obj[r].cond /\ obj'[r].spec = obj[r].spec /\ cur'[r] = cur[r]
  /\ period'[r] = getReportPeriod(now, obj[r]) /\ read'[r] = ReadNow(r)
  /\ StoreSame(r) /\ TableSame(r)

GetsTable(r) ==
  /\ pc[r] = "createTable" /\ pc'[r] = "putTable"
  /\ obj'[r].cond = obj[r].cond /\ PlanSame(r)
  /\ StoreSame(r) /\ TableSame(r)

Decides(r) ==
  /\ pc[r] = "decide" /\ pc'[r] \in {"putWaiting", "putUnmet", "putRunning"}
  /\ obj'[r].cond # "Finished" /\ PlanSame(r)
  /\ pc'[r] = "putRunning" /\ ~obj[r].spec.runImmediately =>
       period[r].end <= read[r].now /\ ~DataUnmet(r) /\ UnmetSubReports(r) = {}
  /\ StoreSame(r) /\ TableSame(r)

(* An accepted Update before anything is stored in the table.              *)
Writes(r) ==
  /\ UpdateAccepted(r) /\ TableSame(r)
  /\ pc[r] \in Planned \cup {"addFinalizer", "removeFinalizer", "putInvalid", "putFailed"}
  /\ pc[r] \notin {"createTable", "decide", "generate", "insert"}
  /\ \/ pc'[r] = "idle" /\ read'[r] = NothingRead
     \/ /\ obj'[r] = obj[r] /\ PlanSame(r)
        /\ \/ pc[r] = "addFinalizer" /\ pc'[r] = "run"
           \/ pc[r] = "putTable" /\ pc'[r] = "decide"
           \/ pc[r] = "putRunning" /\ pc'[r] = "generate"

Empties(r) ==
  /\ pc[r] = "generate" /\ pc'[r] = "insert" /\ StoreSame(r)
  /\ obj'[r] = obj[r] /\ PlanSame(r)
  /\ TableSame(r) \/ (rows'[r] = << >> /\ wiped'[r])

GoesWrong(r) ==
  /\ pc[r] \in {"generate", "insert"} /\ pc'[r] = "putFailed"
  /\ obj'[r].cond = "Failed" /\ read'[r] = read[r]
  /\ StoreSame(r) /\ TableSame(r)

Inserts(r) ==
  /\ pc[r] = "insert" /\ pc'[r] = "putFinal" /\ StoreSame(r) /\ PlanSame(r)
  /\ rows'[r] = Append(rows[r], [ start |-> period[r].start, end |-> period[r].end,
                                  forced |-> obj[r].spec.runImmediately ])
  /\ wiped'[r] = wiped[r]

Records(r) ==
  /\ pc[r] = "putFinal" /\ pc'[r] = "idle" /\ read'[r] = NothingRead
  /\ UpdateAccepted(r) /\ TableSame(r)

LEMMA StepKinds ==
  ASSUME TypeOK, NEW r \in Reports, worker(r)
  PROVE  \/ Quits(r) \/ Starts(r) \/ Rejects(r) \/ Plans(r) \/ GetsTable(r) \/ Decides(r)
         \/ Writes(r) \/ Empties(r) \/ GoesWrong(r) \/ Inserts(r) \/ Records(r)
  <1> USE DEF StoreSame, TableSame, apiVars, tableVars, workVars
  <1>0. /\ obj[r] \in ReportObject /\ cache[r] \in ReportObject
        /\ obj \in [Reports -> ReportObject] /\ pc \in [Reports -> Steps]
        /\ cur \in [Reports -> BOOLEAN] /\ period \in [Reports -> Period]
        /\ read \in [Reports -> Read] /\ rows \in [Reports -> Seq(Row)]
        /\ wiped \in [Reports -> BOOLEAN]
    BY DEF TypeOK
  <1>r. ASSUME Release(r) PROVE pc'[r] = "idle" /\ read'[r] = NothingRead
    BY <1>0, <1>r DEF Release
  <1>q. ASSUME Release(r), UNCHANGED apiVars, UNCHANGED tableVars PROVE Quits(r)
    BY <1>q, <1>r DEF Quits
  <1>p. ASSUME UNCHANGED tableVars,
               pc[r] \in {"removeFinalizer", "putInvalid", "putWaiting", "putUnmet", "putFailed"},
               Release(r), UpdateAccepted(r) \/ UpdateRefused(r)
        PROVE  Quits(r) \/ Writes(r)
    BY <1>p, <1>q, <1>r DEF Writes, Planned, UpdateRefused
  <1>w. ASSUME UNCHANGED tableVars, UpdateAccepted(r), UNCHANGED <<obj, cur, period, read>>,
               \/ pc[r] = "addFinalizer" /\ pc'[r] = "run"
               \/ pc[r] = "putTable" /\ pc'[r] = "decide"
               \/ pc[r] = "putRunning" /\ pc'[r] = "generate"
        PROVE  Writes(r)
    BY <1>w DEF Writes, PlanSame, Planned
  <1>c. ASSUME NEW c \in Reasons
        PROVE  [obj[r] EXCEPT !.cond = c].cond = c /\ [obj[r] EXCEPT !.cond = c].spec = obj[r].spec
    BY <1>0 DEF ReportObject
  <1>1. CASE syncReport(r)
    <2>1. CASE UNCHANGED workVars
      BY <1>1, <2>1 DEF syncReport, Quits
    <2>2. CASE UNCHANGED read /\ \E step \in {"run", "addFinalizer", "removeFinalizer"} :
                                     pc' = [pc EXCEPT ![r] = step]
      BY <1>0, <1>1, <2>2 DEF syncReport, Starts
    <2> QED BY <1>1, <2>1, <2>2 DEF syncReport
  <1>2. CASE addReportFinalizer(r)
    <2>1. CASE UpdateRefused(r) /\ Fail(r)
      BY <1>2, <1>q, <2>1 DEF addReportFinalizer, UpdateRefused, Fail
    <2>2. CASE ~(UpdateRefused(r) /\ Fail(r))
      BY <1>0, <1>2, <1>w, <2>2 DEF addReportFinalizer
    <2> QED BY <2>1, <2>2
  <1>3. CASE removeReportFinalizer(r)
    BY <1>3, <1>p DEF removeReportFinalizer, Succeed, Fail
  <1>4. CASE runReport(r)
    <2>1. CASE Release(r)
      BY <1>4, <1>q, <2>1 DEF runReport
    <2>2. CASE /\ pc' = [pc EXCEPT ![r] = "putInvalid"]
               /\ obj' = [obj EXCEPT ![r] = [obj[r] EXCEPT !.cond = "Invalid"]]
               /\ UNCHANGED read
      BY <1>0, <1>4, <1>c, <2>2 DEF runReport, Rejects, Reasons
    <2>3. CASE /\ ~PeriodFails(obj[r].spec)
               /\ pc' = [pc EXCEPT ![r] = IF obj[r].table THEN "decide" ELSE "createTable"]
               /\ obj' = [obj EXCEPT ![r] = [obj[r] EXCEPT !.next =
                                               nextReportTimeAfter(now, obj[r])]]
               /\ UNCHANGED cur
               /\ period' = [period EXCEPT ![r] = getReportPeriod(now, obj[r])]
               /\ read' = [read EXCEPT ![r] = ReadNow(r)]
      <3>1. \A n : /\ [obj[r] EXCEPT !.next = n].cond = obj[r].cond
                   /\ [obj[r] EXCEPT !.next = n].spec = obj[r].spec
        BY <1>0 DEF ReportObject
      <3> QED BY <1>0, <1>4, <2>3, <3>1 DEF runReport, Plans
    <2> QED BY <1>4, <2>1, <2>2, <2>3 DEF runReport, Succeed, Fail
  <1>5. CASE setReportStatusInvalidReport(r)
    BY <1>5, <1>p DEF setReportStatusInvalidReport, Succeed, Fail
  <1>6. CASE createTable(r)
    <2>1. CASE Release(r)
      BY <1>6, <1>q, <2>1 DEF createTable
    <2>2. CASE ~Release(r)
      <3>1. obj' = [obj EXCEPT ![r] = [obj[r] EXCEPT !.table = TRUE]]
        BY <1>0, <1>6, <2>2 DEF createTable, Fail
      <3>2. /\ [obj[r] EXCEPT !.table = TRUE].cond = obj[r].cond
            /\ [obj[r] EXCEPT !.table = TRUE].spec = obj[r].spec
        BY <1>0 DEF ReportObject
      <3> QED BY <1>0, <1>6, <2>2, <3>1, <3>2 DEF createTable, Fail, GetsTable, PlanSame
    <2> QED BY <2>1, <2>2
  <1>7. CASE putTable(r)
    <2>1. CASE UpdateRefused(r) /\ Fail(r)
      BY <1>7, <1>q, <2>1 DEF putTable, UpdateRefused, Fail
    <2>2. CASE ~(UpdateRefused(r) /\ Fail(r))
      BY <1>0, <1>7, <1>w, <2>2 DEF putTable
    <2> QED BY <2>1, <2>2
  <1>8. CASE decide(r)
    <2>1. CASE Release(r)
      BY <1>8, <1>q, <2>1 DEF decide
    <2>2. CASE ~Release(r)
      <3>0. {"Waiting", "Unmet", "RunImmediately", "Scheduled"} \subseteq Reasons
        BY DEF Reasons
      <3>1. PICK step \in {"putWaiting", "putUnmet", "putRunning"},
                 c \in {"Waiting", "Unmet", "RunImmediately", "Scheduled"} :
              /\ pc' = [pc EXCEPT ![r] = step]
              /\ obj' = [obj EXCEPT ![r] = [obj[r] EXCEPT !.cond = c]]
              /\ UNCHANGED <<cur, period, read>>
              /\ step = "putRunning" /\ ~obj[r].spec.runImmediately =>
                   period[r].end <= read[r].now /\ ~DataUnmet(r) /\ UnmetSubReports(r) = {}
        BY <1>0, <1>8, <2>2 DEF decide
      <3>2. /\ pc'[r] = step /\ obj'[r].cond = c /\ PlanSame(r)
        BY <1>0, <1>c, <3>0, <3>1 DEF PlanSame
      <3> QED BY <1>8, <3>1, <3>2 DEF decide, Decides
    <2> QED BY <2>1, <2>2
  <1>9. CASE putWaiting(r)
    BY <1>9, <1>p DEF putWaiting, Fail
  <1>10. CASE putUnmet(r)
    BY <1>10, <1>p DEF putUnmet, Succeed, Fail
  <1>11. CASE putRunning(r)
    <2>1. CASE UpdateRefused(r) /\ Fail(r)
      BY <1>11, <1>q, <2>1 DEF putRunning, UpdateRefused, Fail
    <2>2. CASE ~(UpdateRefused(r) /\ Fail(r))
      BY <1>0, <1>11, <1>w, <2>2 DEF putRunning
    <2> QED BY <2>1, <2>2
  <1>12. CASE renderAndDelete(r)
    <2>1. CASE Fail(r) /\ UNCHANGED tableVars
      BY <1>12, <1>q, <2>1 DEF renderAndDelete, Fail
    <2>2. CASE /\ pc' = [pc EXCEPT ![r] = "putFailed"]
               /\ obj' = [obj EXCEPT ![r].cond = "Failed"]
               /\ UNCHANGED <<read, tableVars>>
      BY <1>0, <1>12, <1>c, <2>2 DEF renderAndDelete, GoesWrong, Reasons
    <2>3. CASE /\ pc' = [pc EXCEPT ![r] = "insert"]
               /\ rows' = IF obj[r].spec.overwrite THEN [rows EXCEPT ![r] = << >>] ELSE rows
               /\ wiped' = [wiped EXCEPT ![r] = @ \/ obj[r].spec.overwrite]
               /\ UNCHANGED <<obj, cur, period, read>>
      <3>1. TableSame(r) \/ (rows'[r] = << >> /\ wiped'[r])
        BY <1>0, <2>3
      <3> QED BY <1>0, <1>12, <2>3, <3>1 DEF renderAndDelete, Empties, PlanSame
    <2> QED BY <1>12, <2>1, <2>2, <2>3 DEF renderAndDelete
  <1>13. CASE insertResults(r)
    <2>1. CASE pc' = [pc EXCEPT ![r] = "putFailed"]
      BY <1>0, <1>13, <1>c, <2>1 DEF insertResults, GoesWrong, Reasons
    <2>2. CASE pc' # [pc EXCEPT ![r] = "putFailed"]
      <3>1. /\ obj' = [obj EXCEPT ![r] = AfterReport(obj[r], period[r].end)]
            /\ pc' = [pc EXCEPT ![r] = "putFinal"]
            /\ rows' = [rows EXCEPT ![r] =
                          Append(@, [ start |-> period[r].start, end |-> period[r].end,
                                      forced |-> obj[r].spec.runImmediately ])]
        BY <1>13, <2>2 DEF insertResults
      <3>2. AfterReport(obj[r], period[r].end).spec = obj[r].spec
        BY <1>0, AfterReportSame DEF Period
      <3> QED BY <1>0, <1>13, <3>1, <3>2 DEF insertResults, Inserts, PlanSame
    <2> QED BY <2>1, <2>2
  <1>14. CASE putFailed(r)
    BY <1>14, <1>p DEF putFailed, Fail
  <1>15. CASE putFinal(r)
    BY <1>15, <1>q, <1>r DEF putFinal, Records, UpdateRefused, Fail
  <1> QED BY <1>1, <1>2, <1>3, <1>4, <1>5, <1>6, <1>7, <1>8, <1>9, <1>10, <1>11, <1>12,
             <1>13, <1>14, <1>15 DEF worker

-----------------------------------------------------------------------------
(* The importer                                                            *)

(* Time passes and imports only ever cover more.                           *)
Later ==
  /\ now <= now'
  /\ \A p \in Period \cup Row : Covers(imported, p) => Covers(imported', p)
  /\ \A status \in Import : Promised(imported, status) => Promised(imported', status)

LEMMA ImportStep ==
  ASSUME TypeOK, ImportSound, [Next]_vars
  PROVE  ImportSound' /\ Later
  <1>0. now \in Nat /\ imported \in Import /\ coverage \in Import /\ MaxBackfill \in Nat
    BY ControllerAssumption DEF TypeOK
  <1>1. CASE UNCHANGED <<now, imported, coverage>>
    BY <1>0, <1>1 DEF ImportSound, Later, Covers, Promised
  <1>2. ASSUME NEW some \in BOOLEAN, importMetrics(some) PROVE ImportSound' /\ Later
    <2>1. /\ now' = now /\ coverage' = coverage /\ imported'.end = now
          /\ imported'.start \in Nat
          /\ imported.start # Null => imported'.start = imported.start
      BY <1>0, <1>2, NullAssumption DEF importMetrics, envVars, Import, OptTime
    <2>2. ImportSound'
      BY <1>0, <2>1, NullAssumption DEF ImportSound, Promised, Import, OptTime
    <2>3. Later
      <3>1. ASSUME NEW p \in Period \cup Row, Covers(imported, p)
            PROVE  Covers(imported', p)
        <4>1. p.start \in Nat /\ p.end \in Nat
          BY DEF Period, Row
        <4> QED BY <1>0, <2>1, <3>1, <4>1, NullAssumption
                DEF Covers, ImportSound, Import, OptTime
      <3>2. ASSUME NEW status \in Import, Promised(imported, status)
            PROVE  Promised(imported', status)
        <4>1. status.start \in OptTime /\ status.end \in OptTime
          BY DEF Import
        <4> QED BY <1>0, <2>1, <3>2, <4>1, NullAssumption
                DEF Promised, ImportSound, Import, OptTime
      <3> QED BY <1>0, <2>1, <3>1, <3>2 DEF Later
    <2> QED BY <2>2, <2>3
  <1>3. CASE publishImport
    BY <1>0, <1>3 DEF publishImport, envVars, ImportSound, Promised, Later, Import, OptTime
  <1>4. CASE tick
    <2>1. now' = now + 1 /\ UNCHANGED importVars
      BY <1>4 DEF tick
    <2> QED BY <1>0, <2>1 DEF importVars, ImportSound, Promised, Later, Import, OptTime
  <1>5. ASSUME NEW r \in Reports, worker(r) PROVE UNCHANGED <<now, imported, coverage>>
    BY <1>5 DEF worker, syncReport, addReportFinalizer, removeReportFinalizer, runReport,
                setReportStatusInvalidReport, createTable, putTable, decide, putWaiting,
                putUnmet, putRunning, renderAndDelete, insertResults, putFailed, putFinal,
                importVars, envVars
  <1>6. ASSUME NEW r \in Reports, deliver(r) \/ fireTimer(r) \/ user(r)
        PROVE  UNCHANGED <<now, imported, coverage>>
    BY <1>6 DEF deliver, fireTimer, user, createReport, editReport, deleteReport,
                createReportQuery, importVars, envVars
  <1>7. CASE restart \/ UNCHANGED vars
    <2>1. UNCHANGED <<now, imported, coverage>>
      BY <1>7 DEF restart, vars, importVars, envVars
    <2> QED BY <1>1, <2>1
  <1> QED BY <1>1, <1>2, <1>3, <1>4, <1>5, <1>6, <1>7 DEF Next

(* What is backed by data stays so.                                        *)
LEMMA BackedLater ==
  ASSUME TypeOK, TypeOK', Later, NEW r \in Reports, NEW p \in Period \cup Row, Backed(r, p)
  PROVE  Backed(r, p)'
  <1>1. p.end \in Nat /\ now \in Nat /\ now' \in Nat
    BY DEF Period, Row, TypeOK
  <1> QED BY <1>1 DEF Backed, Later

-----------------------------------------------------------------------------
(* One lemma for each part of the invariant                                *)

(* Nothing of the status of r changes.                                     *)
StatusSame(r) == Same(r) /\ read'[r] = read[r]

LEMMA ReadSoundFrame ==
  ASSUME TypeOK, TypeOK', Later, NEW r \in Reports, ReadSound(r),
         read'[r] \in {NothingRead, read[r]}
  PROVE  ReadSound(r)'
  <1>1. /\ now \in Nat /\ now' \in Nat /\ now <= now'
        /\ read[r].now \in Nat /\ read[r].coverage \in Import
    BY DEF TypeOK, Later, Read
  <1>2. CASE read'[r] = read[r]
    BY <1>1, <1>2 DEF ReadSound, Later
  <1>3. CASE read'[r] = NothingRead
    BY <1>1, <1>3 DEF ReadSound, NothingRead, NoImport, Promised
  <1> QED BY <1>2, <1>3

LEMMA RowsBackedFrame ==
  ASSUME TypeOK, TypeOK', Later, NEW r \in Reports, RowsBacked(r), rows'[r] = rows[r],
         read'[r] \in {NothingRead, read[r]} \/ ReadSound(r)',
         pc'[r] \in {"putRunning", "generate", "insert"} /\ ~obj'[r].spec.runImmediately =>
           period'[r] = period[r] /\ Backed(r, period[r])
  PROVE  RowsBacked(r)'
  <1>2. ReadSound(r)'
    BY ReadSoundFrame DEF RowsBacked
  <1>3. pc'[r] \in {"putRunning", "generate", "insert"} /\ ~obj'[r].spec.runImmediately =>
          Backed(r, period[r])' /\ period'[r] = period[r]
    <2>1. period[r] \in Period
      BY DEF TypeOK
    <2>2. ASSUME period'[r] = period[r], Backed(r, period[r]) PROVE Backed(r, period[r])'
      BY <2>1, <2>2, BackedLater DEF Backed
    <2> QED BY <2>2
  <1>4. ASSUME NEW i \in 1..Len(rows'[r]), ~rows'[r][i].forced
        PROVE  Backed(r, rows[r][i])'
    <2>1. rows[r] \in Seq(Row) /\ i \in 1..Len(rows[r]) /\ rows[r][i] \in Row
      BY <1>4 DEF TypeOK
    <2>2. Backed(r, rows[r][i])
      BY <1>4, <2>1 DEF RowsBacked
    <2> QED BY <2>1, <2>2, BackedLater DEF Backed
  <1> QED BY <1>2, <1>3, <1>4 DEF RowsBacked

(* Rows only come from periods that decide found complete.                 *)
LEMMA WorkerRowsBacked ==
  ASSUME TypeOK, TypeOK', ImportSound, Later, NEW r \in Reports, RowsBacked(r), worker(r)
  PROVE  RowsBacked(r)'
  <1>0. /\ period[r] \in Period /\ read[r].now \in Nat /\ now \in Nat
        /\ read[r].coverage \in Import
        /\ obj[r].spec.runImmediately \in BOOLEAN
    BY DEF TypeOK, ReportObject, ReportSpec, Read
  <1>1. CASE Quits(r) \/ Starts(r) \/ Rejects(r) \/ GoesWrong(r)
    BY <1>1, RowsBackedFrame DEF Quits, Starts, Rejects, GoesWrong, TableSame
  <1>2. CASE GetsTable(r) \/ Records(r)
    BY <1>2, RowsBackedFrame DEF GetsTable, Records, TableSame, PlanSame
  <1>7. CASE Plans(r)
    <2>1. NoImport \in Import /\ Promised(imported, NoImport) /\ now' \in Nat /\ now <= now'
            /\ coverage \in Import
      BY ReadType DEF NoImport, Promised, TypeOK, Later
    <2>2. ReadNow(r).now = now /\ ReadNow(r).coverage \in {coverage, NoImport}
      BY DEF ReadNow
    <2>3. ReadSound(r)'
      BY <1>0, <1>7, <2>1, <2>2 DEF Plans, ReadSound, ImportSound, Later
    <2> QED BY <1>7, <2>3, RowsBackedFrame DEF Plans, TableSame
  <1>3. CASE Decides(r)
    <2>1. ASSUME pc'[r] = "putRunning", ~obj[r].spec.runImmediately
          PROVE  Backed(r, period[r])
      <3>1. period[r].end <= read[r].now /\ read[r].now <= now /\ period[r].end \in Nat
        BY <1>0, <1>3, <2>1 DEF Decides, RowsBacked, ReadSound, Period
      <3>2. r \in Metered => Covers(imported, period[r])
        <4>1. r \in Metered => DataCovered(r)
          BY <1>3, <2>1 DEF Decides, DataUnmet
        <4>2. /\ imported.start \in OptTime /\ imported.end \in OptTime
              /\ read[r].coverage.start \in OptTime /\ read[r].coverage.end \in OptTime
              /\ period[r].start \in Nat
          BY <1>0 DEF TypeOK, Import, Period
        <4> QED BY <3>1, <4>1, <4>2, NullAssumption
                DEF DataCovered, RowsBacked, ReadSound, Promised, Covers, OptTime
      <3> QED BY <1>0, <3>1, <3>2 DEF Backed
    <2>2. /\ obj'[r].spec = obj[r].spec /\ period'[r] = period[r] /\ read'[r] = read[r]
          /\ rows'[r] = rows[r] /\ pc'[r] \in {"putWaiting", "putUnmet", "putRunning"}
      BY <1>3 DEF Decides, PlanSame, TableSame
    <2> QED BY <2>1, <2>2, RowsBackedFrame
  <1>4. CASE Writes(r)
    <2>1. CASE pc'[r] = "idle" /\ read'[r] = NothingRead
      BY <1>4, <2>1, RowsBackedFrame DEF Writes, TableSame
    <2>2. CASE ~(pc'[r] = "idle" /\ read'[r] = NothingRead)
      BY <1>4, <2>2, RowsBackedFrame DEF Writes, TableSame, PlanSame, RowsBacked
    <2> QED BY <2>1, <2>2
  <1>5. CASE Empties(r)
    <2>1. /\ obj'[r].spec = obj[r].spec /\ period'[r] = period[r] /\ read'[r] = read[r]
          /\ pc[r] = "generate" /\ pc'[r] = "insert"
      BY <1>5 DEF Empties, PlanSame
    <2>2. CASE TableSame(r)
      BY <2>1, <2>2, RowsBackedFrame DEF TableSame, RowsBacked
    <2>3. CASE rows'[r] = << >>
      <3>1. ~obj[r].spec.runImmediately => Backed(r, period[r])'
        <4>1. ~obj[r].spec.runImmediately => Backed(r, period[r])
          BY <2>1 DEF RowsBacked
        <4> QED BY <1>0, <2>1, <4>1, BackedLater DEF Backed
      <3>2. ReadSound(r)'
        BY <2>1, ReadSoundFrame DEF RowsBacked
      <3>3. 1..Len(rows'[r]) = {}
        BY <2>3
      <3> QED BY <2>1, <3>1, <3>2, <3>3 DEF RowsBacked
    <2> QED BY <1>5, <2>2, <2>3 DEF Empties
  <1>6. CASE Inserts(r)
    <2> DEFINE row == [ start |-> period[r].start, end |-> period[r].end,
                        forced |-> obj[r].spec.runImmediately ]
    <2>1. row \in Row /\ row.start = period[r].start /\ row.end = period[r].end
            /\ row.forced = obj[r].spec.runImmediately
      BY <1>0 DEF Row, Period
    <2>2. /\ rows'[r] = Append(rows[r], row) /\ rows[r] \in Seq(Row) /\ pc'[r] = "putFinal"
          /\ read'[r] = read[r] /\ pc[r] = "insert"
      BY <1>6 DEF Inserts, PlanSame, TypeOK
    <2> HIDE DEF row
    <2>3. ~row.forced => Backed(r, row)
      BY <2>1, <2>2 DEF RowsBacked, Backed, Covers
    <2>4. \A i \in 1..Len(rows'[r]) :
            \/ i \in 1..Len(rows[r]) /\ rows'[r][i] = rows[r][i] /\ rows[r][i] \in Row
            \/ rows'[r][i] = row
      BY <2>1, <2>2
    <2>5. ASSUME NEW i \in 1..Len(rows'[r]), ~rows'[r][i].forced
          PROVE  Backed(r, rows[r][i])'
      <3>1. PICK p \in Row : p = rows'[r][i] /\ Backed(r, p)
        BY <2>1, <2>3, <2>4, <2>5 DEF RowsBacked
      <3> QED BY <3>1, BackedLater DEF Backed
    <2>6. ReadSound(r)'
      BY <2>2, ReadSoundFrame DEF RowsBacked
    <2> QED BY <2>2, <2>5, <2>6 DEF RowsBacked
  <1> QED BY <1>1, <1>2, <1>3, <1>4, <1>5, <1>6, <1>7, StepKinds

(* The condition Finished comes with the last row, and goes before the     *)
(* table changes.                                                          *)
LEMMA WorkerFinishedBacked ==
  ASSUME TypeOK, NEW r \in Reports, LedgerInv(r), FinishedBacked(r), worker(r)
  PROVE  FinishedBacked(r)'
  <1>0. obj[r] \in ReportObject /\ rows[r] \in Seq(Row)
    BY DEF TypeOK
  <1>1. CASE Quits(r) \/ Starts(r) \/ Rejects(r) \/ GoesWrong(r)
    BY <1>1 DEF Quits, Starts, Rejects, GoesWrong, TableSame, StoreSame, FinishedBacked
  <1>2. CASE Plans(r)
    <2>1. cur[r] => obj[r].cond = api[r].cond
      BY <1>2 DEF Plans, LedgerInv, CopiesSound
    <2> QED BY <1>2, <2>1 DEF Plans, TableSame, StoreSame, FinishedBacked
  <1>3. CASE GetsTable(r) \/ Decides(r)
    BY <1>3 DEF GetsTable, Decides, PlanSame, TableSame, StoreSame, FinishedBacked
  <1>4. CASE Writes(r)
    <2>1. /\ api'[r].last = api[r].last /\ api'[r].cond = obj[r].cond /\ cur[r]
      BY <1>4, Accepted DEF Writes
    <2>2. api'[r].cond = "Finished" => api[r].cond = "Finished"
      BY <1>4, <2>1 DEF Writes, Planned, LedgerInv, CopiesSound, FinishedBacked
    <2>3. /\ api'[r].cond = "Finished" =>
               rows'[r] # << >> /\ rows'[r][Len(rows'[r])].end = api'[r].last
      BY <1>4, <2>1, <2>2 DEF Writes, TableSame, FinishedBacked
    <2>4. pc'[r] = "generate" => api'[r].cond # "Finished"
      BY <1>4, <2>1 DEF Writes, FinishedBacked
    <2>5. pc'[r] \in {"idle", "run", "decide", "generate"}
      BY <1>4 DEF Writes
    <2> QED BY <2>3, <2>4, <2>5 DEF FinishedBacked
  <1>5. CASE Empties(r)
    BY <1>5 DEF Empties, StoreSame, FinishedBacked
  <1>6. CASE Inserts(r)
    BY <1>6 DEF Inserts, StoreSame, FinishedBacked
  <1>7. CASE Records(r)
    <2>1. /\ Len(rows[r]) > 0 /\ obj[r].last = rows[r][Len(rows[r])].end
      BY <1>7 DEF Records, LedgerInv, PeriodSound
    <2>2. api'[r].last = obj[r].last
      BY <1>0, <1>7, StoredSame DEF Records, UpdateAccepted, TypeOK
    <2>3. rows[r] # << >>
      BY <1>0, <2>1
    <2> QED BY <1>7, <2>1, <2>2, <2>3 DEF Records, TableSame, FinishedBacked
  <1> QED BY <1>1, <1>2, <1>3, <1>4, <1>5, <1>6, <1>7, StepKinds

(* The table keeps what LastReportTime stands for.                         *)
LEMMA ReachesStays ==
  ASSUME TypeOK, NEW r \in Reports, NEW t, Reaches(r, t),
         rows'[r] = rows[r] \/ (\E row \in Row : rows'[r] = Append(rows[r], row))
  PROVE  \E i \in 1..Len(rows'[r]) : rows'[r][i].end >= t
  <1>1. rows[r] \in Seq(Row)
    BY DEF TypeOK
  <1>2. PICK i \in 1..Len(rows[r]) : rows[r][i].end >= t
    BY DEF Reaches
  <1>3. i \in 1..Len(rows'[r]) /\ rows'[r][i] = rows[r][i]
    BY <1>1
  <1> QED BY <1>2, <1>3

LEMMA WorkerLastReached ==
  ASSUME TypeOK, NEW r \in Reports, LedgerInv(r), LastReached(r), worker(r)
  PROVE  LastReached(r)'
  <1>0. obj[r] \in ReportObject /\ rows[r] \in Seq(Row)
    BY DEF TypeOK
  <1>1. CASE Quits(r) \/ Starts(r) \/ Rejects(r) \/ GoesWrong(r) \/ Plans(r) \/ GetsTable(r)
             \/ Decides(r)
    <2>1. StoreSame(r) /\ TableSame(r)
      BY <1>1 DEF Quits, Starts, Rejects, GoesWrong, Plans, GetsTable, Decides
    <2> QED BY <2>1 DEF StoreSame, TableSame, LastReached, Reaches
  <1>2. CASE Writes(r)
    <2>1. api'[r].last = api[r].last /\ cache'[r] = cache[r] /\ TableSame(r)
      BY <1>2, Accepted DEF Writes
    <2> QED BY <2>1 DEF TableSame, LastReached, Reaches
  <1>3. CASE Empties(r)
    BY <1>3 DEF Empties, StoreSame, TableSame, LastReached, Reaches
  <1>4. CASE Inserts(r)
    <2>1. \E row \in Row : rows'[r] = Append(rows[r], row)
      <3>1. [ start |-> period[r].start, end |-> period[r].end,
              forced |-> obj[r].spec.runImmediately ] \in Row
        BY DEF TypeOK, Row, Period, ReportObject, ReportSpec
      <3> QED BY <1>4, <3>1 DEF Inserts
    <2>2. ASSUME NEW t, Reaches(r, t)
          PROVE  \E i \in 1..Len(rows'[r]) : rows'[r][i].end >= t
      BY <2>1, <2>2, ReachesStays
    <2>3. wiped'[r] = wiped[r] /\ api'[r] = api[r] /\ cache'[r] = cache[r]
      BY <1>4 DEF Inserts, StoreSame
    <2> QED BY <2>2, <2>3 DEF LastReached, Reaches
  <1>5. CASE Records(r)
    <2>1. /\ Len(rows[r]) > 0 /\ obj[r].last = rows[r][Len(rows[r])].end
      BY <1>5 DEF Records, LedgerInv, PeriodSound
    <2>2. api'[r].last = obj[r].last /\ cache'[r] = cache[r]
      BY <1>0, <1>5, StoredSame DEF Records, UpdateAccepted, TypeOK
    <2>3. /\ Len(rows[r]) \in 1..Len(rows[r]) /\ obj[r].last \in Nat
      <3>1. Len(rows[r]) \in 1..Len(rows[r]) /\ rows[r][Len(rows[r])] \in Row
        BY <1>0, <2>1
      <3> QED BY <2>1, <3>1 DEF Row
    <2>4. Len(rows[r]) \in 1..Len(rows'[r]) /\ rows'[r][Len(rows[r])].end >= api'[r].last
      BY <1>5, <2>1, <2>2, <2>3 DEF Records, TableSame
    <2>5. \E i \in 1..Len(rows'[r]) : rows'[r][i].end >= api'[r].last
      BY <2>4
    <2> QED BY <1>5, <2>2, <2>5 DEF Records, TableSame, LastReached, Reaches
  <1> QED BY <1>1, <1>2, <1>3, <1>4, <1>5, StepKinds

(* The period that getReportPeriod chooses.                                *)
LEMMA PeriodEnding ==
  ASSUME ScheduleAdvances, NEW t \in Nat, NEW o \in ReportObject, ~PeriodFails(o.spec)
  PROVE  \/ o.spec.end # Null /\ getReportPeriod(t, o).end = o.spec.end
         \/ o.spec.schedule # "none"
              /\ getReportPeriod(t, o).end > getReportPeriod(t, o).start
  <1>1. CASE o.spec.schedule = "none"
    BY <1>1, PeriodStarts
  <1>2. CASE o.spec.schedule # "none"
    <2>1. o.spec.schedule = "cron" /\ o.spec.start \in OptTime /\ o.last \in OptTime
            /\ o.next \in OptTime
      BY <1>2 DEF PeriodFails, ReportObject, ReportSpec
    <2>2. ScheduledStart(t, o) \in Nat
      BY <2>1, NullAssumption DEF ScheduledStart, OptTime, ScheduleAdvances
    <2>3. /\ FullPeriod(t, o) = [ start |-> ScheduledStart(t, o),
                                  end |-> NextTime(ScheduledStart(t, o)) ]
          /\ NextTime(ScheduledStart(t, o)) > ScheduledStart(t, o)
      BY <2>1, <2>2 DEF FullPeriod, getNextReportPeriod, ScheduleAdvances
    <2> QED BY <1>2, <2>3 DEF getReportPeriod
  <1> QED BY <1>1, <1>2

LEMMA WorkerPeriodEnds ==
  ASSUME ScheduleAdvances, TypeOK, NEW r \in Reports, LedgerInv(r), PeriodEnds(r), worker(r)
  PROVE  PeriodEnds(r)'
  <1>1. CASE Quits(r) \/ Starts(r) \/ Rejects(r) \/ GoesWrong(r) \/ Records(r)
    BY <1>1 DEF Quits, Starts, Rejects, GoesWrong, Records, PeriodEnds, Planned
  <1>2. CASE Plans(r)
    <2>1. obj[r] \in ReportObject /\ now \in Nat
      BY DEF TypeOK
    <2> QED BY <1>2, <2>1, PeriodEnding DEF Plans, PeriodEnds
  <1>3. CASE GetsTable(r) \/ Decides(r) \/ Empties(r)
    BY <1>3 DEF GetsTable, Decides, Empties, PlanSame, PeriodEnds, Planned
  <1>4. CASE Writes(r)
    BY <1>4 DEF Writes, PlanSame, PeriodEnds, Planned
  <1>5. CASE Inserts(r)
    <2>1. obj[r].spec.schedule # "none" /\ api[r].last # Null => period[r].start = api[r].last
      BY <1>5 DEF Inserts, LedgerInv, PeriodSound, Planned
    <2> QED BY <1>5, <2>1 DEF Inserts, PlanSame, StoreSame, PeriodEnds, Planned
  <1> QED BY <1>1, <1>2, <1>3, <1>4, <1>5, StepKinds

-----------------------------------------------------------------------------
(* The whole invariant                                                     *)

LEMMA StatusFrame ==
  ASSUME TypeOK, TypeOK', Later, NEW r \in Reports, StatusInv(r), StatusSame(r)
  PROVE  StatusInv(r)'
  <1>1. RowsBacked(r)'
    BY RowsBackedFrame DEF StatusInv, StatusSame, Same, RowsBacked
  <1>2. FinishedBacked(r)' /\ LastReached(r)' /\ PeriodEnds(r)'
    BY DEF StatusInv, StatusSame, Same, FinishedBacked, LastReached, PeriodEnds, Reaches
  <1> QED BY <1>1, <1>2 DEF StatusInv

(* A worker's step on one Report leaves what the others have read.         *)
LEMMA ReadFrame ==
  ASSUME TypeOK, NEW r \in Reports, worker(r), NEW q \in Reports, q # r
  PROVE  read'[q] = read[q]
  <1>0. read \in [Reports -> Read]
    BY DEF TypeOK
  <1>1. \/ UNCHANGED read \/ Release(r) \/ \E t : read' = [read EXCEPT ![r] = t]
    <2>1. CASE runReport(r)
      BY <2>1 DEF runReport, Succeed, Fail
    <2>2. CASE ~runReport(r)
      BY <2>2 DEF worker, syncReport, addReportFinalizer, removeReportFinalizer,
                  setReportStatusInvalidReport, createTable, putTable, decide, putWaiting,
                  putUnmet, putRunning, renderAndDelete, insertResults, putFailed, putFinal,
                  workVars, Succeed, Fail
    <2> QED BY <2>1, <2>2
  <1> QED BY <1>0, <1>1 DEF Release

LEMMA WorkerStatus ==
  ASSUME ScheduleAdvances, TypeOK, TypeOK', Ledgers, ImportSound, Later,
         NEW r \in Reports, worker(r), NEW q \in Reports, StatusInv(q)
  PROVE  StatusInv(q)'
  <1>1. CASE q = r
    <2>1. LedgerInv(r)
      BY DEF Ledgers
    <2>2. RowsBacked(r)'
      BY <1>1, WorkerRowsBacked DEF StatusInv
    <2>3. FinishedBacked(r)' /\ LastReached(r)' /\ PeriodEnds(r)'
      BY <1>1, <2>1, WorkerFinishedBacked, WorkerLastReached, WorkerPeriodEnds DEF StatusInv
    <2> QED BY <1>1, <2>2, <2>3 DEF StatusInv
  <1>2. CASE q # r
    <2>1. StatusSame(q)
      BY <1>2, WorkerFrame, ReadFrame DEF StatusSame
    <2> QED BY <2>1, StatusFrame
  <1> QED BY <1>1, <1>2

(* A user's write keeps LastReportTime and the condition, and makes the    *)
(* worker's copy stale.                                                    *)
LEMMA UserStatus ==
  ASSUME TypeOK, TypeOK', Later, NEW r \in Reports, LedgerInv(r), StatusInv(r), user(r)
  PROVE  StatusInv(r)'
  <1> USE DEF apiVars, workVars, tableVars, histVars
  <1>1. CASE createReportQuery(r)
    <2>1. StatusSame(r)
      BY <1>1 DEF createReportQuery, StatusSame, Same
    <2> QED BY <2>1, StatusFrame
  <1>2. CASE ~createReportQuery(r)
    <2>1. Outdate(r) /\ rows' = rows /\ wiped' = wiped
      BY <1>2 DEF user, createReport, editReport, deleteReport
    <2>2. /\ api'[r].last = api[r].last
          /\ api'[r].cond = "Finished" => api[r].cond = "Finished"
      <3>1. api \in [Reports -> ReportObject]
        BY DEF TypeOK
      <3>2. ASSUME NEW s \in UserSpecs, createReport(r, s)
            PROVE  api'[r].last = api[r].last /\ api'[r].cond # "Finished"
        <4>1. api[r].last = Null
          BY <3>2 DEF createReport, LedgerInv, ObjectsExist
        <4> QED BY <3>1, <3>2, <4>1 DEF createReport, NoReport
      <3>3. ASSUME NEW s \in UserSpecs, editReport(r, s)
            PROVE  api'[r].last = api[r].last /\ api'[r].cond = api[r].cond
        BY <3>1, <3>3 DEF editReport, ReportObject
      <3>4. CASE deleteReport(r)
        BY <3>1, <3>4 DEF deleteReport, ReportObject
      <3> QED BY <1>2, <3>2, <3>3, <3>4 DEF user
    <2>3. /\ pc' = pc /\ obj' = obj /\ period' = period /\ read' = read
          /\ cache' = cache /\ ~cur'[r]
      BY <2>1 DEF Outdate, TypeOK
    <2>4. RowsBacked(r)'
      BY <2>1, <2>3, RowsBackedFrame DEF StatusInv, RowsBacked
    <2>5. FinishedBacked(r)'
      BY <2>1, <2>2, <2>3 DEF StatusInv, FinishedBacked
    <2>6. LastReached(r)' /\ PeriodEnds(r)'
      BY <2>1, <2>2, <2>3 DEF StatusInv, LastReached, PeriodEnds, Reaches
    <2> QED BY <2>4, <2>5, <2>6 DEF StatusInv
  <1> QED BY <1>1, <1>2

LEMMA EnvironmentStatus ==
  ASSUME TypeOK, TypeOK', Ledgers, Later, NEW q \in Reports, StatusInv(q),
         \/ \E r \in Reports : deliver(r) \/ fireTimer(r) \/ user(r)
         \/ \E some \in BOOLEAN : importMetrics(some)
         \/ publishImport \/ tick \/ restart
  PROVE  StatusInv(q)'
  <1> USE DEF apiVars, workVars, tableVars, histVars
  <1>1. ASSUME NEW r \in Reports, deliver(r) PROVE StatusInv(q)'
    <2>1. /\ api' = api /\ pc' = pc /\ obj' = obj /\ cur' = cur /\ period' = period
          /\ read' = read /\ rows' = rows /\ wiped' = wiped
          /\ cache'[q] \in {cache[q], api[q]}
      BY <1>1 DEF deliver, TypeOK
    <2>2. RowsBacked(q)'
      BY <2>1, RowsBackedFrame DEF StatusInv, RowsBacked
    <2>3. FinishedBacked(q)' /\ LastReached(q)' /\ PeriodEnds(q)'
      BY <2>1 DEF StatusInv, FinishedBacked, LastReached, PeriodEnds, Reaches
    <2> QED BY <2>2, <2>3 DEF StatusInv
  <1>2. ASSUME NEW r \in Reports, fireTimer(r) PROVE StatusInv(q)'
    <2>1. StatusSame(q)
      BY <1>2 DEF fireTimer, StatusSame, Same
    <2> QED BY <2>1, StatusFrame
  <1>3. ASSUME NEW r \in Reports, user(r) PROVE StatusInv(q)'
    <2>1. CASE q # r
      <3>1. StatusSame(q)
        <4>1. CASE createReportQuery(r)
          BY <4>1 DEF createReportQuery, StatusSame, Same
        <4>2. ASSUME NEW s \in UserSpecs, createReport(r, s) \/ editReport(r, s)
              PROVE  StatusSame(q)
          BY <2>1, <4>2 DEF createReport, editReport, Outdate, StatusSame, Same, TypeOK
        <4>3. CASE deleteReport(r)
          BY <2>1, <4>3 DEF deleteReport, Outdate, StatusSame, Same, TypeOK
        <4> QED BY <1>3, <4>1, <4>2, <4>3 DEF user
      <3> QED BY <3>1, StatusFrame
    <2>2. CASE q = r
      BY <1>3, <2>2, UserStatus DEF Ledgers
    <2> QED BY <2>1, <2>2
  <1>4. ASSUME NEW some \in BOOLEAN, importMetrics(some) PROVE StatusInv(q)'
    <2>1. StatusSame(q)
      BY <1>4 DEF importMetrics, StatusSame, Same
    <2> QED BY <2>1, StatusFrame
  <1>5. CASE publishImport \/ tick
    <2>1. StatusSame(q)
      BY <1>5 DEF publishImport, tick, StatusSame, Same
    <2> QED BY <2>1, StatusFrame
  <1>6. CASE restart
    <2>1. /\ api' = api /\ cache' = api /\ pc'[q] = "idle" /\ read'[q] = NothingRead
          /\ rows' = rows /\ wiped' = wiped
      BY <1>6 DEF restart
    <2>2. RowsBacked(q)'
      BY <2>1, RowsBackedFrame DEF StatusInv
    <2>3. FinishedBacked(q)' /\ LastReached(q)' /\ PeriodEnds(q)'
      BY <2>1 DEF StatusInv, FinishedBacked, LastReached, PeriodEnds, Reaches, Planned
    <2> QED BY <2>2, <2>3 DEF StatusInv
  <1> QED BY <1>1, <1>2, <1>3, <1>4, <1>5, <1>6

(* A table only grows, unless it is emptied.                               *)
LEMMA TableGrows ==
  ASSUME TypeOK, [Next]_vars, NEW s \in Reports
  PROVE  \/ wiped'[s]
         \/ /\ wiped'[s] = wiped[s]
            /\ rows'[s] = rows[s] \/ (\E row \in Row : rows'[s] = Append(rows[s], row))
  <1>1. CASE TableSame(s)
    BY <1>1 DEF TableSame
  <1>2. CASE worker(s)
    <2>1. CASE Inserts(s)
      <3>1. [ start |-> period[s].start, end |-> period[s].end,
              forced |-> obj[s].spec.runImmediately ] \in Row
        BY DEF TypeOK, Row, Period, ReportObject, ReportSpec
      <3> QED BY <2>1, <3>1 DEF Inserts
    <2>2. CASE Empties(s)
      BY <1>1, <2>2 DEF Empties
    <2>3. CASE ~Inserts(s) /\ ~Empties(s)
      BY <1>1, <1>2, <2>3, StepKinds DEF Quits, Starts, Rejects, Plans, GetsTable, Decides,
                                         Writes, GoesWrong, Records
    <2> QED BY <2>1, <2>2, <2>3
  <1>3. ASSUME NEW r \in Reports, worker(r), r # s PROVE TableSame(s)
    BY <1>3, WorkerFrame DEF Same, TableSame
  <1>4. CASE ~\E r \in Reports : worker(r)
    <2>1. UNCHANGED tableVars
      BY <1>4 DEF Next, deliver, fireTimer, user, createReport, editReport, deleteReport,
                  createReportQuery, importMetrics, publishImport, tick, restart, vars
    <2> QED BY <1>1, <2>1 DEF tableVars, TableSame
  <1> QED BY <1>1, <1>2, <1>3, <1>4

(* What a sync has read is what it read at once, or nothing.               *)
LEMMA ReadSteps ==
  ASSUME TypeOK, [Next]_vars, NEW r \in Reports
  PROVE  read'[r] \in {read[r], NothingRead, ReadNow(r)}
  <1>1. CASE worker(r)
    BY <1>1, StepKinds DEF Quits, Starts, Rejects, Plans, GetsTable, Decides, Writes, Empties,
                           GoesWrong, Inserts, Records, PlanSame
  <1>2. ASSUME NEW q \in Reports, worker(q), q # r PROVE read'[r] = read[r]
    BY <1>2, ReadFrame
  <1>3. CASE restart
    BY <1>3 DEF restart
  <1>4. CASE ~restart /\ ~\E q \in Reports : worker(q)
    <2>1. UNCHANGED read
      BY <1>4 DEF Next, deliver, fireTimer, user, createReport, editReport, deleteReport,
                  createReportQuery, importMetrics, publishImport, tick, Outdate, vars, workVars
    <2> QED BY <2>1
  <1> QED BY <1>1, <1>2, <1>3, <1>4

(* The rows behind a LastReportTime that was read stay.                    *)
LEMMA ReadReachedStep ==
  ASSUME TypeOK, Statuses, [Next]_vars, NEW r \in Reports, NEW s \in Reports
  PROVE  ReadReached(r, s)'
  <1> SUFFICES ASSUME read'[r].last[s] # Null, ~wiped'[s]
               PROVE  \E i \in 1..Len(rows'[s]) : rows'[s][i].end >= read'[r].last[s]
    BY DEF ReadReached, Reaches
  <1>1. /\ ~wiped[s]
        /\ rows'[s] = rows[s] \/ (\E row \in Row : rows'[s] = Append(rows[s], row))
    BY TableGrows
  <1>2. read'[r].last[s] \in {read[r].last[s], cache[s].last}
    <2>1. NothingRead.last[s] = Null /\ ReadNow(r).last[s] \in {Null, cache[s].last}
      BY DEF NothingRead, ReadNow
    <2> QED BY <2>1, ReadSteps
  <1>3. PICK t : t = read'[r].last[s] /\ Reaches(s, t)
    BY <1>1, <1>2 DEF Statuses, StatusInv, LastReached, ReadReached
  <1> QED BY <1>1, <1>3, ReachesStays

LEMMA StatusesInit == Init => Statuses
  <1> SUFFICES ASSUME Init PROVE Statuses
    OBVIOUS
  <1>1. ImportSound /\ Promised(imported, NoImport)
    BY DEF Init, ImportSound, NoImport, Promised
  <1>2. ASSUME NEW r \in Reports PROVE StatusInv(r)
    <2>1. /\ api[r] = NoReport /\ cache[r] = NoReport /\ pc[r] = "idle" /\ read[r] = NothingRead
          /\ now = 0 /\ rows[r] = << >> /\ 1..Len(rows[r]) = {}
          /\ NoReport.last = Null /\ NoReport.cond = "New"
          /\ NothingRead.now = 0 /\ NothingRead.coverage = NoImport
      BY DEF Init, NoReport, NothingRead
    <2> QED BY <1>1, <2>1 DEF StatusInv, RowsBacked, ReadSound, FinishedBacked, LastReached,
                              PeriodEnds, Planned
  <1>3. ASSUME NEW r \in Reports, NEW s \in Reports PROVE ReadReached(r, s)
    BY DEF Init, ReadReached, NothingRead
  <1> QED BY <1>1, <1>2, <1>3 DEF Statuses

LEMMA StatusesStep ==
  ASSUME ScheduleAdvances, TypeOK, Ledgers, Statuses, [Next]_vars
  PROVE  Statuses'
  <1>1. TypeOK' /\ ImportSound' /\ Later
    BY TypeStep, ImportStep DEF Statuses
  <1>2. ASSUME NEW q \in Reports PROVE StatusInv(q)'
    <2>1. StatusInv(q) /\ ImportSound
      BY DEF Statuses
    <2>2. ASSUME NEW r \in Reports, worker(r) PROVE StatusInv(q)'
      BY <1>1, <2>1, <2>2, WorkerStatus
    <2>3. CASE UNCHANGED vars
      <3>1. StatusSame(q)
        BY <2>3 DEF vars, StatusSame, Same, apiVars, workVars, tableVars, histVars
      <3> QED BY <1>1, <2>1, <3>1, StatusFrame
    <2> QED BY <1>1, <2>1, <2>2, <2>3, EnvironmentStatus DEF Next
  <1> QED BY <1>1, <1>2, ReadReachedStep DEF Statuses

(* The invariant of the induction holds in every reachable state.          *)
THEOREM StatusesInvariant ==
  ASSUME ScheduleAdvances
  PROVE  Spec => [](TypeOK /\ Ledgers /\ Statuses)
  <1>1. TypeOK /\ Ledgers /\ Statuses /\ [Next]_vars => Statuses'
    BY StatusesStep
  <1> QED BY <1>1, StatusesInit, LedgersInvariant, PTL DEF Spec

-----------------------------------------------------------------------------
(* The theorems                                                            *)

(***************************************************************************)
(* runReport stores only periods that are over and, for a Report that      *)
(* reads metered data, only ones the importer has stored the metrics of,   *)
(* unless the Report is run immediately: neither the age of the copy it    *)
(* decides from nor a lagging import status lets an incomplete one pass.   *)
(***************************************************************************)
THEOREM ReportsRowsBackedByData ==
  ASSUME ScheduleAdvances
  PROVE  Spec => []RowsBackedByData
  <1>1. Statuses => RowsBackedByData
    BY DEF Statuses, StatusInv, RowsBacked, Backed, Covers, RowsBackedByData
  <1> QED BY <1>1, StatusesInvariant, PTL

(***************************************************************************)
(* A Finished status stands for a table whose last row ends at             *)
(* LastReportTime, however often the table is emptied, the Report reopened *)
(* or a write lost.                                                        *)
(***************************************************************************)
THEOREM FinishedReportsHaveRows ==
  ASSUME ScheduleAdvances
  PROVE  Spec => []FinishedReportHasRows
  <1>1. Statuses => FinishedReportHasRows
    BY DEF Statuses, StatusInv, FinishedBacked, FinishedReportHasRows
  <1> QED BY <1>1, StatusesInvariant, PTL

(* A write of the stored object keeps LastReportTime or moves it forward,  *)
(* or back to a ReportingEnd that was set before it.                       *)
LEMMA LastAdvances ==
  ASSUME TypeOK, Ledgers, Statuses, [Next]_vars, NEW q \in Reports, api[q].last # Null
  PROVE  /\ api'[q].last # Null
         /\ api'[q].last < api[q].last =>
              api[q].spec.end # Null /\ api[q].spec.end < api[q].last
  <1>0. api[q].last \in Nat
    BY DEF TypeOK, ReportObject, OptTime
  <1>1. CASE api'[q].last = api[q].last
    BY <1>0, <1>1
  <1>2. ASSUME NEW r \in Reports, worker(r), api'[q].last # api[q].last
        PROVE  /\ api'[q].last # Null
               /\ api'[q].last < api[q].last =>
                    api[q].spec.end # Null /\ api[q].spec.end < api[q].last
    <2>1. q = r
      BY <1>2, WorkerFrame DEF Same
    <2>2. LedgerInv(q) /\ StatusInv(q)
      BY DEF Ledgers, Statuses
    <2>3. Records(q)
      <3>1. CASE StoreSame(q)
        BY <1>2, <3>1 DEF StoreSame
      <3>2. CASE Writes(q)
        BY <1>2, <2>2, <3>2, Accepted DEF Writes
      <3> QED BY <1>2, <2>1, <3>1, <3>2, StepKinds DEF Quits, Starts, Rejects, Plans, GetsTable,
                                                   Decides, Empties, GoesWrong, Inserts
    <2>4. /\ obj[q] \in ReportObject /\ period[q] \in Period /\ api[q].last \in Nat
          /\ period[q].start \in Nat /\ period[q].end \in Nat
      BY <1>0 DEF TypeOK, Period
    <2>5. api'[q].last = period[q].end /\ obj[q].spec = api[q].spec
      <3>1. api'[q] = Stored(obj[q]) /\ cur[q]
        BY <2>3 DEF Records, UpdateAccepted, TypeOK
      <3> QED BY <2>2, <2>3, <2>4, <3>1, StoredSame
              DEF Records, LedgerInv, PeriodSound, CopiesSound
    <2>6. \/ api[q].spec.end # Null /\ period[q].end = api[q].spec.end
          \/ period[q].end > period[q].start /\ period[q].start = api[q].last
      BY <2>2, <2>3, <2>5 DEF Records, StatusInv, PeriodEnds
    <2> QED BY <2>4, <2>5, <2>6, NullAssumption
  <1>3. CASE ~\E r \in Reports : worker(r)
    <2>1. [Next]_vars /\ LedgerInv(q)
      BY DEF Ledgers
    <2>2. ASSUME NEW r \in Reports, user(r) PROVE api'[q].last = api[q].last
      <3>1. BooksUnchanged \/ Ledger!Rescope(r)
        BY <2>2, UserRefines DEF Ledgers
      <3>2. [p \in Reports |-> api'[p].last] = [p \in Reports |-> api[p].last]
              => api'[q].last = api[q].last
        <4>1. [p \in Reports |-> api'[p].last][q] = api'[q].last
                /\ [p \in Reports |-> api[p].last][q] = api[q].last
          OBVIOUS
        <4> QED BY <4>1
      <3> QED BY <3>1, <3>2 DEF BooksUnchanged, Ledger!Rescope
    <2>3. api'[q].last = api[q].last
      BY <1>3, <2>1, <2>2 DEF Next, deliver, fireTimer, importMetrics, publishImport, tick,
                              restart, vars, apiVars
    <2> QED BY <1>1, <2>3
  <1> QED BY <1>1, <1>2, <1>3

(***************************************************************************)
(* LastReportTime is never unset, and moves back only where a user moved   *)
(* ReportingEnd before it: a sync working from an old copy cannot turn it  *)
(* back.                                                                   *)
(***************************************************************************)
THEOREM ReportsLastReportTimeAdvances ==
  ASSUME ScheduleAdvances
  PROVE  Spec => LastReportTimeAdvances
  <1>1. TypeOK /\ Ledgers /\ Statuses /\ [Next]_vars =>
          [\A r \in Reports :
             api[r].last # Null =>
               /\ api'[r].last # Null
               /\ api'[r].last < api[r].last =>
                    api[r].spec.end # Null /\ api[r].spec.end < api[r].last]_vars
    BY LastAdvances
  <1> QED BY <1>1, StatusesInvariant, PTL DEF Spec, LastReportTimeAdvances

(* The sub-reports of a roll-up that is released have reported to the end  *)
(* of its period.                                                          *)
LEMMA RollupReleased ==
  ASSUME TypeOK, Ledgers, Statuses, [Next]_vars, NEW r \in Reports,
         pc[r] = "decide", pc'[r] = "putRunning", ~obj[r].spec.runImmediately,
         NEW s \in DependsOn[r], read[r].last[s] # Null, ~wiped[s]
  PROVE  \E i \in 1..Len(rows[s]) : rows[s][i].end >= period[r].end
  <1>1. s \in Reports
    BY ControllerAssumption
  <1>2. worker(r)
    <2>1. ASSUME NEW q \in Reports, worker(q), q # r PROVE FALSE
      BY <2>1, WorkerFrame DEF Same
    <2>2. ASSUME NEW q \in Reports, deliver(q) \/ fireTimer(q) \/ user(q) PROVE FALSE
      BY <2>2 DEF deliver, fireTimer, user, createReport, editReport, deleteReport,
                  createReportQuery, Outdate, workVars
    <2>3. ASSUME NEW some \in BOOLEAN, importMetrics(some) PROVE FALSE
      BY <2>3 DEF importMetrics, workVars
    <2>4. CASE publishImport \/ tick \/ restart \/ UNCHANGED vars
      BY <2>4 DEF publishImport, tick, restart, vars, workVars
    <2> QED BY <2>1, <2>2, <2>3, <2>4 DEF Next
  <1>3. Decides(r)
    BY <1>2, StepKinds DEF Quits, Starts, Rejects, Plans, GetsTable, Writes, Empties, GoesWrong,
                           Inserts, Records
  <1>4. read[r].last[s] \in Nat /\ period[r].end \in Nat
    BY <1>1 DEF TypeOK, Read, OptTime, Period
  <1>5. read[r].last[s] >= period[r].end
    BY <1>3, <1>4 DEF Decides, UnmetSubReports
  <1>6. PICK i \in 1..Len(rows[s]) : rows[s][i].end >= read[r].last[s]
    BY <1>1 DEF Statuses, ReadReached, Reaches
  <1>7. rows[s][i].end \in Nat
    <2>1. rows[s] \in Seq(Row)
      BY <1>1 DEF TypeOK
    <2>2. rows[s][i] \in Row
      BY <2>1
    <2> QED BY <2>2 DEF Row
  <1>8. rows[s][i].end >= period[r].end
    BY <1>4, <1>5, <1>6, <1>7
  <1> QED BY <1>8

(***************************************************************************)
(* A roll-up that runReport releases reads complete sub-reports: each one  *)
(* that had reported at all when the roll-up was validated holds rows up   *)
(* to the end of the roll-up's period, although the decision is made on    *)
(* copies read before the roll-up created its table and stored its status. *)
(***************************************************************************)
THEOREM RollupsReadReportedPeriods ==
  ASSUME ScheduleAdvances
  PROVE  Spec => RollupReadsReportedPeriods
  <1>1. TypeOK /\ Ledgers /\ Statuses /\ [Next]_vars =>
          [\A r \in Reports :
             pc[r] = "decide" /\ pc'[r] = "putRunning" /\ ~obj[r].spec.runImmediately =>
               \A s \in DependsOn[r] :
                 read[r].last[s] # Null /\ ~wiped[s] =>
                   \E i \in 1..Len(rows[s]) : rows[s][i].end >= period[r].end]_vars
    BY RollupReleased
  <1> QED BY <1>1, StatusesInvariant, PTL DEF Spec, RollupReadsReportedPeriods

-----------------------------------------------------------------------------
(***************************************************************************)
(* The inductive invariant behind WaitingReportHasWakeup                   *)
(***************************************************************************)

(* runReport ends the sync of this copy and leaves nothing behind.         *)
Blocked(r, o) ==
  \/ isReportFinished(o)
  \/ o.cond = "Invalid" /\ ~(SpecIsValid(o.spec) /\ queryReady[r])

(* The steps of a sync that was not ended there.                           *)
Past == Planned \cup {"putFailed", "putFinal"}

(* A sync is about a Report that was there, and copies are not ahead of    *)
(* the stored object in its life.                                          *)
LivesSound(r) ==
  /\ cur[r] => obj[r].phase = api[r].phase
  /\ pc[r] \notin {"idle", "removeFinalizer"} => obj[r].phase = "live"
  /\ pc[r] = "removeFinalizer" => obj[r].phase = "terminating" /\ ~obj[r].finalizer
  /\ pc[r] # "idle" => cache[r].phase # "absent"
  /\ cache[r].phase = "absent" => api[r].cond = "New"
  /\ cache[r].phase # "absent" => api[r].phase # "absent"
  /\ cache[r].phase \in {"terminating", "gone"} => api[r].phase \in {"terminating", "gone"}

(* From a copy that ends a sync nothing is written, and what was written   *)
(* from newer ones is in the copies that come after it.                    *)
BlockedSound(r) ==
  /\ cur[r] /\ pc[r] \in {"run", "addFinalizer"} =>
       /\ cache[r].spec = obj[r].spec /\ cache[r].last = obj[r].last
       /\ cache[r].cond = obj[r].cond
  /\ cur[r] /\ pc[r] \in Past => ~Blocked(r, cache[r]) /\ ~Blocked(r, api[r])
  /\ Blocked(r, cache[r]) => api[r].cond # "Waiting"
  /\ pc[r] \in {"run", "addFinalizer"} /\ Blocked(r, obj[r]) => api[r].cond # "Waiting"
  /\ pc[r] \in {"putRunning", "generate", "insert"} =>
       obj[r].cond \in {"Scheduled", "RunImmediately"}
  /\ pc[r] \in {"putInvalid", "putUnmet", "putFailed"} => obj[r].cond # "Waiting"

(* Somebody who waits, or is about to, will be woken.                      *)
WakeupSound(r) ==
  /\ api[r].phase = "live" /\ api[r].cond = "Waiting" /\ pc[r] = "idle" =>
       timer[r] # Null \/ r \in queue \/ r \in dropped
  /\ pc[r] = "putFinal" /\ obj[r].cond = "Waiting" => timer[r] # Null \/ r \in queue

WakeInv(r) == LivesSound(r) /\ BlockedSound(r) /\ WakeupSound(r)

Wakeups == \A r \in Reports : OnItsOwn(r) => WakeInv(r)

(* Whoever was to be woken still is.                                       *)
StaysAwake(r) ==
  /\ timer[r] # Null \/ r \in queue => timer'[r] # Null \/ r \in queue'
  /\ r \in dropped => r \in dropped'
  /\ queryReady[r] => queryReady'[r]

LEMMA WakeFrame ==
  ASSUME NEW r \in Reports, WakeInv(r), Same(r), StaysAwake(r)
  PROVE  WakeInv(r)'
  <1>1. /\ Blocked(r, cache[r])' => Blocked(r, cache[r])
        /\ Blocked(r, api[r])' => Blocked(r, api[r])
        /\ Blocked(r, obj[r])' => Blocked(r, obj[r])
    BY DEF Same, StaysAwake, Blocked
  <1>2. LivesSound(r)' /\ WakeupSound(r)'
    BY DEF WakeInv, Same, StaysAwake, LivesSound, WakeupSound
  <1>3. BlockedSound(r)'
    BY <1>1 DEF WakeInv, Same, BlockedSound
  <1> QED BY <1>2, <1>3 DEF WakeInv

(* The copies and the stored object do not change.                         *)
CopiesSame(r) == api'[r] = api[r] /\ cache'[r] = cache[r] /\ queryReady' = queryReady

(* A sync that ends, or does not begin, without a write.                   *)
LEMMA WakeEnd ==
  ASSUME NEW r \in Reports, WakeInv(r), CopiesSame(r), pc'[r] = "idle", cur'[r] = FALSE,
         \/ api[r].phase # "live" \/ api[r].cond # "Waiting"
         \/ timer'[r] # Null \/ r \in queue' \/ r \in dropped'
  PROVE  WakeInv(r)'
  <1>1. Blocked(r, cache[r])' => Blocked(r, cache[r])
    BY DEF CopiesSame, Blocked
  <1>2. LivesSound(r)' /\ WakeupSound(r)'
    BY DEF WakeInv, CopiesSame, LivesSound, WakeupSound
  <1>3. BlockedSound(r)'
    BY <1>1 DEF WakeInv, CopiesSame, BlockedSound, Past, Planned
  <1> QED BY <1>2, <1>3 DEF WakeInv

(* A sync goes on without a write.                                         *)
LEMMA WakeMove ==
  ASSUME NEW r \in Reports, WakeInv(r), CopiesSame(r),
         pc[r] \notin {"idle", "removeFinalizer"},
         pc'[r] \in Past \cup {"putInvalid"},
         obj'[r].phase = obj[r].phase, cur'[r] = cur[r],
         cur[r] /\ pc[r] \notin Past => \/ ~Blocked(r, cache[r]) /\ ~Blocked(r, api[r])
                                        \/ pc'[r] = "putInvalid",
         pc'[r] \in {"putRunning", "generate", "insert"} =>
           obj'[r].cond \in {"Scheduled", "RunImmediately"},
         pc'[r] \in {"putInvalid", "putUnmet", "putFailed"} => obj'[r].cond # "Waiting",
         pc'[r] = "putFinal" /\ obj'[r].cond = "Waiting" => timer'[r] # Null \/ r \in queue'
  PROVE  WakeInv(r)'
  <1>1. /\ Blocked(r, cache[r])' => Blocked(r, cache[r])
        /\ Blocked(r, api[r])' => Blocked(r, api[r])
    BY DEF CopiesSame, Blocked
  <1>2. LivesSound(r)' /\ WakeupSound(r)'
    BY DEF WakeInv, CopiesSame, LivesSound, WakeupSound, Past, Planned
  <1>3. BlockedSound(r)'
    BY <1>1 DEF WakeInv, CopiesSame, BlockedSound, Past, Planned
  <1> QED BY <1>2, <1>3 DEF WakeInv

(* A sync ends with an accepted write.                                     *)
LEMMA WakeWritten ==
  ASSUME TypeOK, NEW r \in Reports, LedgerInv(r), WakeInv(r), UpdateAccepted(r),
         queryReady' = queryReady, pc[r] # "idle", pc'[r] = "idle", cur'[r] = FALSE,
         obj[r].cond = "Waiting" =>
           \/ pc[r] = "removeFinalizer"
           \/ pc[r] \in Past /\ (timer'[r] # Null \/ r \in queue')
  PROVE  WakeInv(r)'
  <1>1. /\ api'[r] = Stored(obj[r]) /\ cache' = cache /\ cur[r]
        /\ obj[r] \in ReportObject /\ api[r] \in ReportObject
    BY DEF UpdateAccepted, TypeOK
  <1>2. /\ Stored(obj[r]).cond = obj[r].cond
        /\ Stored(obj[r]).phase = obj[r].phase \/ Stored(obj[r]).phase = "gone"
        /\ pc[r] = "removeFinalizer" => Stored(obj[r]).phase = "gone"
    <2>1. pc[r] = "removeFinalizer" => obj[r].phase = "terminating" /\ ~obj[r].finalizer
      BY DEF WakeInv, LivesSound
    <2> QED BY <1>1, <2>1 DEF Stored, ReportObject
  <1>3. obj[r].phase = api[r].phase /\ obj[r].phase \in {"live", "terminating"}
        /\ cache[r].phase # "absent"
    BY <1>1 DEF WakeInv, LivesSound
  <1>4. LivesSound(r)'
    BY <1>1, <1>2, <1>3 DEF WakeInv, LivesSound
  <1>5. Blocked(r, cache[r])' => Blocked(r, cache[r])
    BY <1>1 DEF Blocked
  <1>6. obj[r].cond = "Waiting" /\ pc[r] = "removeFinalizer" => api[r].cond = "Waiting"
    BY <1>1 DEF LedgerInv, CopiesSound
  <1>7. BlockedSound(r)'
    BY <1>1, <1>2, <1>5, <1>6 DEF WakeInv, BlockedSound, Past, Planned
  <1>8. WakeupSound(r)'
    BY <1>1, <1>2 DEF WakeupSound
  <1> QED BY <1>4, <1>7, <1>8 DEF WakeInv

(* A sync goes on after an accepted write.                                 *)
LEMMA WakeWrites ==
  ASSUME TypeOK, NEW r \in Reports, LedgerInv(r), StatusInv(r), WakeInv(r), UpdateAccepted(r),
         queryReady' = queryReady, obj'[r] = obj[r], cur'[r] = cur[r],
         \/ pc[r] = "addFinalizer" /\ pc'[r] = "run"
         \/ pc[r] = "putTable" /\ pc'[r] = "decide"
         \/ pc[r] = "putRunning" /\ pc'[r] = "generate"
  PROVE  WakeInv(r)'
  <1>1. /\ api'[r] = Stored(obj[r]) /\ cache' = cache /\ cur[r]
        /\ obj[r] \in ReportObject /\ api[r] \in ReportObject
    BY DEF UpdateAccepted, TypeOK
  <1>2. obj[r].phase = "live" /\ api[r].phase = "live" /\ cache[r].phase # "absent"
    BY <1>1 DEF WakeInv, LivesSound
  <1>3. Stored(obj[r]) = obj[r]
    BY <1>2 DEF Stored
  <1>4. LivesSound(r)'
    BY <1>1, <1>2, <1>3 DEF WakeInv, LivesSound
  <1>5. WakeupSound(r)'
    BY DEF WakeupSound
  <1>6. Blocked(r, cache[r])' => Blocked(r, cache[r])
    BY <1>1 DEF Blocked
  <1>7. CASE pc[r] = "addFinalizer"
    <2>1. obj[r].cond = api[r].cond
      BY <1>1, <1>7 DEF LedgerInv, CopiesSound
    <2>2. Blocked(r, obj[r])' => Blocked(r, obj[r])
      BY DEF Blocked
    <2>3. BlockedSound(r)'
      BY <1>1, <1>3, <1>6, <1>7, <2>1, <2>2 DEF WakeInv, BlockedSound, Past, Planned
    <2> QED BY <1>4, <1>5, <2>3 DEF WakeInv
  <1>8. CASE pc[r] = "putTable"
    <2>1. obj[r].cond = api[r].cond /\ obj[r].last = api[r].last /\ obj[r].spec = api[r].spec
      BY <1>1, <1>8 DEF LedgerInv, CopiesSound, StatusInv, FinishedBacked
    <2>2. Blocked(r, api[r])' => Blocked(r, api[r])
      BY <1>1, <1>3, <2>1 DEF Blocked, isReportFinished
    <2>3. BlockedSound(r)'
      BY <1>1, <1>3, <1>6, <1>8, <2>1, <2>2 DEF WakeInv, BlockedSound, Past, Planned
    <2> QED BY <1>4, <1>5, <2>3 DEF WakeInv
  <1>9. CASE pc[r] = "putRunning"
    <2>1. obj[r].cond \in {"Scheduled", "RunImmediately"}
      BY <1>9 DEF WakeInv, BlockedSound
    <2>2. ~Blocked(r, api[r])'
      BY <1>1, <1>3, <2>1 DEF Blocked, isReportFinished
    <2>3. BlockedSound(r)'
      BY <1>1, <1>3, <1>6, <1>9, <2>1, <2>2 DEF WakeInv, BlockedSound, Past, Planned
    <2> QED BY <1>4, <1>5, <2>3 DEF WakeInv
  <1> QED BY <1>7, <1>8, <1>9

(* handleErr queues the key again, or gives it up.                         *)
LEMMA FailWakes ==
  ASSUME TypeOK, NEW r \in Reports, Fail(r)
  PROVE  pc'[r] = "idle" /\ cur'[r] = FALSE /\ (timer'[r] # Null \/ r \in dropped')
  <1>1. /\ pc \in [Reports -> Steps] /\ cur \in [Reports -> BOOLEAN]
        /\ timer \in [Reports -> OptTime] /\ now \in Nat
    BY DEF TypeOK
  <1>2. pc'[r] = "idle" /\ cur'[r] = FALSE
    BY <1>1 DEF Fail, Release
  <1>3. Sooner(timer[r], now) # Null
    BY <1>1, NullAssumption DEF Sooner, OptTime
  <1>4. timer'[r] # Null \/ r \in dropped'
    BY <1>1, <1>3 DEF Fail, handleErr, Delay
  <1> QED BY <1>2, <1>4

(* enqueueReportAfter queues the key, now or later.                        *)
LEMMA enqueueWakes ==
  ASSUME TypeOK, NEW r \in Reports, NEW at \in Nat, enqueueReportAfter(r, at)
  PROVE  timer'[r] # Null \/ r \in queue'
  <1>1. timer \in [Reports -> OptTime] /\ now \in Nat
    BY DEF TypeOK
  <1>2. Sooner(timer[r], at) # Null
    BY <1>1, NullAssumption DEF Sooner, OptTime
  <1> QED BY <1>1, <1>2 DEF enqueueReportAfter, Delay

(* What runReport does with a copy of a Report on its own.                 *)
LEMMA BlockedWhen ==
  ASSUME TypeOK, NEW r \in Reports, OnItsOwn(r)
  PROVE  /\ isReportFinished(obj[r]) => Blocked(r, obj[r])
         /\ ~IsValid(r) /\ obj[r].cond = "Invalid" => Blocked(r, obj[r])
         /\ ~isReportFinished(obj[r]) /\ IsValid(r) => ~Blocked(r, obj[r])
         /\ ~DataUnmet(r) /\ UnmetSubReports(r) = {}
  BY DEF OnItsOwn, Blocked, IsValid, Resolves, DataUnmet, UnmetSubReports

LEMMA WorkerWake ==
  ASSUME ScheduleAdvances, TypeOK, NEW r \in Reports, OnItsOwn(r),
         LedgerInv(r), StatusInv(r), WakeInv(r), worker(r)
  PROVE  WakeInv(r)'
  <1> USE DEF apiVars, envVars, workVars, queueVars
  <1>0. /\ obj \in [Reports -> ReportObject] /\ pc \in [Reports -> Steps]
        /\ cur \in [Reports -> BOOLEAN] /\ period \in [Reports -> Period]
        /\ cache \in [Reports -> ReportObject] /\ timer \in [Reports -> OptTime]
        /\ obj[r] \in ReportObject /\ period[r] \in Period
    BY DEF TypeOK
  <1>r. ASSUME Release(r) PROVE pc'[r] = "idle" /\ cur'[r] = FALSE
    BY <1>0, <1>r DEF Release
  <1>f. ASSUME Fail(r), CopiesSame(r) PROVE WakeInv(r)'
    BY <1>f, FailWakes, WakeEnd
  <1>u. ASSUME UpdateRefused(r), Fail(r), queryReady' = queryReady PROVE WakeInv(r)'
    BY <1>f, <1>u DEF UpdateRefused, CopiesSame
  <1>w. ASSUME UpdateAccepted(r), Release(r), queryReady' = queryReady, pc[r] # "idle",
               obj[r].cond = "Waiting" =>
                 \/ pc[r] = "removeFinalizer"
                 \/ pc[r] \in Past /\ (timer'[r] # Null \/ r \in queue')
        PROVE  WakeInv(r)'
    BY <1>r, <1>w, WakeWritten
  <1>1. CASE syncReport(r)
    <2>1. CopiesSame(r)
      BY <1>1 DEF syncReport, CopiesSame
    <2>2. CASE UNCHANGED workVars
      <3>1. pc'[r] = "idle" /\ cur'[r] = FALSE
        BY <1>1, <2>2 DEF syncReport, LedgerInv, CopiesSound, TypeOK
      <3>2. ~(cache[r].phase = "live")
        BY <1>1, <2>2, <1>0 DEF syncReport, Exists
      <3>3. api[r].phase # "live" \/ api[r].cond # "Waiting"
        BY <1>0, <3>2 DEF WakeInv, LivesSound, ReportObject, Phases
      <3> QED BY <2>1, <3>1, <3>3, WakeEnd
    <2>3. CASE ~UNCHANGED workVars
      <3>1. /\ cur'[r] = cacheCur[r]
            /\ \/ /\ cache[r].phase = "terminating" /\ pc'[r] = "removeFinalizer"
                  /\ obj'[r] = [cache[r] EXCEPT !.finalizer = FALSE]
               \/ /\ cache[r].phase = "live" /\ pc'[r] = "addFinalizer"
                  /\ obj'[r] = [cache[r] EXCEPT !.finalizer = TRUE]
               \/ /\ cache[r].phase = "live" /\ pc'[r] = "run" /\ obj'[r] = cache[r]
        BY <1>0, <1>1, <2>3 DEF syncReport
      <3>2. cache[r] \in ReportObject
        BY <1>0
      <3>3. /\ obj'[r].phase = cache[r].phase /\ obj'[r].spec = cache[r].spec
            /\ obj'[r].last = cache[r].last /\ obj'[r].cond = cache[r].cond
            /\ pc'[r] = "removeFinalizer" => ~obj'[r].finalizer
        BY <3>1, <3>2 DEF ReportObject
      <3>4. cacheCur[r] => cache[r] = api[r]
        BY DEF LedgerInv, CopiesSound
      <3>5. LivesSound(r)'
        BY <2>1, <3>1, <3>3, <3>4 DEF WakeInv, LivesSound, CopiesSame
      <3>6. /\ Blocked(r, obj[r])' => Blocked(r, cache[r])
            /\ Blocked(r, cache[r])' => Blocked(r, cache[r])
        BY <2>1, <3>3 DEF Blocked, isReportFinished, CopiesSame
      <3>7. BlockedSound(r)'
        BY <2>1, <3>1, <3>3, <3>6 DEF WakeInv, BlockedSound, CopiesSame, Past, Planned
      <3>8. WakeupSound(r)'
        BY <3>1 DEF WakeupSound
      <3> QED BY <3>5, <3>7, <3>8 DEF WakeInv
    <2> QED BY <2>2, <2>3
  <1>2. CASE addReportFinalizer(r)
    <2>1. CASE UpdateRefused(r) /\ Fail(r)
      BY <1>2, <1>u, <2>1 DEF addReportFinalizer
    <2>2. CASE UpdateAccepted(r) /\ pc' = [pc EXCEPT ![r] = "run"] /\ UNCHANGED <<obj, cur>>
      BY <1>0, <1>2, <2>2, WakeWrites DEF addReportFinalizer
    <2> QED BY <1>2, <2>1, <2>2 DEF addReportFinalizer
  <1>3. CASE removeReportFinalizer(r)
    BY <1>3, <1>u, <1>w DEF removeReportFinalizer, Succeed
  <1>4. CASE runReport(r)
    <2>1. CopiesSame(r) /\ pc[r] = "run"
      BY <1>4 DEF runReport, CopiesSame
    <2>2. CASE isReportFinished(obj[r])
      <3>1. Release(r)
        BY <1>4, <2>2 DEF runReport, Succeed
      <3>2. api[r].cond # "Waiting"
        BY <2>1, <2>2, BlockedWhen DEF WakeInv, BlockedSound
      <3> QED BY <1>r, <2>1, <3>1, <3>2, WakeEnd
    <2>3. CASE ~isReportFinished(obj[r]) /\ ~IsValid(r)
      <3>1. CASE obj[r].cond = "Invalid" /\ Succeed(r)
        <4>1. api[r].cond # "Waiting"
          BY <2>1, <2>3, <3>1, BlockedWhen DEF WakeInv, BlockedSound
        <4> QED BY <1>r, <2>1, <3>1, <4>1, WakeEnd DEF Succeed
      <3>2. CASE /\ pc' = [pc EXCEPT ![r] = "putInvalid"] /\ UNCHANGED cur
                 /\ obj' = [obj EXCEPT ![r] = [obj[r] EXCEPT !.cond = "Invalid"]]
        <4>1. /\ pc'[r] = "putInvalid" /\ obj'[r].phase = obj[r].phase /\ cur'[r] = cur[r]
              /\ obj'[r].cond = "Invalid"
          BY <1>0, <3>2 DEF ReportObject
        <4> QED BY <2>1, <4>1, WakeMove
      <3> QED BY <1>4, <2>3, <3>1, <3>2 DEF runReport
    <2>4. CASE ~isReportFinished(obj[r]) /\ IsValid(r)
      <3>1. CASE Fail(r)
        BY <1>f, <2>1, <3>1
      <3>2. CASE /\ pc' = [pc EXCEPT ![r] = IF obj[r].table THEN "decide" ELSE "createTable"]
                 /\ obj' = [obj EXCEPT ![r] =
                             [obj[r] EXCEPT !.next = nextReportTimeAfter(now, obj[r])]]
                 /\ UNCHANGED cur
        <4>1. /\ pc'[r] \in {"decide", "createTable"} /\ obj'[r].phase = obj[r].phase
              /\ cur'[r] = cur[r]
          BY <1>0, <3>2 DEF ReportObject
        <4>2. ~Blocked(r, obj[r])
          BY <2>4, BlockedWhen
        <4>3. cur[r] => ~Blocked(r, cache[r]) /\ ~Blocked(r, api[r])
          <5>1. cur[r] => /\ cache[r].spec = obj[r].spec /\ cache[r].last = obj[r].last
                          /\ cache[r].cond = obj[r].cond
            BY <2>1 DEF WakeInv, BlockedSound
          <5>2. cur[r] => /\ api[r].spec = obj[r].spec /\ api[r].last = obj[r].last
                          /\ api[r].cond = obj[r].cond
            BY <2>1 DEF LedgerInv, CopiesSound
          <5> QED BY <4>2, <5>1, <5>2 DEF Blocked, isReportFinished
        <4> QED BY <2>1, <4>1, <4>3, WakeMove DEF Past, Planned
      <3> QED BY <1>4, <2>4, <3>1, <3>2 DEF runReport
    <2> QED BY <2>2, <2>3, <2>4
  <1>5. CASE setReportStatusInvalidReport(r)
    <2>1. obj[r].cond # "Waiting"
      BY <1>5 DEF setReportStatusInvalidReport, WakeInv, BlockedSound
    <2> QED BY <1>5, <1>u, <1>w, <2>1 DEF setReportStatusInvalidReport, Succeed
  <1>6. CASE createTable(r)
    <2>1. CopiesSame(r) /\ pc[r] = "createTable"
      BY <1>6 DEF createTable, CopiesSame
    <2>2. CASE Fail(r)
      BY <1>f, <2>1, <2>2
    <2>3. CASE ~Fail(r)
      <3>1. pc'[r] = "putTable" /\ obj'[r].phase = obj[r].phase /\ cur'[r] = cur[r]
        BY <1>0, <1>6, <2>3 DEF createTable, ReportObject
      <3> QED BY <2>1, <3>1, WakeMove DEF Past, Planned
    <2> QED BY <2>2, <2>3
  <1>7. CASE putTable(r)
    <2>1. CASE UpdateRefused(r) /\ Fail(r)
      BY <1>7, <1>u, <2>1 DEF putTable
    <2>2. CASE UpdateAccepted(r) /\ pc' = [pc EXCEPT ![r] = "decide"] /\ UNCHANGED <<obj, cur>>
      BY <1>0, <1>7, <2>2, WakeWrites DEF putTable
    <2> QED BY <1>7, <2>1, <2>2 DEF putTable
  <1>8. CASE decide(r)
    <2>1. CopiesSame(r) /\ pc[r] = "decide" /\ ~DataUnmet(r) /\ UnmetSubReports(r) = {}
      BY <1>8, BlockedWhen DEF decide, CopiesSame
    <2>2. PICK step \in {"putWaiting", "putRunning"}, reason \in Reasons :
            /\ pc' = [pc EXCEPT ![r] = step] /\ obj' = [obj EXCEPT ![r].cond = reason]
            /\ UNCHANGED cur
            /\ step = "putRunning" => reason \in {"Scheduled", "RunImmediately"}
      BY <1>8, <2>1 DEF decide, Reasons
    <2>3. /\ pc'[r] = step /\ obj'[r].phase = obj[r].phase /\ obj'[r].cond = reason
          /\ cur'[r] = cur[r]
      BY <1>0, <2>2 DEF ReportObject
    <2> QED BY <2>1, <2>2, <2>3, WakeMove DEF Past, Planned
  <1>9. CASE putWaiting(r)
    <2>1. CASE UpdateRefused(r) /\ Fail(r)
      BY <1>9, <1>u, <2>1 DEF putWaiting
    <2>2. CASE UpdateAccepted(r) /\ Release(r)
               /\ enqueueReportAfter(r, now + (period[r].end - read[r].now))
      <3>1. now + (period[r].end - read[r].now) \in Nat
        BY <1>0 DEF StatusInv, RowsBacked, ReadSound, TypeOK, Period, Read
      <3>2. timer'[r] # Null \/ r \in queue'
        BY <2>2, <3>1, enqueueWakes
      <3> QED BY <1>9, <1>w, <2>2, <3>2 DEF putWaiting, Past, Planned
    <2> QED BY <1>9, <2>1, <2>2 DEF putWaiting
  <1>10. CASE putUnmet(r)
    <2>1. obj[r].cond # "Waiting"
      BY <1>10 DEF putUnmet, WakeInv, BlockedSound
    <2> QED BY <1>10, <1>u, <1>w, <2>1 DEF putUnmet, Succeed
  <1>11. CASE putRunning(r)
    <2>1. CASE UpdateRefused(r) /\ Fail(r)
      BY <1>11, <1>u, <2>1 DEF putRunning
    <2>2. CASE UpdateAccepted(r) /\ pc' = [pc EXCEPT ![r] = "generate"] /\ UNCHANGED <<obj, cur>>
      BY <1>0, <1>11, <2>2, WakeWrites DEF putRunning
    <2> QED BY <1>11, <2>1, <2>2 DEF putRunning
  <1>12. CASE renderAndDelete(r)
    <2>1. CopiesSame(r) /\ pc[r] = "generate"
      BY <1>12 DEF renderAndDelete, CopiesSame
    <2>2. CASE Fail(r)
      BY <1>f, <2>1, <2>2
    <2>3. CASE ~Fail(r)
      <3>1. /\ \/ pc'[r] = "insert" /\ obj'[r] = obj[r]
               \/ pc'[r] = "putFailed" /\ obj'[r].cond = "Failed"
            /\ obj'[r].phase = obj[r].phase /\ cur'[r] = cur[r]
        BY <1>0, <1>12, <2>3 DEF renderAndDelete, ReportObject
      <3>2. obj[r].cond \in {"Scheduled", "RunImmediately"}
        BY <2>1 DEF WakeInv, BlockedSound
      <3> QED BY <2>1, <3>1, <3>2, WakeMove DEF Past, Planned
    <2> QED BY <2>2, <2>3
  <1>13. CASE insertResults(r)
    <2>1. CopiesSame(r) /\ pc[r] = "insert" /\ cur'[r] = cur[r]
      BY <1>13 DEF insertResults, CopiesSame
    <2>2. CASE pc' = [pc EXCEPT ![r] = "putFailed"]
      <3>1. pc'[r] = "putFailed" /\ obj'[r].phase = obj[r].phase /\ obj'[r].cond = "Failed"
        BY <1>0, <1>13, <2>2 DEF insertResults, ReportObject
      <3> QED BY <2>1, <3>1, WakeMove DEF Past, Planned
    <2>3. CASE pc' # [pc EXCEPT ![r] = "putFailed"]
      <3>1. /\ pc' = [pc EXCEPT ![r] = "putFinal"]
            /\ obj' = [obj EXCEPT ![r] = AfterReport(obj[r], period[r].end)]
            /\ HasNextPeriod(obj[r], period[r].end) =>
                 enqueueReportAfter(r, NextTime(period[r].end))
        BY <1>13, <2>3 DEF insertResults
      <3>2. period[r].end \in Nat /\ NextTime(period[r].end) \in Nat
        BY <1>0 DEF Period, ScheduleAdvances
      <3>3. pc'[r] = "putFinal" /\ obj'[r].phase = obj[r].phase
        BY <1>0, <3>1, <3>2, AfterReportSame
      <3>4. obj'[r].cond = "Waiting" => HasNextPeriod(obj[r], period[r].end)
        <4>1. obj[r].cond # "Waiting"
          BY <2>1 DEF WakeInv, BlockedSound
        <4> QED BY <1>0, <3>1, <4>1 DEF AfterReport, ReportObject
      <3>5. obj'[r].cond = "Waiting" => timer'[r] # Null \/ r \in queue'
        BY <3>1, <3>2, <3>4, enqueueWakes
      <3> QED BY <2>1, <3>3, <3>5, WakeMove DEF Past, Planned
    <2> QED BY <2>2, <2>3
  <1>14. CASE putFailed(r)
    <2>1. obj[r].cond # "Waiting" /\ Fail(r)
      BY <1>14 DEF putFailed, WakeInv, BlockedSound
    <2>2. CASE UpdateRefused(r)
      BY <1>14, <1>u, <2>1, <2>2 DEF putFailed
    <2>3. CASE UpdateAccepted(r)
      BY <1>14, <1>w, <2>1, <2>3 DEF putFailed, Fail
    <2> QED BY <1>14, <2>2, <2>3 DEF putFailed
  <1>15. CASE putFinal(r)
    <2>1. CASE UpdateRefused(r) /\ Fail(r)
      BY <1>15, <1>u, <2>1 DEF putFinal
    <2>2. CASE UpdateAccepted(r) /\ Release(r)
      <3>1. obj[r].cond = "Waiting" => timer[r] # Null \/ r \in queue
        BY <1>15 DEF putFinal, WakeInv, WakeupSound
      <3>2. (timer' = timer /\ queue \subseteq queue') \/ Fail(r)
        BY <1>15 DEF putFinal
      <3>3. CASE timer' = timer /\ queue \subseteq queue'
        BY <1>15, <1>w, <2>2, <3>1, <3>3 DEF putFinal, Past, Planned
      <3>4. CASE Fail(r) /\ UpdateRefused(r)
        BY <1>15, <1>u, <3>4 DEF putFinal
      <3> QED BY <1>15, <3>3, <3>4 DEF putFinal
    <2> QED BY <1>15, <2>1, <2>2 DEF putFinal
  <1> QED BY <1>1, <1>2, <1>3, <1>4, <1>5, <1>6, <1>7, <1>8, <1>9, <1>10, <1>11, <1>12,
             <1>13, <1>14, <1>15 DEF worker

(* A worker takes only its own key from the queue, and gives up no other.  *)
LEMMA AwakeFrame ==
  ASSUME TypeOK, NEW r \in Reports, worker(r), NEW q \in Reports, q # r
  PROVE  StaysAwake(q)
  <1>0. timer \in [Reports -> OptTime]
    BY DEF TypeOK
  <1>1. ASSUME Fail(r) \/ Succeed(r)
        PROVE  timer'[q] = timer[q] /\ queue' = queue /\ (q \in dropped => q \in dropped')
    BY <1>0, <1>1 DEF Fail, handleErr, Delay, Succeed, Forget
  <1>2. ASSUME Forget(r) PROVE q \in dropped => q \in dropped'
    BY <1>2 DEF Forget
  <1>3. ASSUME NEW at, enqueueReportAfter(r, at)
        PROVE  timer'[q] = timer[q] /\ queue \subseteq queue'
    BY <1>0, <1>3 DEF enqueueReportAfter, Delay
  <1> USE DEF StaysAwake, queueVars, envVars
  <1>4. CASE syncReport(r)
    BY <1>2, <1>4 DEF syncReport
  <1>5. CASE \/ addReportFinalizer(r) \/ removeReportFinalizer(r)
             \/ setReportStatusInvalidReport(r) \/ createTable(r) \/ putUnmet(r) \/ putRunning(r)
             \/ putFailed(r) \/ renderAndDelete(r)
    BY <1>1, <1>5 DEF addReportFinalizer, removeReportFinalizer, setReportStatusInvalidReport,
                      createTable, putUnmet, putRunning, putFailed, renderAndDelete
  <1>6. CASE runReport(r)
    BY <1>1, <1>6 DEF runReport
  <1>7. CASE putTable(r)
    BY <1>1, <1>7 DEF putTable
  <1>8. CASE decide(r)
    BY <1>2, <1>8 DEF decide
  <1>9. CASE putWaiting(r)
    BY <1>1, <1>2, <1>3, <1>9 DEF putWaiting
  <1>10. CASE insertResults(r)
    BY <1>3, <1>10 DEF insertResults
  <1>11. CASE putFinal(r)
    BY <1>1, <1>2, <1>11 DEF putFinal
  <1> QED BY <1>4, <1>5, <1>6, <1>7, <1>8, <1>9, <1>10, <1>11 DEF worker

(* A user's write keeps the condition; only the first one makes a Report.  *)
LEMMA UserWake ==
  ASSUME TypeOK, NEW r \in Reports, LedgerInv(r), WakeInv(r), user(r)
  PROVE  WakeInv(r)'
  <1> USE DEF apiVars, workVars, queueVars
  <1>1. CASE createReportQuery(r)
    <2>1. Same(r) /\ StaysAwake(r)
      BY <1>1 DEF createReportQuery, Same, StaysAwake, tableVars, histVars, TypeOK
    <2> QED BY <2>1, WakeFrame
  <1>2. CASE ~createReportQuery(r)
    <2>0. api \in [Reports -> ReportObject] /\ cache[r] \in ReportObject
      BY DEF TypeOK
    <2>1. /\ pc' = pc /\ obj' = obj /\ cache' = cache /\ cur'[r] = FALSE
          /\ queue' = queue /\ timer' = timer /\ dropped' = dropped /\ queryReady' = queryReady
      BY <1>2 DEF user, createReport, editReport, deleteReport, Outdate, TypeOK
    <2>2. \/ api[r].phase = "absent" /\ api'[r].cond = "New" /\ api'[r].phase = "live"
          \/ /\ api[r].phase = "live" /\ api'[r].phase \in {"live", "terminating", "gone"}
             /\ api'[r].cond = api[r].cond
      <3>1. ASSUME NEW s \in UserSpecs, createReport(r, s)
            PROVE  api[r].phase = "absent" /\ api'[r].cond = "New" /\ api'[r].phase = "live"
        BY <2>0, <3>1 DEF createReport, NoReport
      <3>2. ASSUME NEW s \in UserSpecs, editReport(r, s)
            PROVE  api[r].phase = "live" /\ api'[r].phase = "live" /\ api'[r].cond = api[r].cond
        BY <2>0, <3>2 DEF editReport, ReportObject
      <3>3. CASE deleteReport(r)
        BY <2>0, <3>3 DEF deleteReport, ReportObject
      <3> QED BY <1>2, <3>1, <3>2, <3>3 DEF user
    <2>3. LivesSound(r)'
      BY <2>1, <2>2 DEF WakeInv, LivesSound
    <2>4. /\ Blocked(r, cache[r])' => Blocked(r, cache[r])
          /\ Blocked(r, obj[r])' => Blocked(r, obj[r])
      BY <2>1 DEF Blocked
    <2>5. BlockedSound(r)'
      BY <2>1, <2>2, <2>4 DEF WakeInv, BlockedSound
    <2>6. WakeupSound(r)'
      BY <2>1, <2>2 DEF WakeInv, WakeupSound
    <2> QED BY <2>3, <2>5, <2>6 DEF WakeInv
  <1> QED BY <1>1, <1>2

(* The watch brings the stored object.                                     *)
LEMMA DeliverWake ==
  ASSUME TypeOK, NEW r \in Reports, LedgerInv(r), WakeInv(r), deliver(r)
  PROVE  WakeInv(r)'
  <1>1. /\ cache'[r] = api[r] /\ api' = api /\ pc' = pc /\ obj' = obj /\ cur' = cur
        /\ timer' = timer /\ dropped' = dropped /\ queryReady' = queryReady
        /\ queue \subseteq queue' /\ api[r] \in ReportObject /\ cache[r] \in ReportObject
    BY DEF deliver, TypeOK, workVars, envVars
  <1>2. api[r].phase = "absent" => pc[r] = "idle" /\ api[r].cond = "New"
    BY DEF WakeInv, LivesSound
  <1>3. LivesSound(r)'
    BY <1>1, <1>2 DEF WakeInv, LivesSound, ReportObject, Phases
  <1>4. /\ Blocked(r, cache[r])' => Blocked(r, api[r])
        /\ Blocked(r, api[r])' => Blocked(r, api[r])
        /\ Blocked(r, obj[r])' => Blocked(r, obj[r])
        /\ Blocked(r, api[r]) => api[r].cond # "Waiting"
    BY <1>1 DEF Blocked, isReportFinished
  <1>5. cur[r] /\ pc[r] \in {"run", "addFinalizer"} =>
          /\ api[r].spec = obj[r].spec /\ api[r].last = obj[r].last
          /\ api[r].cond = obj[r].cond
    BY DEF LedgerInv, CopiesSound
  <1>6. BlockedSound(r)'
    BY <1>1, <1>4, <1>5 DEF WakeInv, BlockedSound
  <1>7. WakeupSound(r)'
    BY <1>1 DEF WakeInv, WakeupSound
  <1> QED BY <1>3, <1>6, <1>7 DEF WakeInv

(* A new process queues every Report that exists.                          *)
LEMMA RestartWake ==
  ASSUME TypeOK, NEW r \in Reports, LedgerInv(r), WakeInv(r), restart
  PROVE  WakeInv(r)'
  <1>1. /\ cache' = api /\ api' = api /\ pc'[r] = "idle" /\ cur'[r] = FALSE
        /\ (Exists(api[r]) => r \in queue') /\ queryReady' = queryReady
        /\ api[r] \in ReportObject
    BY DEF restart, TypeOK
  <1>2. LivesSound(r)'
    BY <1>1 DEF WakeInv, LivesSound, ReportObject, Phases
  <1>3. /\ Blocked(r, cache[r])' => Blocked(r, api[r])
        /\ Blocked(r, api[r]) => api[r].cond # "Waiting"
    BY <1>1 DEF Blocked, isReportFinished
  <1>4. BlockedSound(r)'
    BY <1>1, <1>3 DEF BlockedSound, Past, Planned
  <1>5. WakeupSound(r)'
    BY <1>1 DEF WakeupSound, Exists
  <1> QED BY <1>2, <1>4, <1>5 DEF WakeInv

LEMMA WakeupsStep ==
  ASSUME ScheduleAdvances, TypeOK, Ledgers, Statuses, Wakeups, [Next]_vars
  PROVE  Wakeups'
  <1>0. SUFFICES ASSUME NEW q \in Reports, OnItsOwn(q)
                 PROVE  WakeInv(q)'
    BY DEF Wakeups, OnItsOwn
  <1>1. WakeInv(q) /\ LedgerInv(q) /\ StatusInv(q)
    BY <1>0 DEF Wakeups, Ledgers, Statuses
  <1>2. ASSUME NEW r \in Reports, worker(r) PROVE WakeInv(q)'
    <2>1. CASE q = r
      BY <1>0, <1>1, <1>2, <2>1, WorkerWake
    <2>2. CASE q # r
      BY <1>1, <1>2, <2>2, WorkerFrame, AwakeFrame, WakeFrame
    <2> QED BY <2>1, <2>2
  <1>3. ASSUME NEW r \in Reports, deliver(r) PROVE WakeInv(q)'
    <2>1. CASE q = r
      BY <1>1, <1>3, <2>1, DeliverWake
    <2>2. CASE q # r
      <3>1. Same(q) /\ StaysAwake(q)
        BY <1>3, <2>2 DEF deliver, Same, StaysAwake, TypeOK, workVars, tableVars, histVars, envVars
      <3> QED BY <1>1, <3>1, WakeFrame
    <2> QED BY <2>1, <2>2
  <1>4. ASSUME NEW r \in Reports, fireTimer(r) PROVE WakeInv(q)'
    <2>1. Same(q) /\ StaysAwake(q)
      BY <1>4 DEF fireTimer, Same, StaysAwake, TypeOK, apiVars, workVars, tableVars, histVars, envVars
    <2> QED BY <1>1, <2>1, WakeFrame
  <1>5. ASSUME NEW r \in Reports, user(r) PROVE WakeInv(q)'
    <2>1. CASE q = r
      BY <1>1, <1>5, <2>1, UserWake
    <2>2. CASE q # r
      <3> USE DEF Same, StaysAwake, apiVars, workVars, queueVars, tableVars, histVars
      <3>1. CASE createReportQuery(r)
        <4>1. Same(q) /\ StaysAwake(q)
          BY <2>2, <3>1 DEF createReportQuery, TypeOK
        <4> QED BY <1>1, <4>1, WakeFrame
      <3>2. ASSUME NEW s \in UserSpecs, createReport(r, s) \/ editReport(r, s)
            PROVE  WakeInv(q)'
        <4>1. Same(q) /\ StaysAwake(q)
          BY <2>2, <3>2 DEF createReport, editReport, Outdate, TypeOK
        <4> QED BY <1>1, <4>1, WakeFrame
      <3>3. CASE deleteReport(r)
        <4>1. Same(q) /\ StaysAwake(q)
          BY <2>2, <3>3 DEF deleteReport, Outdate, TypeOK
        <4> QED BY <1>1, <4>1, WakeFrame
      <3> QED BY <1>5, <3>1, <3>2, <3>3 DEF user
    <2> QED BY <2>1, <2>2
  <1>6. ASSUME NEW some \in BOOLEAN, importMetrics(some) PROVE WakeInv(q)'
    <2>1. Same(q) /\ StaysAwake(q)
      BY <1>6 DEF importMetrics, Same, StaysAwake, apiVars, workVars, tableVars, histVars, envVars
    <2> QED BY <1>1, <2>1, WakeFrame
  <1>7. CASE publishImport \/ tick \/ UNCHANGED vars
    <2>1. Same(q) /\ StaysAwake(q)
      BY <1>7 DEF publishImport, tick, vars, Same, StaysAwake, apiVars, queueVars, workVars,
                  tableVars, histVars, envVars
    <2> QED BY <1>1, <2>1, WakeFrame
  <1>8. CASE restart
    BY <1>1, <1>8, RestartWake
  <1> QED BY <1>2, <1>3, <1>4, <1>5, <1>6, <1>7, <1>8 DEF Next

LEMMA WakeupsInit == Init => Wakeups
  <1> SUFFICES ASSUME Init, NEW r \in Reports PROVE WakeInv(r)
    BY DEF Wakeups
  <1>1. /\ api[r] = NoReport /\ cache[r] = NoReport /\ pc[r] = "idle" /\ cur[r] = FALSE
        /\ NoReport.phase = "absent" /\ NoReport.cond = "New"
    BY DEF Init, NoReport
  <1> QED BY <1>1 DEF WakeInv, LivesSound, BlockedSound, WakeupSound, Past, Planned

(***************************************************************************)
(* A Report that neither imports nor sub-reports wake is never left        *)
(* waiting without a timer or an entry in the queue, unless handleErr gave *)
(* its key up: through edits, deletions, conflicts, old copies, failed     *)
(* calls and restarts (reports.go:506, queues.go:476).                     *)
(***************************************************************************)
THEOREM WaitingReportsWake ==
  ASSUME ScheduleAdvances
  PROVE  Spec => []WaitingReportHasWakeup
  <1>1. TypeOK /\ Ledgers /\ Statuses /\ Wakeups /\ [Next]_vars => Wakeups'
    BY WakeupsStep
  <1>2. Wakeups => WaitingReportHasWakeup
    BY DEF Wakeups, WakeInv, WakeupSound, WaitingReportHasWakeup
  <1> QED BY <1>1, <1>2, WakeupsInit, StatusesInvariant, PTL DEF Spec
=============================================================================
