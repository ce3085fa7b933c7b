SPECIFICATION Spec
CONSTANTS
  Null = Null
  NextTime <- EvenTimes
  Reports = {r1}
  SubReports = {}
  DependsOn <- Standalone
  Metered = {}
  LateQueries = {r1}
  UserSpecs <- AllKinds
  EnableFinalizers = TRUE
  Workers = 1
  MaxRequeues = 1
  MaxBackfill = 1
  MaxTime = 3
  MaxEdits = 3
  MaxFaults = 1
INVARIANTS
  TypeOK
  ExactlyOnce
  WaitingReportHasWakeup
  NoLostPeriod
  FinishedReportHasRows
PROPERTIES
  LastReportTimeAdvances
  ImplementsLedger
