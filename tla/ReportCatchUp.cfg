SPECIFICATION FairSpec
CONSTANTS
  Null = Null
  NextTime <- NextInstant
  Reports = {r1}
  SubReports = {}
  DependsOn <- Standalone
  Metered = {r1}
  LateQueries = {}
  UserSpecs <- OpenOrEnded
  EnableFinalizers = FALSE
  Workers = 1
  MaxRequeues = 1
  MaxBackfill = 1
  MaxTime = 2
  MaxEdits = 1
  MaxFaults = 1
INVARIANT
  RowsBackedByData
PROPERTIES
  ScheduledReportsCatchUp
