SPECIFICATION Spec
CONSTANTS
  Null = Null
  NextTime <- EvenTimes
  Reports = {r1, r2}
  SubReports = {r2}
  DependsOn <- Rollup
  Metered = {}
  LateQueries = {r1}
  UserSpecs <- OpenOrEnded
  EnableFinalizers = FALSE
  Workers = 2
  MaxRequeues = 1
  MaxBackfill = 1
  MaxTime = 2
  MaxEdits = 2
  MaxFaults = 1
PROPERTIES
  RollupReadsReportedPeriods
