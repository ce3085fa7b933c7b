SPECIFICATION FairSpec
CONSTANTS
  Null = Null
  maxDepth = 4
  d1 = d1
  v1 = v1
  q1 = q1
  q2 = q2
  q3 = q3
  r1 = r1
  DataSources = {d1, v1}
  Views = {v1}
  Queries = {q1}
  Reports = {r1}
  QueryOf <- UseQ1
  NamedLike <- SameNames
  InputsOf <- ReadsD1
  ViewInputs <- NoViewInputs
  maxRequeues = 0
  Setups <- ThreeSetups
  Shapes <- DeepAndWide
  SomeDataSources = {d1}
  SomeReports = {r1}
  Top = q1
  NameOf <- ByObject
INVARIANTS
  TypeOK
  ResolvesEverything
  FailsWithReason
PROPERTIES
  ViewsReadTables
  ViewsGetTables
  ReportsGetValid
  DeletedDataSourceGoes
CHECK_DEADLOCK FALSE
