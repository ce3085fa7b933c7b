SPECIFICATION FairSpec
CONSTANTS
  ds1 = ds1
  Null = Null
  DataSources = {ds1}
  NameOf <- OwnNames
  Present <- TwoSeries
  Minute = 2
  StepSize = 2
  ChunkSize = 4
  MaxQueryRangeDuration = 8
  MaxBackfill = 5
  ImportFromTime = Null
  MaxRequeues = 1
  Setups <- TwoSetups
  StepSizes = {2}
  ChunkSizes = {2, 4, 6}
  RangeLimits = {0, 1, 2}
  Horizon = 12
INVARIANTS
  NoDuplicates
  RangesCoverOnce
PROPERTIES
  ImportsAsPromised
  CatchesUp
