SPECIFICATION FairSpec
CONSTANTS
  Columns = {a, m}
  MapColumns = {m}
  DataSources = {d1, d2, d3}
  Requests = {q1}
  Setups <- ReadOrWrite
  BufferRows = 1
  Concurrency = 2
  Sizes = {0, 2, 3}
  MaxTimeRanges = 2
  MaxRows = 2
  MaxEdits = 1
  MaxFaults = 1
INVARIANTS
  TableLeavesHiddenOut
  TabularAnswersAreWhole
  AcknowledgedIsStored
PROPERTIES
  QuietAfterAnswer
  EveryRequestAnswered
CHECK_DEADLOCK FALSE
