SPECIFICATION FairSpec
CONSTANTS
  Null = Null
  Periods <- TwoPeriods
  UserPartitions <- ByColumn
  Locations = {dir1, dir2}
  Columns <- TwoColumns
  MaxChanges = 2
  MaxFaults = 0
  MayRemove = FALSE
PROPERTY OnePartitionPerPeriod
