SPECIFICATION FairSpec
CONSTANTS
  Null = Null
  Periods <- TwoPeriods
  UserPartitions <- ByColumn
  Locations = {dir1, dir2}
  Columns <- TwoColumns
  MaxChanges = 3
  MaxFaults = 1
  MayRemove = TRUE
INVARIANT TypeOK
PROPERTIES
  SpecNeverReverts
  PartitionsArrive
