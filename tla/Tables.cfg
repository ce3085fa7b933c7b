SPECIFICATION FairSpec
CONSTANTS
  Null = Null
  Tables = {t1}
  Kinds = {"hive", "view", "ctas"}
  EnableFinalizers = TRUE
  Fragile <- Repeated
  MaxObjects <- Generations
  MaxFaults = 1
INVARIANTS
  StatusMeansTable
PROPERTIES
  AnnouncedTableIsDropped
  OwnerGetsTable
CHECK_DEADLOCK FALSE
