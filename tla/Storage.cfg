SPECIFICATION FairSpec
CONSTANTS
  Null = Null
  s1 = s1
  s2 = s2
  u1 = u1
  u2 = u2
  Storages = {s1, s2}
  Unmanaged = {s2}
  WithLocation = {s1}
  Defaults = {s1, s2}
  Users = {u1, u2}
  KindOf <- PrometheusAndView
  RefOf <- Named
  Finalizers = {TRUE, FALSE}
  maxRequeues = 1
  MaxFaults = 1
INVARIANTS
  StatusMeansDatabase
PROPERTIES
  UsersGetTables
  DeletedStorageGoes
CHECK_DEADLOCK FALSE
