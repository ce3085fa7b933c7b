SPECIFICATION FairSpec
CONSTANTS
  p1 = p1
  p2 = p2
  api = api
  metrics = metrics
  reportQueue = reportQueue
  Nobody = Nobody
  Processes = {p1}
  Servers <- TwoServers
  Queues = {reportQueue}
  LeaseDuration = 4
  AnswerTime = 0
  RetryPeriod = 1
  Signalled = {p1}
  Unreliable = {p1}
  Restarted = {p1}
PROPERTIES
  CleanExitWaits
  StopsWhenTold
  ServerFailureEnds
  LeadsOrEnds
CHECK_DEADLOCK FALSE
