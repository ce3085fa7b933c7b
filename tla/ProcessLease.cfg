SPECIFICATION Spec
CONSTANTS
  p1 = p1
  p2 = p2
  api = api
  metrics = metrics
  reportQueue = reportQueue
  Nobody = Nobody
  Processes = {p1, p2}
  Servers <- NoServers
  Queues = {reportQueue}
  LeaseDuration = 6
  AnswerTime = 1
  RetryPeriod = 1
  Signalled = {}
  Unreliable = {}
  Restarted = {p2}
INVARIANTS
  OneWorks
CHECK_DEADLOCK FALSE
