CONSTANTS
  q1 = q1
  q2 = q2
  u1 = u1
  w1 = w1
  Undefined = Undefined
  Queues = {q1, q2}
  UniqueIds = {u1}
  Options <- MCOptions
  Delays <- MCDelays
  MaxJobs = 1
  Workers = {w1}
  QueueOf <- MCQueueOf
  FailOnTimeout = TRUE
  MaxBackoff = 1
  Faults = {}
  MaxLoops = 2

SPECIFICATION PoolSpec

INVARIANTS
  StoppedMeansNoTimer
