CONSTANTS
  q1 = q1
  q2 = q2
  u1 = u1
  t1 = t1
  t2 = t2
  Undefined = Undefined
  Nothing = Nothing
  Queues = {q1, q2}
  UniqueIds = {u1}
  Options <- MCOptions
  QueueOf <- MCQueueOf
  RetryDelay = 1
  MaxJobs = 2
  Tabs = {t1}
  Discards = {}

SPECIFICATION LocalStorageSpec

INVARIANTS
  UniqueInFlight
