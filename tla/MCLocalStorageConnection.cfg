CONSTANTS
  q1 = q1
  q2 = q2
  u1 = u1
  t1 = t1
  t2 = t2
  Undefined = Undefined
  Nothing = Nothing
  Queues = {q1}
  UniqueIds = {u1}
  Options <- MCOptionsQ1
  QueueOf <- MCQueueOf
  RetryDelay = 1
  MaxJobs = 2
  Tabs = {t1, t2}
  Discards = {"push", "pop", "fail", "flag"}

SYMMETRY TabSymmetry

SPECIFICATION LocalStorageSpec

INVARIANTS
  SingleHolder
  CountsAgree

PROPERTIES
  ImplementsJobLifecycle
