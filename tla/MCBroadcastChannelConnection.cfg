CONSTANTS
  q1 = q1
  u1 = u1
  t1 = t1
  t2 = t2
  l1 = l1
  l2 = l2
  Undefined = Undefined
  NoLeader = NoLeader
  Queues = {q1}
  UniqueIds = {u1}
  Options <- MCOptions
  Tabs = {t1, t2}
  Loops = {l1, l2}
  Layouts <- MCLayouts
  QueueOf <- MCQueueOf
  RetryDelay = 1
  MaxJobs = 2
  Disturbances = {"reload", "close"}
  Coordination = {TRUE, FALSE}

SPECIFICATION FairBroadcastSpec

INVARIANTS
  IndexedDBTypeOK
  UniqueInFlight
  SingleHolder
  CountsAgree
  LeaderPopsAlone

PROPERTIES
  ImplementsJobLifecycle
  LeaderDrains
