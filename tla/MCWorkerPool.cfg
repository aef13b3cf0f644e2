CONSTANTS
  q1 = q1
  q2 = q2
  u1 = u1
  w1 = w1
  Undefined = Undefined
  Queues = {q1, q2}
  UniqueIds = {u1}
  Options <- MCOptions
  Delays <- MCDelays
  MaxJobs = 2
  Workers = {w1}
  QueueOf <- MCQueueOf
  FailOnTimeout = TRUE
  MaxBackoff = 1
  Faults = {"pop", "remove", "release", "fail"}
  MaxLoops = 2

SPECIFICATION FairPoolSpec

INVARIANTS
  MemoryTypeOK
  UniqueInFlight
  CountsAgree
  WorkerTypeOK
  SingleHolder
  NoStrandedReservation
  AttemptsWithinBudget
  NoConcurrentExecutions
  EventsMatchStore
  LoopAlive

PROPERTIES
  MemorySpec
  ImplementsJobLifecycle
  Drains
  ReservationsEnd
  StoppedWorkersQuiesce
