CONSTANTS
  None = None
  Undefined = None
  Container = Container
  c1 = c1
  c2 = c2
  Callers = {Container, c1, c2}
  h1 = h1
  Hooks = {h1}
  Drivers = {"memory", "sync", "custom"}
  QueueNames = {"default", "scans"}
  Configs <- MCConfigs
  Lookups <- MCLookups
  x1 = x1
  Disconnects = {x1}
  MaxConnections = 3
  MaxRenders = 2
  BuiltIn <- MCBuiltIn
  Features <- MCFeatures
  FeatureQueues <- MCFeatureQueues
  Processors <- MCProcessors
  HasEvents = TRUE

SPECIFICATION ApplicationSpec
CHECK_DEADLOCK FALSE

INVARIANT
  ImportedConnectorsFound
