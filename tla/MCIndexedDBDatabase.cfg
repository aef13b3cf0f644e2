CONSTANTS
  i1 = i1
  i2 = i2
  c1 = c1
  c2 = c2
  c3 = c3
  k1 = k1
  k2 = k2
  jobs = jobs
  scans = scans
  Instances = {i1, i2}
  Callers = {c1, c2, c3}
  Closers = {k1, k2}
  NameOf <- OneName
  VersionOf <- Rollout
  Uses <- MCUses
  MaxOpens = 3
  Faults = {"refuse", "abort", "reload"}

SPECIFICATION FairDatabaseSpec

INVARIANTS
  DatabaseTypeOK
  SchemaComplete
  NoLeakedHandle


  
