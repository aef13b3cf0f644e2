CONSTANTS
  i1 = i1
  i2 = i2
  c1 = c1
  c2 = c2
  c3 = c3
  k1 = k1
  k2 = k2
  jobs = jobs
  scans = scans
  Instances = {i1, i2}
  Callers = {c1, c2, c3}
  Closers = {k1, k2}
  NameOf <- TwoNames
  VersionOf <- Defaults
  Uses <- MCUses
  MaxOpens = 2
  Faults = {}

SPECIFICATION DatabaseSpec

INVARIANTS
  SchemaComplete

CHECK_DEADLOCK FALSE
