CONSTANTS
  c1 = c1
  c2 = c2
  d1 = d1
  d2 = d2
  u1 = u1
  u2 = u2
  Undefined = Undefined
  Callers = {c1, c2}
  Options <- MCOptions
  Lists <- MCLists
  Configs <- MCConfigs
  Destinations = {d1, d2}
  UniqueIds = {u1, u2}
  MaxAttempts = 2

SPECIFICATION QStashSpec
CHECK_DEADLOCK FALSE

INVARIANTS
  QStashTypeOK
  OncePerUniqueId
  ResolvedIsPublished

