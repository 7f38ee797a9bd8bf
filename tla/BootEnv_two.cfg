CONSTANTS
  svc = svc
  cmd = cmd
  t1 = t1
  t2 = t2
  Proc = {svc, cmd}
  Thread = {t1, t2}
  Home <- HomeTwo
  Name = {mode, hdcp}
  Value = {empty, a}
  Empty = empty
  NoValue = NoValue
  Corrupt = Corrupt
  Unloaded = Unloaded
  MaxRetry = 2
  IoErrors = FALSE
  ShortWrites = TRUE
  MaxStops = 1
SPECIFICATION Spec
INVARIANT ImageFollowsMemory
PROPERTY ImplementsStore
CHECK_DEADLOCK FALSE
