CONSTANTS
  svc = svc
  cmd = cmd
  t1 = t1
  t2 = t2
  Proc = {svc}
  Thread = {t1, t2}
  Home <- HomePool
  Name = {mode, hdcp}
  Value = {empty, a}
  Empty = empty
  NoValue = NoValue
  Corrupt = Corrupt
  Unloaded = Unloaded
  MaxRetry = 2
  IoErrors = FALSE
  ShortWrites = FALSE
  MaxStops = 0
SPECIFICATION Spec
INVARIANT SavedMeansReadable
CHECK_DEADLOCK FALSE
