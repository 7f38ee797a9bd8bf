CONSTANTS
  svc = svc
  cmd = cmd
  t1 = t1
  t2 = t2
  Proc = {svc}
  Thread = {t1}
  Home <- HomeOne
  Name = {mode, hdcp}
  Value = {empty, a, b}
  Empty = empty
  NoValue = NoValue
  Corrupt = Corrupt
  Unloaded = Unloaded
  MaxRetry = 2
  IoErrors = TRUE
  ShortWrites = FALSE
  MaxStops = 1
SPECIFICATION Spec
INVARIANT TypeOK
INVARIANT SavedMeansStored
INVARIANT StoredVariablesKnown
CHECK_DEADLOCK FALSE
