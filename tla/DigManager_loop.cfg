CONSTANTS
  MaxCount = 1
  CheckEvery = 2
  SupportSysBak = FALSE
  FaultSets = {{"data", "cache"}}
  BootsReadOnly = FALSE
  MaxFaults = 3
SPECIFICATION Spec
INVARIANT BoundedReboots
