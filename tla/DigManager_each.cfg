CONSTANTS
  MaxCount = 3
  CheckEvery = 2
  SupportSysBak = TRUE
  FaultSets = {{"data"}, {"cache"}}
  BootsReadOnly = FALSE
  MaxFaults = 5
SPECIFICATION FairSpec
INVARIANT TypeOK
INVARIANT BoundedReboots
 
 
PROPERTY CommandStands
PROPERTY DataRecovers
PROPERTY CacheRecovers
