CONSTANTS
  Rates = {0, 48}
  NoRate = NoRate
  None = None
  MaxRetry = 2
  BootPaths <- MCBootPaths
  WindowModes = {"480i60hz", "720p60hz", "800x480p60hz"}
  Windows <- MCWindows
  Percents = {80, 99, 100}
  MaxChanges = 2
  Grain = 2
  MaxCameras = 2
  MaxEvents = 5
  ShowThreads = {s1, s2, s3}
  MaxBroadcasts = 3
  HdmiModes = {"720p60hz", "1080p60hz"}
  CvbsModeNames = {"576cvbs"}
  Tvs <- MCTvs
  BestOutput = "720p60hz"
  HdmiOnly = TRUE
  MaxUntold = 2
  Names = {"factory_code", "work_mode"}
  Codes <- MCCodes
  Words <- MCWords
  default_key_map <- MCKeys
  MaxLines = 2
  MaxRuns = 2
SPECIFICATION PartsSpec
INVARIANT PartsTypeOK
INVARIANT BufferAlive
INVARIANT NothingLeft
INVARIANT MuteFollowsRate
INVARIANT PathsRestored
 
INVARIANT ZoomKept
INVARIANT WifiRestored
 
INVARIANT DriverAsWritten
PROPERTY ControlReturns
 
PROPERTY SubtitlesStop
