CONSTANTS
  Apps = {a1}
  Boot = Boot
  Modes = {"1080p60hz", "480i60hz", "480cvbs"}
  HasCvbsMode = TRUE
  Overscan = TRUE
  MaxTries = 2
  MaxRequests = 2
SPECIFICATION FairSpec
INVARIANT PictureFitsMode
INVARIANT SavedIsShown
PROPERTY SwitchEnds
