CONSTANTS
  Apps = {a1, a2}
  Boot = Boot
  Modes = {"1080p60hz", "480cvbs"}
  HasCvbsMode = FALSE
  Overscan = TRUE
  MaxTries = 1
  MaxRequests = 1
SPECIFICATION Spec
INVARIANT TypeOK
INVARIANT ScreenReturns
