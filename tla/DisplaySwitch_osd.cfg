CONSTANTS
  Apps = {a1}
  Boot = Boot
  Modes = {"1080p60hz", "720p60hz"}
  HasCvbsMode = FALSE
  Overscan = FALSE
  MaxTries = 10
  MaxRequests = 1
SPECIFICATION Spec
INVARIANT OsdClosedDuringHdcp
