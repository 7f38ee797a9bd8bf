CONSTANTS
  Size = 6
  MinDist = 2
  MidDist = 3
  Sample = {0, 1}
  Zero = 0
  RecMax = 2
  PlayMax = 2
SPECIFICATION FairSpec
PROPERTY UnreadKept
PROPERTY ImplementsFifo
PROPERTY StreamFlows
