CONSTANTS
  NULL = NULL
  Files = {"photo", "tiff", "gif", "badgif", "big"}
  Factors = {1}
  MaxUp = 2
  Halvings = 2
  MaxZoom = 3
SPECIFICATION ImgFairSpec
INVARIANT ImgTypeOK
INVARIANT MovieAlive
 
INVARIANT ShownIsAsked
 
PROPERTY CallsReturn
