SPECIFICATION RtSpec
CONSTANTS
  Vars = {p, q}
  Smooth = FALSE
  MaxStrings = 3
  MaxLen = 2
  MaxSize = 2
  MaxNext = 3
  IntBits = 8
PROPERTY GrowsAlone
