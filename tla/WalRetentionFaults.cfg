CONSTANTS
  Targets = {t1, t2}
  Pins = {}
  None = None
  SegmentMax = 1
  MaxFrames = 2
  CanFailCreate = TRUE
SPECIFICATION FairSpec
PROPERTY DeletionsComplete
