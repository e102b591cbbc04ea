CONSTANTS
  Targets = {t1}
  Pins = {p1}
  None = None
  SegmentMax = 1
  MaxFrames = 3
  CanFailCreate = TRUE
SPECIFICATION Spec
INVARIANTS
  FramesSurvive
