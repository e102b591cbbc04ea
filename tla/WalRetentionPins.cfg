CONSTANTS
  Targets = {t1}
  Pins = {p1}
  None = None
  SegmentMax = 1
  MaxFrames = 3
  CanFailCreate = FALSE
SPECIFICATION Spec
INVARIANT FramesSurvive
INVARIANT PinnedReadable
INVARIANT RestartFindsWhatWasLeft
PROPERTY ProtectionHolds
