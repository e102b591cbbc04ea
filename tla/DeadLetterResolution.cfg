CONSTANTS
  None = None
  Issues = {i1, i2}
  Live = {w1}
  Replaying = {}
  Mirroring = {w1}
SPECIFICATION Spec
INVARIANTS
  ResolutionMirrored
