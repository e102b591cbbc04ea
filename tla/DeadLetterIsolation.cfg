CONSTANTS
  None = None
  Issues = {i1, i2}
  Live = {w1}
  Replaying = {r1}
  Mirroring = {w1, r1}
SPECIFICATION Spec
INVARIANTS
  IsolatedMirror
