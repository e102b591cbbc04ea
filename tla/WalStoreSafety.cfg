CONSTANTS
  Callers = {c1, c2, c3}
  Ids = {i1, i2}
  Hashes = {h1, h2}
  None = None
  SegmentMax = 2
  MaxTotal = 3
  MaxPendingWrites = 2
SPECIFICATION Spec
SYMMETRY MCSymmetry
INVARIANTS
  TypeOK
  DiskIsAccounted
  StartupNeverRefuses
  AnswersAreDurable
  AcceptedOnce
