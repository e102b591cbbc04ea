CONSTANTS
  Callers = {c1, c2}
  Ids = {i1}
  Hashes = {h1, h2}
  None = None
  SegmentMax = 1
  MaxTotal = 3
  MaxPendingWrites = 2
SPECIFICATION FairSpec
PROPERTY ImplementsLedger
PROPERTY EverythingEnds
