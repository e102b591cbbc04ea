SPECIFICATION FairSpec
CONSTANTS
  MaxEntries = 2
  BatchSize = 2
  IndexLimit = 1
  PageLimit = 1
  None = None
INVARIANT BookkeepingHolds
INVARIANT SnapshotIsReadable
INVARIANT PagesAreOneSnapshot
INVARIANT LedgerIsExact
PROPERTY CaughtUpIsTrue
PROPERTY SnapshotFollowsLog
