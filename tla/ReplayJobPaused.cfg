CONSTANTS
  Admins = {a1}
  Actions = {"start", "pause", "resume", "cancel"}
  Through = 2
  Limit = 2
  None = None
SPECIFICATION FairSpec
PROPERTIES
  RunningEnds
