CONSTANTS
  Admins = {a1, a2}
  Actions = {"start", "pause", "resume", "cancel"}
  Through = 3
  Limit = 2
  None = None
SPECIFICATION MCSpec
INVARIANT ReplayIsAccounted
PROPERTY AdministratorsAreObeyed
PROPERTY RangeIsReached
PROPERTY DeadLettersReachAStore
PROPERTY StackComesUp
CHECK_DEADLOCK FALSE
