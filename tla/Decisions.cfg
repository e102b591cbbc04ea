SPECIFICATION MCSpec
CONSTANT None = None
CONSTANT Records <- MCRecords
CONSTANT Batches <- MCBatches
CONSTANT Requests = {"q1", "q2"}
CONSTANT MaxFaults = 1
CONSTANT Generations = {"g1", "g2"}
CONSTANT First = "g1"
CONSTANT MaxTime = 2
CONSTANT MaxInputs = 1
CONSTANT MaxRevision = 3
CONSTANT Capacity = 6
CONSTANT MinFreeBytes = 2
CONSTANT FrameBytes = {1, 2}
CONSTANT NoSample = NoSample
CONSTANT MaxReleases = 2
CONSTANT MaxFailures = 1
CONSTANT Jobs <- MCJobs
CONSTANT TargetFiles <- MCTargetFiles
CONSTANT LiveFiles <- MCLiveFiles
CONSTANT InstanceAt <- MCInstances
CONSTANT SetupRequests = {"q1", "q2"}
CONSTANT Unbound = Unbound
CONSTANT MaxEdits = 2
CONSTANT Targets <- MCTargets
CONSTANT MaxFieldEdits = 2
CONSTANT Scopes = {"east", "west"}
CONSTANT Default = "none"
CONSTANT NoScope = "none"
CONSTANT Missions = {"m1"}
CONSTANT NoMission = "nobody"
CONSTANT MaxRecord = 2
CONSTANT MaxObservedAt = 2
CONSTANT RowLimit = 5
CONSTANT Projects = {"p1", "p2"}
CONSTANT EnvFiles = {"e1", "e2"}
CONSTANT Images = {1, 2}
CONSTANT MaxRevisions = 2
CONSTANT MaxConfigEdits = 2
CONSTANT Migrators = {"a", "b"}
CONSTANT Releases <- MCReleases
CONSTANT Tables <- MCTables
CONSTANT Stores <- MCStores
CONSTANT Enabled <- MCStores
CONSTANT Askers = {"q1", "q2"}
CONSTANT TimeoutMs = 1
CONSTANT CacheMs = 1
CONSTANT NoneYet = NoneYet
CONSTANT MaxClock = 4
CONSTANT MaxChanges = 1
CONSTANT DiagnosticRows <- MCRows
CONSTANT Limits = {1, 2}
CONSTANT Window = 2
CONSTANT MaxOffset = 2
CONSTANT LastTime = 3
CONSTANT Rows <- MCLegacyRows
CONSTANT PageSize = 2
CONSTANT Mappings = {1, 2}
CONSTANT Unmade = Unmade
CONSTANT MaxMishaps = 2
INVARIANT NothingIsInvented
INVARIANT TransportLossIsUndone
INVARIANT AuthorityIsCurrent
INVARIANT LegacyScopeIsUnique
INVARIANT ReadersAreServed
INVARIANT StaysOperable
INVARIANT VolumesFit
INVARIANT AcceptedConfigurationDelivers
INVARIANT LedgerIsTrue
INVARIANT HistoryIsConsistent
INVARIANT AnsweredIsLogged
INVARIANT AnswersAreFresh
INVARIANT NothingSkipped
INVARIANT ReplaysStayApart
INVARIANT BackfillIsWhole
INVARIANT ReserveIsKept
PROPERTY CutoverLosesNothing
CHECK_DEADLOCK FALSE
