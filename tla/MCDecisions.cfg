SPECIFICATION Spec
CONSTANTS
  None = None
  Unreadable = Unreadable
  Latest = 3
  MaxRank = 99
  MaxNumCtx = 999
  MaxExactCandidates = 2
  TemplateMargin = 1
  Buckets = {4, 8, 16}
  CpuThreads = 4
  MinSamples = 2
  MinGain = 10
  MaxPeriod = 4
  ScanWindow = 9
  MinSpan = 3
  MinCut = 3
  RouteInputs <- MCRouteInputs
  Catalogues <- MCCatalogues
  Assignments <- MCAssignments
  RunnerSets <- MCRunnerSets
  Loads <- MCLoads
  TaskInputs <- MCTaskInputs
  Windows <- MCWindows
  Runners <- MCRunners
  Hosts <- MCHosts
  Asks <- MCAsks
  LaterSettings <- MCLaterSettings
  InFlight <- MCInFlight
  Placings <- MCPlacings
  Histories <- MCHistories
  ReadyAsk <- MCReadyAsk
  Texts <- MCTexts
CHECK_DEADLOCK FALSE
INVARIANTS
  LosersDoNotMatter
  RepeatsOnlyAsLastResort
  UnloadsWhatIsNeeded
  SentContextCovers
  WarmRunnerKept
  LearnedIsFound
  PlacementIsEarned
  EarliestLoopIsFound
