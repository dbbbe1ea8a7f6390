\* Three tasks and threshold two let a late outcome of an old request count; the
\* services end or go on for ever, so that a state without successor is no fault.
SPECIFICATION ServicesSpec
CONSTANTS
  Tasks = {t1, t2, t3}
  Threshold = 2
  MaxFailures = 4
  Samples <- MCSamples
  RecoverySamples = 2
  None = None
  Missing = Missing
  Invalid = Invalid
  HistoryLimit = 1
  Versions <- MCVersions
  Pinned <- MCPinned
  Env <- MCEnv
  Forwards <- MCForwards
  Profiles <- MCProfiles
  KindOf <- MCKindOf
  Responses <- MCResponses
  Second = 100
  Ceilings <- MCCeilings
  Streak = 3
  MinSamples = 2
  Completions = {"t1", "t2"}
  Viewers = {"v"}
  Contexts = {1, 2}
  Bytes = {1}
  MaxRestarts = 1
  Callers = {"r1", "r2"}
  Installed <- MCInstalled
  CpuModels = {"b"}
  Batches <- MCBatches
  MaxItems = 64
  DefaultWidth = 8
  Shares <- MCShares
  Reloaders = {"poller", "post"}
  MaxEdits = 2
CHECK_DEADLOCK FALSE
INVARIANTS
  ProbeOwned
  FreshResidency
  FairStart
  EveryItemAnswered
  LastGoodKept
  SettledMeansApplied
PROPERTIES
  EndsWhenWell
  RaiseIsEarned
  FileNeverGoesBack
  ProbeSlotFrees
  QuietHoldsEnd
  LimitRecovers
